--------------------------- MODULE RecordsProofs ---------------------------
(***************************************************************************)
(* For any attempts, visits, runs, agents, prices, answers, statuses,      *)
(* tasks, requests, fields and values: the safety of what is recorded of a *)
(* run, of its page, and of the settings.                                  *)
(*   PlanIsTrue       RunPlanSteps,      by PlanInv                        *)
(*   CostsAreTrue     UsageLedger,       by UsageInv                       *)
(*   BoardIsTrue      RunBoard,          by BoardInv                       *)
(*   SettingsAreTrue  OperatorSettings,  by SettingsInv                    *)
(*   MailsAreTrue     Takedown,          by MailInv                        *)
(*   RollupsAreTrue   AgentRollups,      by RollInv                        *)
(***************************************************************************)
EXTENDS RunPlanSteps, UsageLedger, RunBoard, OperatorSettings, Takedown, AgentRollups,
        FiniteSetTheorems, WellFoundedInduction, SequenceTheorems, TLAPS

-----------------------------------------------------------------------------
(* The stored plan says which node runs, and the console shows it.  The    *)
(* invariant adds that a node is entered only in a running attempt.        *)

PlanInv == PlanTrue /\ (inside => execution = "running")

\* The steps that are in progress.
UnderWay(plan) == {s \in PlanSteps : plan[s] = "in_progress"}

\* What a transition may do to the plan and its announcement.
LEMMA TransitionEffect ==
    ASSUME PlanInv, NEW n, NEW status \in Statuses, Transition(n, status)
    PROVE  /\ steps' \in [PlanSteps -> Statuses] /\ news' \in BOOLEAN /\ shaken' \in BOOLEAN
           /\ (~shaken' => ~shaken) /\ (steps = NoPlan => steps' = NoPlan)
           /\ (steps' = steps /\ news' = news) \/ news' = TRUE
           /\ steps # NoPlan /\ ~shaken' /\ n \in PlanSteps => steps' = [steps EXCEPT ![n] = status]
           /\ n \notin PlanSteps => steps' = steps
<1>1. steps \in [PlanSteps -> Statuses] /\ news \in BOOLEAN /\ shaken \in BOOLEAN
  BY DEF PlanInv, PlanTrue, PlanTypeOK
<1> QED
  BY <1>1 DEF Transition, Moved

\* The plan tells the node, before and after a node is entered or left.
LEMMA TransitionTells ==
    ASSUME PlanInv, NEW n, NEW status \in Statuses, Transition(n, status),
           inside' = (status = "in_progress"), node' = n,
           inside => node = n,
           planShown' = planShown
    PROVE  StepsTellNode' /\ ConsoleHasPlan'
<1>1. /\ steps \in [PlanSteps -> Statuses] /\ inside \in BOOLEAN
      /\ StepsTellNode /\ ConsoleHasPlan
  BY DEF PlanInv, PlanTrue, PlanTypeOK
<1>2. /\ (~shaken' => ~shaken) /\ (steps = NoPlan => steps' = NoPlan)
      /\ (steps' = steps /\ news' = news) \/ news' = TRUE
      /\ steps # NoPlan /\ ~shaken' /\ n \in PlanSteps => steps' = [steps EXCEPT ![n] = status]
      /\ n \notin PlanSteps => steps' = steps
  BY TransitionEffect
<1>3. ConsoleHasPlan'
  BY <1>1, <1>2 DEF ConsoleHasPlan
<1>4. ASSUME steps' # NoPlan, ~shaken'
      PROVE  {s \in PlanSteps : steps'[s] = "in_progress"} = {node'} \cap (IF inside' THEN PlanSteps ELSE {})
  <2>1. {s \in PlanSteps : steps[s] = "in_progress"} = {node} \cap (IF inside THEN PlanSteps ELSE {})
    BY <1>1, <1>2, <1>4 DEF StepsTellNode
  <2>2. \A s \in PlanSteps : s # n => steps[s] # "in_progress"
    BY <2>1
  <2>3. CASE n \in PlanSteps
    <3>1. steps' = [steps EXCEPT ![n] = status]
      BY <1>2, <1>4, <2>3
    <3>2. \A s \in PlanSteps : steps'[s] = IF s = n THEN status ELSE steps[s]
      BY <1>1, <3>1
    <3> QED
      BY <2>2, <2>3, <3>2
  <2>4. CASE n \notin PlanSteps
    BY <1>2, <2>2, <2>4
  <2> QED
    BY <2>3, <2>4
<1>5. StepsTellNode'
  BY <1>4 DEF StepsTellNode
<1> QED
  BY <1>3, <1>5

\* The plan of a run is true, whatever happens to its attempts.
LEMMA PlanStart == PlanInit => PlanInv
<1> SUFFICES ASSUME PlanInit PROVE PlanInv
  OBVIOUS
<1>1. NoPlan \in [PlanSteps -> Statuses]
  BY DEF NoPlan, Statuses
<1>2. PlanTypeOK
  <2>1. 0 \in 0..MaxVisits /\ 0 \in 0..MaxAttempts
    BY PlanAssumption
  <2>2. /\ execution = "idle" /\ node = "start" /\ inside = FALSE /\ visits = 0 /\ planTries = 0
        /\ parent = FALSE /\ steps = NoPlan /\ news = FALSE /\ planShown = NoPlan /\ shaken = FALSE
    BY DEF PlanInit
  <2>3. node \in {e[2] : e \in Edges} \cup {"start"}
    BY <2>2
  <2> QED
    BY <1>1, <2>1, <2>2, <2>3 DEF PlanTypeOK
<1>3. StepsTellNode /\ ConsoleHasPlan
  BY DEF PlanInit, StepsTellNode, ConsoleHasPlan
<1> QED
  BY <1>2, <1>3 DEF PlanInv, PlanTrue, PlanInit

\* A node is entered, left, or raises.
LEMMA NodeKeeps ==
    ASSUME PlanInv, NEW n, NEW status \in Statuses, Transition(n, status),
           inside' = (status = "in_progress"), node' = n, inside => node = n,
           planShown' = planShown, planTries' = planTries,
           visits' \in 0..MaxVisits, n \in {e[2] : e \in Edges} \cup {"start"},
           execution' \in {"running", "saved", "broken"}, parent' \in BOOLEAN,
           inside' => execution' = "running"
    PROVE  PlanInv'
<1>1. StepsTellNode' /\ ConsoleHasPlan'
  BY TransitionTells
<1>2. steps' \in [PlanSteps -> Statuses] /\ news' \in BOOLEAN /\ shaken' \in BOOLEAN
  BY TransitionEffect
<1>3. inside' \in BOOLEAN
  OBVIOUS
<1>4. PlanTypeOK'
  BY <1>2, <1>3 DEF PlanInv, PlanTrue, PlanTypeOK
<1> QED
  BY <1>1, <1>4 DEF PlanInv, PlanTrue

\* PlanTrue: the stored plan tells where the graph is, and the console shows
\* it, through replans, retries and failing writes (_wrap_plan_step,
\* emit_run_plan, transition_step).
THEOREM PlanIsTrue == PlanSpec => []PlanTrue
<1>1. PlanInv /\ [PlanNext]_planVars => PlanInv'
  <2> SUFFICES ASSUME PlanInv, [PlanNext]_planVars PROVE PlanInv'
    OBVIOUS
  <2>1. /\ execution \in {"idle", "running", "saved", "broken"}
        /\ node \in {e[2] : e \in Edges} \cup {"start"}
        /\ inside \in BOOLEAN /\ visits \in 0..MaxVisits /\ planTries \in 0..MaxAttempts
        /\ parent \in BOOLEAN /\ news \in BOOLEAN /\ shaken \in BOOLEAN
        /\ steps \in [PlanSteps -> Statuses] /\ planShown \in [PlanSteps -> Statuses]
        /\ StepsTellNode /\ ConsoleHasPlan /\ (inside => execution = "running")
    BY DEF PlanInv, PlanTrue, PlanTypeOK
  <2>2. "in_progress" \in Statuses /\ "done" \in Statuses /\ "failed" \in Statuses
    BY DEF Statuses
  <2>3. CASE BeginAttempt
    <3>1. /\ ~inside /\ ~inside' /\ node' = "start" /\ news' = TRUE /\ planShown' = planShown
          /\ execution' = "running" /\ visits' = visits /\ parent' = parent
          /\ planTries' \in 0..MaxAttempts
      BY <2>1, <2>3, PlanAssumption DEF BeginAttempt
    <3>2. /\ steps' = steps \/ (steps = NoPlan /\ steps' \in {NoPlan, Fresh})
          /\ shaken' \in BOOLEAN /\ (~shaken' => ~shaken)
      <4>1. (steps' = Created /\ shaken' = shaken) \/ (steps' = steps /\ shaken' = TRUE)
        BY <2>3 DEF BeginAttempt
      <4>2. Created = steps \/ (steps = NoPlan /\ Created \in {NoPlan, Fresh})
        BY DEF Created
      <4> QED
        BY <2>1, <4>1, <4>2
    <3>3. Fresh \in [PlanSteps -> Statuses] /\ \A s \in PlanSteps : Fresh[s] # "in_progress"
      BY DEF Fresh, Statuses
    <3>4. PlanTypeOK'
      BY <2>1, <3>1, <3>2, <3>3, <2>3 DEF PlanTypeOK, BeginAttempt
    <3>5. StepsTellNode'
      BY <2>1, <3>1, <3>2, <3>3 DEF StepsTellNode
    <3>6. ConsoleHasPlan'
      BY <3>1 DEF ConsoleHasPlan
    <3> QED
      BY <3>1, <3>4, <3>5, <3>6 DEF PlanInv, PlanTrue
  <2>4. ASSUME NEW e \in Edges, EnterNode(e[2]) PROVE PlanInv'
    <3>1. /\ execution = "running" /\ ~inside /\ inside' = TRUE /\ node' = e[2] /\ visits < MaxVisits
          /\ visits' = visits + 1 /\ Transition(e[2], "in_progress")
          /\ execution' = execution /\ planTries' = planTries /\ parent' = parent
          /\ planShown' = planShown
      BY <2>4 DEF EnterNode
    <3>2. visits' \in 0..MaxVisits
      BY <2>1, <3>1, PlanAssumption
    <3>3. e[2] \in {f[2] : f \in Edges} \cup {"start"}
      OBVIOUS
    <3> QED
      BY <2>1, <2>2, <3>1, <3>2, <3>3, NodeKeeps
  <2>5. CASE LeaveNode
    <3>1. /\ inside /\ inside' = FALSE /\ Transition(node, "done")
          /\ execution' = execution /\ planTries' = planTries /\ parent' = parent
          /\ planShown' = planShown /\ node' = node /\ visits' = visits
      BY <2>5 DEF LeaveNode, Left
    <3> QED
      BY <2>1, <2>2, <3>1, NodeKeeps
  <2>6. ASSUME NEW saved \in BOOLEAN, NodeRaises(saved) PROVE PlanInv'
    <3>1. /\ inside /\ inside' = FALSE /\ Transition(node, "failed")
          /\ execution' \in {"saved", "broken"} /\ planTries' = planTries /\ parent' \in BOOLEAN
          /\ planShown' = planShown /\ node' = node /\ visits' = visits
      BY <2>1, <2>6 DEF NodeRaises
    <3> QED
      BY <2>1, <2>2, <3>1, NodeKeeps
  <2>7. ASSUME NEW saved \in BOOLEAN, Interrupted(saved) PROVE PlanInv'
    BY <2>1, <2>7 DEF Interrupted, PlanInv, PlanTrue, PlanTypeOK, StepsTellNode, ConsoleHasPlan
  <2>8. CASE EndAttempt \/ CrashAfterSave
    <3>1. /\ ~inside /\ inside' = inside /\ node' = node /\ visits' = visits /\ planTries' = planTries
          /\ steps' = steps /\ news' = news /\ planShown' = planShown
          /\ execution' \in {"saved", "broken"} /\ parent' \in BOOLEAN
          /\ shaken' \in BOOLEAN /\ (~shaken' => ~shaken)
      <4>1. CASE EndAttempt
        BY <2>1, <4>1 DEF EndAttempt
      <4>2. CASE CrashAfterSave
        BY <2>1, <4>2 DEF CrashAfterSave
      <4> QED
        BY <2>8, <4>1, <4>2
    <3>2. StepsTellNode' /\ ConsoleHasPlan'
      BY <2>1, <3>1 DEF StepsTellNode, ConsoleHasPlan
    <3>3. PlanTypeOK'
      BY <2>1, <3>1 DEF PlanTypeOK
    <3> QED
      BY <3>1, <3>2, <3>3 DEF PlanInv, PlanTrue
  <2>9. CASE Tick
    BY <2>1, <2>9 DEF Tick, Attached, PlanInv, PlanTrue, PlanTypeOK, StepsTellNode, ConsoleHasPlan
  <2>10. CASE UNCHANGED planVars
    BY <2>1, <2>10 DEF planVars, PlanInv, PlanTrue, PlanTypeOK, StepsTellNode, ConsoleHasPlan
  <2> QED
    BY <2>3, <2>4, <2>5, <2>6, <2>7, <2>8, <2>9, <2>10 DEF PlanNext
<1>2. PlanInv => PlanTrue
  BY DEF PlanInv
<1> QED
  BY <1>1, <1>2, PlanStart, PTL DEF PlanSpec

-----------------------------------------------------------------------------
(* The usage of a run.  UsageInv counts, for each run, what its answers    *)
(* cost and how many it still waits for, so that the sums of CostsTrue     *)
(* are preserved by each answer.                                           *)

MetricsType ==
  [calls : Nat, in : Nat, cached : Nat, new : Nat, out : Nat, inCost : Nat, cachedCost : Nat,
   writeCost : Nat, outCost : Nat, total : Nat, unsplit : Nat, by : [Names -> Nat]]

LoggedType == [calls : Nat, in : Nat, cached : Nat, out : Nat, total : Nat]

LedgerTyped ==
  /\ price \in Prices /\ paid \in [Runs -> [Agents -> Prices]]
  /\ agent \in [Runs -> [Agents -> {"idle", "asking"}]]
  /\ metrics \in [Runs -> MetricsType] /\ logged \in [Runs -> LoggedType]
  /\ told \in [Runs -> 0..1] /\ warned \in [Runs -> 0..1] /\ cancelled \in [Runs -> BOOLEAN]
  /\ ended \subseteq Runs
  /\ usageRows \in [Runs -> [Names -> Nat]]
  /\ eventCalls \in [Runs -> Nat] /\ totalCalls \in [Runs -> Nat]

\* The metrics, the events and the rows of a run fit; what it still asks for does not
\* exceed what the cap leaves; and when it has ended it asks for nothing.
RunFits(r) ==
  /\ USum(metrics[r].by) = metrics[r].calls /\ USum(usageRows[r]) = totalCalls[r]
  /\ metrics[r].total = metrics[r].inCost + metrics[r].cachedCost + metrics[r].writeCost
                          + metrics[r].outCost + metrics[r].unsplit
  /\ logged[r].calls = metrics[r].calls /\ logged[r].in = metrics[r].in
  /\ logged[r].cached = metrics[r].cached /\ logged[r].out = metrics[r].out
  /\ logged[r].total = metrics[r].total /\ totalCalls[r] = eventCalls[r]
  /\ told[r] = 1 <=> metrics[r].total >= Cap
  /\ told[r] = 1 =>
       /\ cancelled[r]
       /\ metrics[r].total + Asking(r) * DearestAnswer < Cap + Cardinality(Agents) * DearestAnswer
  /\ r \in ended => Asking(r) = 0 /\ totalCalls[r] = metrics[r].calls

UsageInv == LedgerTyped /\ (\A r \in Runs : RunFits(r)) /\ Calls <= MaxCalls


\* Sums of natural numbers over finite domains.
LEMMA UnitsCounted ==
    ASSUME NEW D, IsFiniteSet(D), NEW f \in [D -> Nat]
    PROVE  IsFiniteSet(Units(f)) /\ USum(f) \in Nat
<1> DEFINE column == [x \in D |-> {x} \X (1..f[x])]
           columns == {{x} \X (1..f[x]) : x \in DOMAIN f}
<1>1. \A x \in D : IsFiniteSet({x} \X (1..f[x]))
  <2> SUFFICES ASSUME NEW x \in D PROVE IsFiniteSet({x} \X (1..f[x]))
    OBVIOUS
  <2>1. IsFiniteSet({x}) /\ IsFiniteSet(1..f[x])
    <3>1. f[x] \in Int /\ 1 \in Int
      OBVIOUS
    <3> QED
      BY <3>1, FS_Singleton, FS_Interval
  <2> QED
    BY <2>1, FS_Product
<1>2. column \in Surjection(D, columns)
  BY DEF Surjection
<1>3. IsFiniteSet(columns) /\ \A c \in columns : IsFiniteSet(c)
  BY <1>1, <1>2, FS_Surjection
<1>4. IsFiniteSet(Units(f))
  BY <1>3, FS_UNION DEF Units
<1> QED
  BY <1>4, FS_CardinalityType DEF USum

LEMMA UnitsOf ==
    ASSUME NEW D, NEW f \in [D -> Nat]
    PROVE  Units(f) = {u \in D \X (Nat \ {0}) : u[2] <= f[u[1]]}
<1>1. \A x \in D : \A i : i \in 1..f[x] <=> i \in Nat \ {0} /\ i <= f[x]
  OBVIOUS
<1> QED
  BY <1>1 DEF Units

LEMMA SumOfNone ==
    ASSUME NEW D, NEW f \in [D -> Nat], \A x \in D : f[x] = 0
    PROVE  USum(f) = 0
<1>1. Units(f) = {}
  BY UnitsOf
<1> QED
  BY <1>1, FS_EmptySet DEF USum

LEMMA SumGrows ==
    ASSUME NEW D, IsFiniteSet(D), NEW f \in [D -> Nat], NEW x \in D
    PROVE  USum([f EXCEPT ![x] = @ + 1]) = USum(f) + 1
<1> DEFINE g == [f EXCEPT ![x] = @ + 1]
<1>1. g \in [D -> Nat] /\ g[x] = f[x] + 1 /\ \A y \in D \ {x} : g[y] = f[y]
  OBVIOUS
<1>2. Units(g) = Units(f) \cup {<<x, f[x] + 1>>}
  <2> HIDE DEF g
  <2>1. \A y \in D, i \in Nat \ {0} : i <= g[y] <=> i <= f[y] \/ (y = x /\ i = f[x] + 1)
    BY <1>1
  <2>2. f[x] + 1 \in Nat \ {0}
    OBVIOUS
  <2> QED
    BY <1>1, <2>1, <2>2, UnitsOf
<1>3. <<x, f[x] + 1>> \notin Units(f)
  BY UnitsOf
<1> QED
  BY <1>2, <1>3, UnitsCounted, FS_AddElement DEF USum

LEMMA SumMonotone ==
    ASSUME NEW D, IsFiniteSet(D), NEW f \in [D -> Nat], NEW g \in [D -> Nat],
           \A x \in D : f[x] <= g[x]
    PROVE  USum(f) <= USum(g)
<1>1. Units(f) \subseteq Units(g)
  <2>1. \A x \in D, i \in Nat : i <= f[x] => i <= g[x]
    OBVIOUS
  <2> QED
    BY <2>1, UnitsOf
<1> QED
  BY <1>1, UnitsCounted, FS_Subset DEF USum

LEMMA TermInSum ==
    ASSUME NEW D, IsFiniteSet(D), NEW f \in [D -> Nat], NEW x \in D
    PROVE  f[x] <= USum(f)
<1> DEFINE unit == [i \in 1..f[x] |-> <<x, i>>]
<1>1. unit \in Injection(1..f[x], Units(f))
  BY UnitsOf DEF Injection, IsInjective
<1>2. Cardinality(1..f[x]) <= Cardinality(Units(f))
  BY <1>1, UnitsCounted, FS_Injection
<1>3. Cardinality(1..f[x]) = f[x]
  <2>1. f[x] \in Int /\ 1 \in Int /\ f[x] \in Nat
    OBVIOUS
  <2> QED
    BY <2>1, FS_Interval
<1> QED
  BY <1>2, <1>3 DEF USum

\* Rows summed first, or columns first: every unit of a row has a place in its column.
LEMMA SumsExchanged ==
    ASSUME NEW A, IsFiniteSet(A), NEW B, IsFiniteSet(B), NEW F \in [A -> [B -> Nat]]
    PROVE  USum([a \in A |-> USum(F[a])]) <= USum([b \in B |-> USum([a \in A |-> F[a][b]])])
<1> DEFINE Row(a) == F[a]
           Col(b) == [a \in A |-> F[a][b]]
           rows == [a \in A |-> USum(Row(a))]
           cols == [b \in B |-> USum(Col(b))]
<1>1. \A a \in A : Row(a) \in [B -> Nat]
  OBVIOUS
<1>2. \A b \in B : Col(b) \in [A -> Nat] /\ \A a \in A : Col(b)[a] = Row(a)[b]
  OBVIOUS
<1> HIDE DEF Row, Col
<1>3. \A a \in A : IsFiniteSet(Units(Row(a))) /\ USum(Row(a)) \in Nat
  BY <1>1, UnitsCounted
<1>4. \A b \in B : IsFiniteSet(Units(Col(b))) /\ USum(Col(b)) \in Nat
  BY <1>2, UnitsCounted
<1>5. rows \in [A -> Nat] /\ cols \in [B -> Nat]
  BY <1>3, <1>4
<1>6. \A a \in A : \E h : h \in Bijection(1..USum(Row(a)), Units(Row(a)))
  BY <1>3, FS_CardinalityType DEF USum, ExistsBijection
<1>7. \A b \in B : \E h : h \in Bijection(Units(Col(b)), 1..USum(Col(b)))
  <2> SUFFICES ASSUME NEW b \in B PROVE \E h : h \in Bijection(Units(Col(b)), 1..USum(Col(b)))
    OBVIOUS
  <2>1. IsFiniteSet(1..USum(Col(b))) /\ Cardinality(1..USum(Col(b))) = USum(Col(b))
    <3>1. USum(Col(b)) \in Int /\ 1 \in Int /\ USum(Col(b)) \in Nat
      BY <1>4
    <3> QED
      BY <3>1, FS_Interval
  <2>2. Cardinality(Units(Col(b))) = Cardinality(1..USum(Col(b)))
    BY <2>1 DEF USum
  <2> QED
    BY <1>4, <2>1, <2>2, FS_SameCardinalityBij DEF ExistsBijection
<1>8. PICK H : \A a \in A : H[a] \in Bijection(1..USum(Row(a)), Units(Row(a)))
  <2> DEFINE G == [a \in A |-> CHOOSE h : h \in Bijection(1..USum(Row(a)), Units(Row(a)))]
  <2>1. \A a \in A : G[a] \in Bijection(1..USum(Row(a)), Units(Row(a)))
    BY <1>6
  <2> HIDE DEF G
  <2> QED
    BY <2>1
<1>9. PICK K : \A b \in B : K[b] \in Bijection(Units(Col(b)), 1..USum(Col(b)))
  <2> DEFINE G == [b \in B |-> CHOOSE h : h \in Bijection(Units(Col(b)), 1..USum(Col(b)))]
  <2>1. \A b \in B : G[b] \in Bijection(Units(Col(b)), 1..USum(Col(b)))
    BY <1>7
  <2> HIDE DEF G
  <2> QED
    BY <2>1
<1>10. \A a \in A : \A i \in 1..USum(Row(a)) :
          /\ H[a][i] \in Units(Row(a)) /\ H[a][i][1] \in B
          /\ <<a, H[a][i][2]>> \in Units(Col(H[a][i][1]))
          /\ H[a][i] = <<H[a][i][1], H[a][i][2]>>
  <2> SUFFICES ASSUME NEW a \in A, NEW i \in 1..USum(Row(a))
               PROVE  /\ H[a][i] \in Units(Row(a)) /\ H[a][i][1] \in B
                      /\ <<a, H[a][i][2]>> \in Units(Col(H[a][i][1]))
                      /\ H[a][i] = <<H[a][i][1], H[a][i][2]>>
    OBVIOUS
  <2>1. H[a][i] \in Units(Row(a))
    BY <1>8 DEF Bijection, Injection
  <2>2. PICK b \in B, k \in Nat \ {0} : H[a][i] = <<b, k>> /\ k <= Row(a)[b]
    BY <1>1, <2>1, UnitsOf
  <2>3. <<a, k>> \in Units(Col(b))
    <3>1. Units(Col(b)) = {u \in A \X (Nat \ {0}) : u[2] <= Col(b)[u[1]]}
      BY <1>2, UnitsOf
    <3> QED
      BY <1>2, <2>2, <3>1
  <2> QED
    BY <2>1, <2>2, <2>3
<1> DEFINE place == [u \in Units(rows) |->
                       LET cell == H[u[1]][u[2]]
                       IN  <<cell[1], K[cell[1]][<<u[1], cell[2]>>]>>]
<1>11. \A u \in Units(rows) : u[1] \in A /\ u[2] \in 1..USum(Row(u[1])) /\ u = <<u[1], u[2]>>
  <2>1. \A a \in A, i \in Nat \ {0} : i <= rows[a] => i \in 1..USum(Row(a))
    BY <1>5
  <2> QED
    BY <1>5, <2>1, UnitsOf
<1>12. \A b \in B : \A i \in 1..USum(Col(b)) : <<b, i>> \in Units(cols)
  <2>1. \A b \in B : \A i \in 1..USum(Col(b)) : i \in Nat \ {0} /\ i <= cols[b]
    BY <1>4, <1>5
  <2> QED
    BY <1>5, <2>1, UnitsOf
<1> HIDE DEF rows, cols
<1>13. \A u \in Units(rows) : place[u] \in Units(cols)
  <2> SUFFICES ASSUME NEW u \in Units(rows) PROVE place[u] \in Units(cols)
    OBVIOUS
  <2>1. PICK cell : cell = H[u[1]][u[2]]
    OBVIOUS
  <2>2. cell[1] \in B /\ <<u[1], cell[2]>> \in Units(Col(cell[1]))
    BY <1>10, <1>11, <2>1
  <2>3. K[cell[1]][<<u[1], cell[2]>>] \in 1..USum(Col(cell[1]))
    BY <1>9, <2>2 DEF Bijection, Injection
  <2>4. place[u] = <<cell[1], K[cell[1]][<<u[1], cell[2]>>]>>
    BY <2>1
  <2> QED
    BY <1>12, <2>2, <2>3, <2>4
<1>14. ASSUME NEW u \in Units(rows), NEW v \in Units(rows), place[u] = place[v] PROVE u = v
  <2>1. PICK cell, dell : cell = H[u[1]][u[2]] /\ dell = H[v[1]][v[2]]
    OBVIOUS
  <2>2. /\ cell[1] \in B /\ <<u[1], cell[2]>> \in Units(Col(cell[1])) /\ cell = <<cell[1], cell[2]>>
        /\ dell[1] \in B /\ <<v[1], dell[2]>> \in Units(Col(dell[1])) /\ dell = <<dell[1], dell[2]>>
    BY <1>10, <1>11, <2>1
  <2>3. /\ place[u] = <<cell[1], K[cell[1]][<<u[1], cell[2]>>]>>
        /\ place[v] = <<dell[1], K[dell[1]][<<v[1], dell[2]>>]>>
    BY <2>1
  <2> HIDE DEF place
  <2>4. cell[1] = dell[1] /\ K[cell[1]][<<u[1], cell[2]>>] = K[cell[1]][<<v[1], dell[2]>>]
    <3>1. PICK b, c, i, j : /\ b = cell[1] /\ i = K[cell[1]][<<u[1], cell[2]>>]
                            /\ c = dell[1] /\ j = K[dell[1]][<<v[1], dell[2]>>]
      OBVIOUS
    <3>2. place[u] = <<b, i>> /\ place[v] = <<c, j>> /\ place[u] = place[v]
      BY <1>14, <2>3, <3>1
    <3>3. b = c /\ i = j
      BY <3>2
    <3> QED
      BY <3>1, <3>3
  <2>5. <<u[1], cell[2]>> = <<v[1], dell[2]>>
    BY <1>9, <2>2, <2>4 DEF Bijection, Injection, IsInjective
  <2>6. u[1] = v[1] /\ cell = dell
    BY <2>2, <2>4, <2>5
  <2>7. u[2] = v[2]
    <3>1. PICK a \in A : a = u[1] /\ a = v[1]
      BY <1>11, <2>6
    <3>2. H[a][u[2]] = H[a][v[2]] /\ u[2] \in 1..USum(Row(a)) /\ v[2] \in 1..USum(Row(a))
      BY <1>11, <2>1, <2>6, <3>1
    <3>3. \A i, j \in 1..USum(Row(a)) : H[a][i] = H[a][j] => i = j
      BY <1>8 DEF Bijection, Injection, IsInjective
    <3> QED
      BY <3>2, <3>3
  <2> QED
    BY <1>11, <2>6, <2>7
<1>15. place \in Injection(Units(rows), Units(cols))
  <2> HIDE DEF place
  <2>1. place \in [Units(rows) -> Units(cols)]
    BY <1>13 DEF place
  <2> QED
    BY <1>14, <2>1 DEF Injection, IsInjective
<1>16. Cardinality(Units(rows)) <= Cardinality(Units(cols))
  BY <1>5, <1>15, UnitsCounted, FS_Injection
<1> QED
  BY <1>16 DEF USum, rows, cols, Row, Col

LEMMA Products == \A x, y \in Nat : x * y \in Nat
OBVIOUS

LEMMA NamesCounted == IsFiniteSet(Names) /\ \A p \in Prices : NameOf(p) \in Names
<1> DEFINE some == {p.provider : p \in Prices \ {Unpriced}}
           name == [p \in Prices \ {Unpriced} |-> p.provider]
<1>1. IsFiniteSet(Prices \ {Unpriced})
  BY UsageAssumption, FS_Difference
<1>2. name \in Surjection(Prices \ {Unpriced}, some)
  BY DEF Surjection
<1>3. IsFiniteSet(some)
  BY <1>1, <1>2, FS_Surjection
<1>4. IsFiniteSet({RuntimeName})
  BY FS_Singleton
<1>5. IsFiniteSet(Names)
  BY <1>3, <1>4, FS_Union DEF Names
<1> QED
  BY <1>5 DEF NameOf, Names

\* What an answer costs; what a provider reports is not split into lines.
LEMMA CostTyped ==
    ASSUME NEW u \in Answers, NEW p \in Prices
    PROVE  /\ u.in \in Nat /\ u.cached \in Nat /\ u.out \in Nat /\ u.billed \in Nat
           /\ BilledInput(u) \in Nat
           /\ Cost(u, p).inCost \in Nat /\ Cost(u, p).cachedCost \in Nat
           /\ Cost(u, p).writeCost \in Nat /\ Cost(u, p).outCost \in Nat /\ Cost(u, p).total \in Nat
           /\ Cost(u, p).total = Cost(u, p).inCost + Cost(u, p).cachedCost + Cost(u, p).writeCost
                                   + Cost(u, p).outCost + u.billed
<1>1. /\ u.in \in Nat /\ u.cached \in Nat /\ u.write \in Nat /\ u.out \in Nat /\ u.think \in Nat
      /\ u.billed \in Nat
  <2>1. u \in Amounts
    BY UsageAssumption
  <2> QED
    BY <2>1 DEF Amounts
<1>2. BilledInput(u) \in Nat
  BY <1>1 DEF BilledInput, UMax
<1>3. CASE Reported(u)
  <2>1. Cost(u, p) = [inCost |-> 0, cachedCost |-> 0, writeCost |-> 0, outCost |-> 0, total |-> u.billed]
    BY <1>3 DEF Cost, Billed, NoCost
  <2> QED
    BY <1>1, <1>2, <2>1
<1>4. CASE ~Reported(u) /\ p = Unpriced
  <2>1. Cost(u, p) = [inCost |-> 0, cachedCost |-> 0, writeCost |-> 0, outCost |-> 0, total |-> 0]
    BY <1>4 DEF Cost, NoCost
  <2>2. u.billed = 0
    BY <1>1, <1>4 DEF Reported
  <2> QED
    BY <1>1, <1>2, <2>1, <2>2
<1>5. CASE ~Reported(u) /\ p # Unpriced
  <2>1. p.in \in Nat /\ p.cached \in Nat /\ p.write \in Nat /\ p.out \in Nat
    BY <1>5, UsageAssumption
  <2>2. PICK a, b, c, d \in Nat : /\ a = BilledInput(u) * p.in /\ b = u.cached * p.cached
                                  /\ c = u.write * p.write /\ d = (u.out + u.think) * p.out
    <3>1. u.out + u.think \in Nat
      BY <1>1
    <3> QED
      BY <1>1, <1>2, <2>1, <3>1, Products
  <2>3. Cost(u, p) = [inCost |-> a, cachedCost |-> b, writeCost |-> c, outCost |-> d,
                      total |-> a + b + c + d]
    BY <1>5, <2>2 DEF Cost, Estimated, OutputCost
  <2>4. u.billed = 0
    BY <1>1, <1>5 DEF Reported
  <2> QED
    BY <1>1, <1>2, <2>3, <2>4
<1> QED
  BY <1>3, <1>4, <1>5

\* A finite set of numbers has a greatest one.
LEMMA FiniteHasMost ==
    ASSUME NEW S, S \subseteq Nat, IsFiniteSet(S), S # {}
    PROVE  \E c \in S : \A d \in S : d <= c
<1> DEFINE Bad == {U \in SUBSET S : U # {} /\ ~\E c \in U : \A d \in U : d <= c}
<1> SUFFICES ASSUME Bad # {} PROVE FALSE
  OBVIOUS
<1>1. Bad \subseteq FiniteSubsetsOf(S)
  <2>1. \A U \in SUBSET S : IsFiniteSet(U)
    BY FS_Subset
  <2> QED
    BY <2>1, Zenon DEF FiniteSubsetsOf
<1>2. PICK U \in Bad : \A V \in Bad : <<V, U>> \notin StrictSubsetOrdering(S)
  <2> HIDE DEF Bad
  <2> QED
    BY <1>1, FS_StrictSubsetOrderingWellFounded, WFMin
<1>3. PICK x \in U : x \in Nat
  OBVIOUS
<1>4. PICK V : V = U \ {x}
  OBVIOUS
<1>5. V \notin Bad
  <2>1. V \subseteq U /\ V # U /\ U \in SUBSET S /\ V \in SUBSET S
    BY <1>2, <1>3, <1>4
  <2>2. <<V, U>> \in StrictSubsetOrdering(S)
    BY <2>1 DEF StrictSubsetOrdering
  <2> QED
    BY <1>2, <2>2
<1>6. CASE V = {}
  <2>1. U = {x}
    BY <1>3, <1>4, <1>6
  <2> QED
    BY <1>2, <1>3, <2>1
<1>7. CASE V # {}
  <2>1. PICK c \in V : \A d \in V : d <= c
    BY <1>4, <1>5, <1>7
  <2>2. c \in Nat /\ c \in U /\ \A d \in U : d = x \/ d <= c
    BY <1>4, <2>1
  <2>3. \A d \in U : d \in Nat
    OBVIOUS
  <2>4. CASE x <= c
    BY <1>2, <2>2, <2>4
  <2>5. CASE c <= x
    <3>1. \A d \in U : d <= x
      BY <1>3, <2>2, <2>3, <2>5
    <3> QED
      BY <1>2, <1>3, <3>1
  <2> QED
    BY <1>3, <2>2, <2>4, <2>5
<1> QED
  BY <1>6, <1>7

LEMMA Dearest ==
    ASSUME Prices # {}
    PROVE  DearestAnswer \in Nat /\ \A u \in Answers, p \in Prices : Cost(u, p).total <= DearestAnswer
<1> DEFINE costs == {Cost(u, p).total : u \in Answers, p \in Prices}
           costOf == [pair \in Answers \X Prices |-> Cost(pair[1], pair[2]).total]
<1>1. costs \subseteq Nat
  BY CostTyped
<1>2. costs # {}
  <2>1. PICK u \in Answers, p \in Prices : TRUE
    BY UsageAssumption
  <2>2. Cost(u, p).total \in costs
    OBVIOUS
  <2> HIDE DEF costs
  <2> QED
    BY <2>2
<1>3. IsFiniteSet(costs)
  <2>1. IsFiniteSet(Answers \X Prices)
    BY UsageAssumption, FS_Product
  <2>2. \A c \in costs : \E pair \in Answers \X Prices : costOf[pair] = c
    <3> SUFFICES ASSUME NEW c \in costs PROVE \E pair \in Answers \X Prices : costOf[pair] = c
      OBVIOUS
    <3>1. PICK u \in Answers, p \in Prices : c = Cost(u, p).total
      OBVIOUS
    <3>2. <<u, p>> \in Answers \X Prices /\ costOf[<<u, p>>] = Cost(u, p).total
      OBVIOUS
    <3> QED
      BY <3>1, <3>2
  <2>3. costOf \in [Answers \X Prices -> costs]
    OBVIOUS
  <2> HIDE DEF costs, costOf
  <2>4. costOf \in Surjection(Answers \X Prices, costs)
    BY <2>2, <2>3 DEF Surjection
  <2> QED
    BY <2>1, <2>4, FS_Surjection
<1>4. DearestAnswer = CHOOSE c \in costs : \A d \in costs : d <= c
  BY DEF DearestAnswer
<1>5. \A u \in Answers, p \in Prices : Cost(u, p).total \in costs
  OBVIOUS
<1> HIDE DEF costs
<1> QED
  BY <1>1, <1>2, <1>3, <1>4, <1>5, FiniteHasMost

\* What a run adds to the calls that are bounded.
LoadOf(r) == metrics[r].calls + Asking(r) + (IF r \in ended THEN 0 ELSE totalCalls[r])

LEMMA AskingCounted ==
    ASSUME LedgerTyped, NEW r \in Runs
    PROVE  Asking(r) \in Nat /\ Asking(r) <= Cardinality(Agents)
<1>1. IsFiniteSet(Agents)
  BY UsageAssumption
<1>2. {a \in Agents : agent[r][a] = "asking"} \in SUBSET Agents
  OBVIOUS
<1> QED
  BY <1>1, <1>2, FS_Subset, FS_CardinalityType DEF Asking

LEMMA LedgerTypes ==
    ASSUME LedgerTyped, NEW r \in Runs
    PROVE  /\ metrics[r] \in MetricsType /\ logged[r] \in LoggedType
           /\ metrics[r].calls \in Nat /\ metrics[r].total \in Nat /\ metrics[r].by \in [Names -> Nat]
           /\ told[r] \in 0..1 /\ cancelled[r] \in BOOLEAN /\ usageRows[r] \in [Names -> Nat]
           /\ eventCalls[r] \in Nat /\ totalCalls[r] \in Nat /\ Asking(r) \in Nat
           /\ LoadOf(r) \in Nat /\ DearestAnswer \in Nat /\ Cap \in Nat /\ Cap > 0
           /\ Cardinality(Agents) \in Nat /\ MaxCalls \in Nat
<1>1. /\ metrics[r] \in MetricsType /\ logged[r] \in LoggedType
      /\ told[r] \in 0..1 /\ cancelled[r] \in BOOLEAN /\ usageRows[r] \in [Names -> Nat]
      /\ eventCalls[r] \in Nat /\ totalCalls[r] \in Nat
  BY DEF LedgerTyped
<1>2. metrics[r].calls \in Nat /\ metrics[r].total \in Nat /\ metrics[r].by \in [Names -> Nat]
  BY <1>1 DEF MetricsType
<1>3. Asking(r) \in Nat
  BY AskingCounted
<1>4. DearestAnswer \in Nat
  BY Dearest DEF LedgerTyped
<1>5. Cap \in Nat /\ Cap > 0 /\ Cardinality(Agents) \in Nat /\ MaxCalls \in Nat
  BY UsageAssumption, FS_CardinalityType
<1>6. LoadOf(r) \in Nat
  BY <1>1, <1>2, <1>3 DEF LoadOf
<1> QED
  BY <1>1, <1>2, <1>3, <1>4, <1>5, <1>6

LEMMA CallsAreLoads ==
    ASSUME LedgerTyped
    PROVE  [r \in Runs |-> LoadOf(r)] \in [Runs -> Nat] /\ Calls = USum([r \in Runs |-> LoadOf(r)])
           /\ IsFiniteSet(Runs) /\ Calls \in Nat
<1>1. [r \in Runs |-> LoadOf(r)] \in [Runs -> Nat] /\ IsFiniteSet(Runs)
  BY LedgerTypes, UsageAssumption
<1>2. Calls = USum([r \in Runs |-> LoadOf(r)])
  BY DEF Calls, LoadOf
<1> QED
  BY <1>1, <1>2, UnitsCounted

LoadsCounted ==
    /\ [r \in Runs |-> LoadOf(r)] \in [Runs -> Nat]
    /\ Calls = USum([r \in Runs |-> LoadOf(r)]) /\ Calls \in Nat
    /\ \A r \in Runs : Asking(r) \in Nat

LEMMA LoadsThen == LedgerTyped => LoadsCounted
BY CallsAreLoads, AskingCounted DEF LoadsCounted

LEMMA InvTells == UsageInv => CostsTrue
<1> SUFFICES ASSUME UsageInv PROVE CostsTrue
  OBVIOUS
<1>1. LedgerTyped /\ Calls <= MaxCalls
  BY DEF UsageInv
<1>2. ASSUME NEW r \in Runs PROVE RunFits(r)
  BY DEF UsageInv
<1>3. UsageTypeOK
  <2>1. ASSUME NEW r \in Runs PROVE metrics[r].calls \in 0..MaxCalls
    <3>1. PICK load : load = [s \in Runs |-> LoadOf(s)]
      OBVIOUS
    <3>2. load \in [Runs -> Nat] /\ Calls = USum(load) /\ IsFiniteSet(Runs) /\ Calls \in Nat
      BY <1>1, <3>1, CallsAreLoads
    <3>3. load[r] <= Calls
      BY <3>2, TermInSum
    <3>4. load[r] = LoadOf(r)
      BY <3>1
    <3>5. metrics[r].calls <= LoadOf(r)
      BY <1>1, LedgerTypes DEF LoadOf
    <3> QED
      BY <1>1, <3>2, <3>3, <3>4, <3>5, LedgerTypes
  <2>2. \A r \in Runs : warned[r] \in 0..1 /\ told[r] \in 0..1
    BY <1>1 DEF LedgerTyped
  <2>3. \A r \in Runs : USum(metrics[r].by) = metrics[r].calls /\ USum(usageRows[r]) = totalCalls[r]
    BY <1>2 DEF RunFits
  <2> QED
    BY <1>1, <2>1, <2>2, <2>3 DEF UsageTypeOK, LedgerTyped
<1>4. TotalIsLines
  BY <1>2 DEF TotalIsLines, RunFits
<1>5. EventsAgree
  BY <1>2 DEF EventsAgree, RunFits
<1>6. CapHolds
  <2> SUFFICES ASSUME NEW r \in Runs
               PROVE  /\ metrics[r].total < Cap + Cardinality(Agents) * DearestAnswer
                      /\ (told[r] = 1) = (metrics[r].total >= Cap)
                      /\ told[r] = 1 => cancelled[r]
    BY DEF CapHolds
  <2>1. /\ told[r] = 1 <=> metrics[r].total >= Cap
        /\ told[r] = 1 =>
             /\ cancelled[r]
             /\ metrics[r].total + Asking(r) * DearestAnswer < Cap + Cardinality(Agents) * DearestAnswer
    BY <1>2 DEF RunFits
  <2>2. PICK x, y \in Nat : x = Asking(r) * DearestAnswer /\ y = Cardinality(Agents) * DearestAnswer
    BY <1>1, LedgerTypes, Products
  <2>3. metrics[r].total \in Nat /\ Cap \in Nat
    BY <1>1, LedgerTypes
  <2>4. metrics[r].total < Cap + y
    BY <2>1, <2>2, <2>3
  <2> QED
    BY <2>1, <2>2, <2>4
<1>7. PageMissesNone
  <2>1. usageRows \in [Runs -> [Names -> Nat]] /\ IsFiniteSet(Runs) /\ IsFiniteSet(Names)
    BY <1>1, UsageAssumption, NamesCounted DEF LedgerTyped
  <2>2. USum([r \in Runs |-> USum(usageRows[r])]) <= USum([n \in Names |-> USum([r \in Runs |-> usageRows[r][n]])])
    BY <2>1, SumsExchanged
  <2>3. totalCalls = [r \in Runs |-> USum(usageRows[r])]
    BY <1>1, <1>2 DEF LedgerTyped, RunFits
  <2>4. PICK rows, merged : rows = [n \in Names |-> FromRows(n)] /\ merged = [n \in Names |-> Merged(n)]
    OBVIOUS
  <2>5. rows = [n \in Names |-> USum([r \in Runs |-> usageRows[r][n]])]
    BY <2>4 DEF FromRows
  <2>6. \A n \in Names : FromRows(n) \in Nat /\ FromEvents(n) \in Nat
    <3> SUFFICES ASSUME NEW n \in Names PROVE FromRows(n) \in Nat /\ FromEvents(n) \in Nat
      OBVIOUS
    <3>1. [r \in Runs |-> usageRows[r][n]] \in [Runs -> Nat]
      BY <2>1
    <3>2. FromRows(n) \in Nat
      BY <2>1, <3>1, UnitsCounted DEF FromRows
    <3>3. eventCalls \in [Runs -> Nat]
      BY <1>1 DEF LedgerTyped
    <3>4. USum(eventCalls) \in Nat
      BY <2>1, <3>3, UnitsCounted
    <3> QED
      BY <3>2, <3>4 DEF FromEvents
  <2>7. rows \in [Names -> Nat] /\ merged \in [Names -> Nat] /\ \A n \in Names : rows[n] <= merged[n]
    BY <2>4, <2>6 DEF Merged
  <2>8. USum(rows) <= USum(merged) /\ USum(rows) \in Nat /\ USum(merged) \in Nat
    BY <2>1, <2>7, SumMonotone, UnitsCounted
  <2>9. PageCalls = USum(merged)
    BY <2>4 DEF PageCalls
  <2>10. USum(totalCalls) <= USum(rows)
    BY <2>2, <2>3, <2>5
  <2>11. totalCalls \in [Runs -> Nat]
    BY <1>1 DEF LedgerTyped
  <2>12. USum(totalCalls) \in Nat
    BY <2>1, <2>11, UnitsCounted
  <2> QED
    BY <2>8, <2>9, <2>10, <2>12 DEF PageMissesNone
<1> QED
  BY <1>3, <1>4, <1>5, <1>6, <1>7 DEF CostsTrue

\* A step of run r leaves the other runs alone.
LEMMA RunSteps ==
    ASSUME UsageInv, NEW r \in Runs, LedgerTyped', RunFits(r)',
           \A s \in Runs \ {r} :
             /\ metrics'[s] = metrics[s] /\ logged'[s] = logged[s] /\ told'[s] = told[s]
             /\ cancelled'[s] = cancelled[s] /\ usageRows'[s] = usageRows[s]
             /\ eventCalls'[s] = eventCalls[s] /\ totalCalls'[s] = totalCalls[s]
             /\ Asking(s)' = Asking(s) /\ (s \in ended' <=> s \in ended),
           \/ LoadOf(r)' <= LoadOf(r)
           \/ LoadOf(r)' = LoadOf(r) + 1 /\ Calls < MaxCalls
    PROVE  UsageInv'
<1>1. ASSUME NEW s \in Runs \ {r} PROVE RunFits(s)' /\ LoadOf(s)' = LoadOf(s)
  <2>1. /\ metrics'[s] = metrics[s] /\ logged'[s] = logged[s] /\ told'[s] = told[s]
        /\ cancelled'[s] = cancelled[s] /\ usageRows'[s] = usageRows[s]
        /\ eventCalls'[s] = eventCalls[s] /\ totalCalls'[s] = totalCalls[s]
        /\ Asking(s)' = Asking(s) /\ (s \in ended' <=> s \in ended)
    OBVIOUS
  <2>2. RunFits(s)
    BY DEF UsageInv
  <2>3. LoadOf(s)' = LoadOf(s)
    BY <2>1 DEF LoadOf
  <2>4. DearestAnswer' = DearestAnswer
    OBVIOUS
  <2>5. RunFits(s)'
    BY <2>1, <2>2, <2>4 DEF RunFits
  <2> QED
    BY <2>3, <2>5
<1>2. LedgerTyped /\ Calls <= MaxCalls
  BY DEF UsageInv
<1>3. PICK f, g : f = [s \in Runs |-> LoadOf(s)] /\ g = [s \in Runs |-> LoadOf(s)']
  OBVIOUS
<1>4. f \in [Runs -> Nat] /\ Calls = USum(f) /\ IsFiniteSet(Runs) /\ Calls \in Nat
  BY <1>2, <1>3, CallsAreLoads
<1>5. g \in [Runs -> Nat] /\ Calls' = USum(g) /\ Calls' \in Nat
  <2>1. LedgerTyped' => LoadsCounted'
    BY LoadsThen, PTL
  <2> QED
    BY <1>3, <2>1 DEF LoadsCounted
<1>6. \A s \in Runs \ {r} : g[s] = f[s]
  BY <1>1, <1>3
<1>7. f[r] = LoadOf(r) /\ g[r] = LoadOf(r)'
  BY <1>3
<1>8. CASE LoadOf(r)' <= LoadOf(r)
  <2>1. \A s \in Runs : g[s] <= f[s]
    BY <1>4, <1>5, <1>6, <1>7, <1>8
  <2>2. USum(g) <= USum(f)
    BY <1>4, <1>5, <2>1, SumMonotone
  <2>3. Calls' <= MaxCalls
    BY <1>2, <1>4, <1>5, <2>2, UsageAssumption
  <2> QED
    BY <1>1, <2>3 DEF UsageInv
<1>9. CASE LoadOf(r)' = LoadOf(r) + 1 /\ Calls < MaxCalls
  <2>1. g = [f EXCEPT ![r] = @ + 1]
    BY <1>4, <1>5, <1>6, <1>7, <1>9
  <2>2. USum(g) = USum(f) + 1
    BY <1>4, <2>1, SumGrows
  <2>3. Calls' <= MaxCalls
    BY <1>4, <1>5, <1>9, <2>2, UsageAssumption
  <2> QED
    BY <1>1, <2>3 DEF UsageInv
<1> QED
  BY <1>8, <1>9

\* One agent begins to ask, or is done.
LEMMA AskingMoves ==
    ASSUME LedgerTyped, NEW r \in Runs, NEW a \in Agents, NEW now \in {"idle", "asking"},
           agent[r][a] # now, agent' = [agent EXCEPT ![r][a] = now]
    PROVE  /\ agent' \in [Runs -> [Agents -> {"idle", "asking"}]]
           /\ Asking(r)' = (IF now = "asking" THEN Asking(r) + 1 ELSE Asking(r) - 1)
           /\ \A s \in Runs \ {r} : Asking(s)' = Asking(s)
<1>1. agent \in [Runs -> [Agents -> {"idle", "asking"}]]
  BY DEF LedgerTyped
<1>2. /\ agent' \in [Runs -> [Agents -> {"idle", "asking"}]]
      /\ agent'[r][a] = now /\ \A b \in Agents \ {a} : agent'[r][b] = agent[r][b]
      /\ \A s \in Runs \ {r} : agent'[s] = agent[s]
  BY <1>1
<1>3. \A s \in Runs \ {r} : Asking(s)' = Asking(s)
  BY <1>2 DEF Asking
<1>4. PICK old, new : /\ old = {b \in Agents : agent[r][b] = "asking"}
                      /\ new = {b \in Agents : agent'[r][b] = "asking"}
  OBVIOUS
<1>5. Asking(r) = Cardinality(old) /\ Asking(r)' = Cardinality(new)
  BY <1>4 DEF Asking
<1>6. IsFiniteSet(old)
  <2>1. old \in SUBSET Agents
    BY <1>4
  <2> QED
    BY <2>1, UsageAssumption, FS_Subset
<1>7. CASE now = "asking"
  <2>1. new = old \cup {a} /\ a \notin old
    BY <1>2, <1>4, <1>7
  <2>2. Cardinality(new) = Cardinality(old) + 1
    BY <1>6, <2>1, FS_AddElement
  <2> QED
    BY <1>2, <1>3, <1>5, <1>7, <2>2
<1>8. CASE now = "idle"
  <2>1. new = old \ {a} /\ a \in old
    BY <1>1, <1>2, <1>4, <1>8
  <2>2. Cardinality(new) = Cardinality(old) - 1
    BY <1>6, <2>1, FS_RemoveElement
  <2> QED
    BY <1>2, <1>3, <1>5, <1>8, <2>2
<1> QED
  BY <1>7, <1>8

LEMMA AgentUnmoved ==
    ASSUME agent' = agent
    PROVE  \A s \in Runs : Asking(s)' = Asking(s)
BY DEF Asking

LEMMA AskKeeps ==
    ASSUME UsageInv, NEW r \in Runs, NEW a \in Agents, Ask(r, a)
    PROVE  UsageInv'
<1>1. /\ r \notin ended /\ agent[r][a] = "idle" /\ ~cancelled[r] /\ Calls < MaxCalls
      /\ agent' = [agent EXCEPT ![r][a] = "asking"]
      /\ price' = price /\ paid' = paid /\ metrics' = metrics /\ logged' = logged /\ told' = told
      /\ warned' = warned /\ cancelled' = cancelled /\ ended' = ended /\ usageRows' = usageRows
      /\ eventCalls' = eventCalls /\ totalCalls' = totalCalls
  BY DEF Ask, MayAsk
<1>2. LedgerTyped /\ RunFits(r)
  BY DEF UsageInv
<1>3. /\ agent' \in [Runs -> [Agents -> {"idle", "asking"}]]
      /\ Asking(r)' = Asking(r) + 1 /\ \A s \in Runs \ {r} : Asking(s)' = Asking(s)
  BY <1>1, <1>2, AskingMoves
<1>4. LedgerTyped'
  BY <1>1, <1>2, <1>3 DEF LedgerTyped
<1>5. RunFits(r)'
  BY <1>1, <1>2 DEF RunFits
<1>6. LoadOf(r)' = LoadOf(r) + 1
  <2>1. /\ LoadOf(r) = metrics[r].calls + Asking(r) + totalCalls[r]
        /\ LoadOf(r)' = metrics[r].calls + Asking(r)' + totalCalls[r]
    BY <1>1 DEF LoadOf
  <2>2. metrics[r].calls \in Nat /\ Asking(r) \in Nat /\ totalCalls[r] \in Nat
    BY <1>2, LedgerTypes
  <2>3. Asking(r)' = Asking(r) + 1
    BY <1>3
  <2> QED
    BY <2>1, <2>2, <2>3
<1> QED
  BY <1>1, <1>3, <1>4, <1>5, <1>6, RunSteps

LEMMA FailedCallKeeps ==
    ASSUME UsageInv, NEW r \in Runs, NEW a \in Agents, CallFails(r, a)
    PROVE  UsageInv'
<1>1. /\ agent[r][a] = "asking" /\ agent' = [agent EXCEPT ![r][a] = "idle"]
      /\ price' = price /\ paid' = paid /\ metrics' = metrics /\ logged' = logged /\ told' = told
      /\ warned' = warned /\ cancelled' = cancelled /\ ended' = ended /\ usageRows' = usageRows
      /\ eventCalls' = eventCalls /\ totalCalls' = totalCalls
  BY DEF CallFails
<1>2. LedgerTyped /\ RunFits(r)
  BY DEF UsageInv
<1>3. /\ agent' \in [Runs -> [Agents -> {"idle", "asking"}]]
      /\ Asking(r)' = Asking(r) - 1 /\ \A s \in Runs \ {r} : Asking(s)' = Asking(s)
  BY <1>1, <1>2, AskingMoves
<1>4. LedgerTyped'
  BY <1>1, <1>2, <1>3 DEF LedgerTyped
<1>t. Asking(r)' \in Nat /\ Asking(r) \in Nat
  <2>1. LedgerTyped' => LoadsCounted'
    BY LoadsThen, PTL
  <2> QED
    BY <1>2, <1>4, <2>1, AskingCounted DEF LoadsCounted
<1>5. RunFits(r)'
  <2>1. r \notin ended
    BY <1>2, <1>3, <1>t DEF RunFits
  <2>2. Asking(r)' * DearestAnswer <= Asking(r) * DearestAnswer
    BY <1>2, <1>3, <1>t, LedgerTypes
  <2>3. told[r] = 1 => metrics[r].total + Asking(r)' * DearestAnswer < Cap + Cardinality(Agents) * DearestAnswer
    <3>1. PICK x, y, z \in Nat : /\ x = Asking(r) * DearestAnswer /\ y = Asking(r)' * DearestAnswer
                                 /\ z = Cardinality(Agents) * DearestAnswer
      BY <1>2, <1>t, LedgerTypes, Products
    <3>2. told[r] = 1 => metrics[r].total + x < Cap + z
      BY <1>2, <3>1 DEF RunFits
    <3>3. metrics[r].total \in Nat /\ Cap \in Nat
      BY <1>2, LedgerTypes
    <3> QED
      BY <2>2, <3>1, <3>2, <3>3
  <2> QED
    BY <1>1, <1>2, <2>1, <2>3 DEF RunFits
<1>6. LoadOf(r)' <= LoadOf(r)
  BY <1>1, <1>2, <1>3, <1>t, LedgerTypes DEF LoadOf
<1> QED
  BY <1>1, <1>3, <1>4, <1>5, <1>6, RunSteps

LEMMA AnswerKeeps ==
    ASSUME UsageInv, NEW r \in Runs, NEW a \in Agents, AnswerPaid(r, a)
    PROVE  UsageInv'
<1>1. PICK u \in Answers : \E first \in BOOLEAN :
         /\ first <=> Reached(Rolled(metrics[r], u, paid[r][a]).total) /\ told[r] = 0
         /\ metrics' = [metrics EXCEPT ![r] = Rolled(metrics[r], u, paid[r][a])]
         /\ logged' = [logged EXCEPT ![r] = Logged(@, u, paid[r][a])]
         /\ warned' = [warned EXCEPT ![r] = IF Free(u, paid[r][a]) THEN 1 ELSE @]
         /\ told' = [told EXCEPT ![r] = IF first THEN @ + 1 ELSE @]
         /\ cancelled' = [cancelled EXCEPT ![r] = @ \/ first]
  BY DEF AnswerPaid
<1>2. PICK first \in BOOLEAN :
         /\ first <=> Reached(Rolled(metrics[r], u, paid[r][a]).total) /\ told[r] = 0
         /\ metrics' = [metrics EXCEPT ![r] = Rolled(metrics[r], u, paid[r][a])]
         /\ logged' = [logged EXCEPT ![r] = Logged(@, u, paid[r][a])]
         /\ warned' = [warned EXCEPT ![r] = IF Free(u, paid[r][a]) THEN 1 ELSE @]
         /\ told' = [told EXCEPT ![r] = IF first THEN @ + 1 ELSE @]
         /\ cancelled' = [cancelled EXCEPT ![r] = @ \/ first]
  BY <1>1
<1>3. /\ agent[r][a] = "asking" /\ agent' = [agent EXCEPT ![r][a] = "idle"]
      /\ price' = price /\ paid' = paid /\ ended' = ended /\ usageRows' = usageRows
      /\ eventCalls' = eventCalls /\ totalCalls' = totalCalls
  BY DEF AnswerPaid
<1>4. LedgerTyped /\ RunFits(r)
  BY DEF UsageInv
<1>5. PICK p \in Prices : p = paid[r][a]
  BY <1>4 DEF LedgerTyped
<1>6. PICK m \in MetricsType : m = metrics[r]
  BY <1>4, LedgerTypes
<1>7. PICK c : c = Cost(u, p)
  OBVIOUS
<1>8. /\ u.in \in Nat /\ u.cached \in Nat /\ u.out \in Nat /\ u.billed \in Nat
      /\ BilledInput(u) \in Nat
      /\ c.inCost \in Nat /\ c.cachedCost \in Nat /\ c.writeCost \in Nat /\ c.outCost \in Nat
      /\ c.total \in Nat /\ c.total <= DearestAnswer
      /\ c.total = c.inCost + c.cachedCost + c.writeCost + c.outCost + u.billed
  <2>1. Prices # {}
    OBVIOUS
  <2> QED
    BY <1>7, <2>1, CostTyped, Dearest
<1>9. PICK by \in [Names -> Nat] : by = ByName(m.by, p) /\ USum(by) = USum(m.by) + 1
  <2>1. m.by \in [Names -> Nat] /\ NameOf(p) \in Names /\ IsFiniteSet(Names)
    BY NamesCounted DEF MetricsType
  <2>2. ByName(m.by, p) = [m.by EXCEPT ![NameOf(p)] = @ + 1]
    BY DEF ByName
  <2>3. ByName(m.by, p) \in [Names -> Nat]
    BY <2>1, <2>2
  <2>4. USum(ByName(m.by, p)) = USum(m.by) + 1
    BY <2>1, <2>2, SumGrows
  <2> QED
    BY <2>3, <2>4
<1>10. PICK after : after = Rolled(m, u, p)
  OBVIOUS
<1>11. after = [calls |-> m.calls + 1, in |-> m.in + u.in, cached |-> m.cached + u.cached,
                new |-> m.new + BilledInput(u), out |-> m.out + u.out,
                inCost |-> m.inCost + c.inCost, cachedCost |-> m.cachedCost + c.cachedCost,
                writeCost |-> m.writeCost + c.writeCost, outCost |-> m.outCost + c.outCost,
                total |-> m.total + c.total, unsplit |-> m.unsplit + u.billed, by |-> by]
  BY <1>7, <1>9, <1>10 DEF Rolled
<1>12. /\ m.calls \in Nat /\ m.in \in Nat /\ m.cached \in Nat /\ m.new \in Nat /\ m.out \in Nat
       /\ m.inCost \in Nat /\ m.cachedCost \in Nat /\ m.writeCost \in Nat /\ m.outCost \in Nat
       /\ m.total \in Nat /\ m.unsplit \in Nat
  BY DEF MetricsType
<1>13. after \in MetricsType
  BY <1>8, <1>11, <1>12 DEF MetricsType
<1>14. PICK e \in LoggedType : e = logged[r]
  BY <1>4, LedgerTypes
<1>15. PICK later : later = Logged(e, u, p)
  OBVIOUS
<1>16. later = [calls |-> e.calls + 1, in |-> e.in + u.in, cached |-> e.cached + u.cached,
                out |-> e.out + u.out, total |-> e.total + c.total]
  BY <1>7, <1>15 DEF Logged
<1>17. later \in LoggedType
  BY <1>8, <1>16 DEF LoggedType
<1>18. first <=> after.total >= Cap /\ told[r] = 0
  BY <1>2, <1>5, <1>6, <1>10 DEF Reached
<1>19. /\ metrics' = [metrics EXCEPT ![r] = after] /\ logged' = [logged EXCEPT ![r] = later]
       /\ told' = [told EXCEPT ![r] = IF first THEN @ + 1 ELSE @]
       /\ cancelled' = [cancelled EXCEPT ![r] = @ \/ first]
       /\ warned' \in [Runs -> 0..1]
  BY <1>2, <1>4, <1>5, <1>6, <1>10, <1>14, <1>15 DEF LedgerTyped
<1>20. /\ agent' \in [Runs -> [Agents -> {"idle", "asking"}]]
       /\ Asking(r)' = Asking(r) - 1 /\ \A s \in Runs \ {r} : Asking(s)' = Asking(s)
  BY <1>3, <1>4, AskingMoves
<1>21. /\ metrics'[r] = after /\ logged'[r] = later /\ told'[r] = (IF first THEN 1 ELSE told[r])
       /\ cancelled'[r] = (cancelled[r] \/ first)
       /\ metrics' \in [Runs -> MetricsType] /\ logged' \in [Runs -> LoggedType]
       /\ told' \in [Runs -> 0..1] /\ cancelled' \in [Runs -> BOOLEAN]
       /\ \A s \in Runs \ {r} : /\ metrics'[s] = metrics[s] /\ logged'[s] = logged[s]
                                /\ told'[s] = told[s] /\ cancelled'[s] = cancelled[s]
  <2>1. /\ metrics \in [Runs -> MetricsType] /\ logged \in [Runs -> LoggedType]
        /\ told \in [Runs -> 0..1] /\ cancelled \in [Runs -> BOOLEAN] /\ told[r] \in 0..1
    BY <1>4 DEF LedgerTyped
  <2>2. first => told[r] = 0
    BY <1>18
  <2>3. /\ metrics'[r] = after /\ metrics' \in [Runs -> MetricsType]
        /\ \A s \in Runs \ {r} : metrics'[s] = metrics[s]
    BY <1>13, <1>19, <2>1
  <2>4. /\ logged'[r] = later /\ logged' \in [Runs -> LoggedType]
        /\ \A s \in Runs \ {r} : logged'[s] = logged[s]
    BY <1>17, <1>19, <2>1
  <2>5. /\ told'[r] = (IF first THEN 1 ELSE told[r]) /\ told' \in [Runs -> 0..1]
        /\ \A s \in Runs \ {r} : told'[s] = told[s]
    BY <1>19, <2>1, <2>2
  <2>6. /\ cancelled'[r] = (cancelled[r] \/ first) /\ cancelled' \in [Runs -> BOOLEAN]
        /\ \A s \in Runs \ {r} : cancelled'[s] = cancelled[s]
    BY <1>19, <2>1
  <2> QED
    BY <2>3, <2>4, <2>5, <2>6
<1>22. LedgerTyped'
  BY <1>3, <1>4, <1>19, <1>20, <1>21 DEF LedgerTyped
<1>23. Asking(r) \in Nat /\ Asking(r) >= 1 /\ Asking(r) <= Cardinality(Agents) /\ Asking(r)' \in Nat
  <2>1. LedgerTyped' => LoadsCounted'
    BY LoadsThen, PTL
  <2> QED
    BY <1>4, <1>20, <1>22, <2>1, AskingCounted DEF LoadsCounted
<1>24. r \notin ended
  BY <1>4, <1>23 DEF RunFits
<1>25. RunFits(r)'
  <2>1. after.calls = m.calls + 1 /\ after.by = by /\ after.total = m.total + c.total /\ m.total \in Nat
    BY <1>11, <1>12
  <2>2. USum(metrics'[r].by) = metrics'[r].calls
    BY <1>4, <1>6, <1>9, <1>21, <2>1 DEF RunFits
  <2>3. after.total = after.inCost + after.cachedCost + after.writeCost + after.outCost + after.unsplit
    <3>1. m.total = m.inCost + m.cachedCost + m.writeCost + m.outCost + m.unsplit
      BY <1>4, <1>6 DEF RunFits
    <3> QED
      BY <1>8, <1>11, <1>12, <3>1
  <2>4. /\ later.calls = after.calls /\ later.in = after.in /\ later.cached = after.cached
        /\ later.out = after.out /\ later.total = after.total
    <3>1. e.calls = m.calls /\ e.in = m.in /\ e.cached = m.cached /\ e.out = m.out /\ e.total = m.total
      BY <1>4, <1>6, <1>14 DEF RunFits
    <3> QED
      BY <1>11, <1>16, <3>1
  <2>5. told[r] \in {0, 1} /\ (told[r] = 1 <=> m.total >= Cap) /\ Cap \in Nat
    BY <1>4, <1>6, LedgerTypes DEF RunFits
  <2>6. told'[r] = 1 <=> after.total >= Cap
    BY <1>8, <1>18, <1>21, <2>1, <2>5
  <2>7. told'[r] = 1 => cancelled'[r]
    BY <1>4, <1>21 DEF RunFits
  <2>8. told'[r] = 1 => after.total + Asking(r)' * DearestAnswer < Cap + Cardinality(Agents) * DearestAnswer
    <3>1. PICK x, y, z \in Nat : /\ x = Asking(r) * DearestAnswer /\ y = Asking(r)' * DearestAnswer
                                 /\ z = Cardinality(Agents) * DearestAnswer
      BY <1>4, <1>23, LedgerTypes, Products
    <3>2. DearestAnswer \in Nat /\ Cardinality(Agents) \in Nat
      BY <1>4, LedgerTypes
    <3>3. y = x - DearestAnswer
      BY <1>20, <1>23, <3>1, <3>2
    <3>4. x <= z
      BY <1>23, <3>1, <3>2
    <3>5. told[r] = 1 => m.total + x < Cap + z
      BY <1>4, <1>6, <3>1 DEF RunFits
    <3>6. told[r] = 0 => m.total < Cap
      BY <2>1, <2>5
    <3>7. m.total + x < Cap + z
      BY <2>1, <2>5, <3>4, <3>5, <3>6
    <3> QED
      BY <1>8, <2>1, <2>5, <3>1, <3>2, <3>3, <3>7
  <2>9. /\ USum(usageRows'[r]) = totalCalls'[r] /\ totalCalls'[r] = eventCalls'[r] /\ r \notin ended'
    BY <1>3, <1>4, <1>24 DEF RunFits
  <2> QED
    BY <1>21, <2>2, <2>3, <2>4, <2>6, <2>7, <2>8, <2>9 DEF RunFits
<1>26. LoadOf(r)' <= LoadOf(r)
  <2>1. metrics'[r].calls = metrics[r].calls + 1 /\ metrics[r].calls \in Nat
    BY <1>6, <1>11, <1>12, <1>21
  <2> QED
    BY <1>3, <1>4, <1>20, <1>23, <2>1, LedgerTypes DEF LoadOf
<1> QED
  BY <1>3, <1>20, <1>21, <1>22, <1>25, <1>26, RunSteps

LEMMA CancelKeeps ==
    ASSUME UsageInv, NEW r \in Runs, CancelUsage(r)
    PROVE  UsageInv'
<1>1. /\ cancelled' = [cancelled EXCEPT ![r] = TRUE]
      /\ price' = price /\ paid' = paid /\ agent' = agent /\ metrics' = metrics /\ logged' = logged
      /\ told' = told /\ warned' = warned /\ ended' = ended /\ usageRows' = usageRows
      /\ eventCalls' = eventCalls /\ totalCalls' = totalCalls
  BY DEF CancelUsage
<1>2. LedgerTyped /\ RunFits(r)
  BY DEF UsageInv
<1>3. \A s \in Runs : Asking(s)' = Asking(s)
  BY <1>1, AgentUnmoved
<1>4. /\ cancelled' \in [Runs -> BOOLEAN] /\ cancelled'[r] = TRUE
      /\ \A s \in Runs \ {r} : cancelled'[s] = cancelled[s]
  BY <1>1, <1>2 DEF LedgerTyped
<1>5. LedgerTyped'
  BY <1>1, <1>2, <1>4 DEF LedgerTyped
<1>6. RunFits(r)'
  BY <1>1, <1>2, <1>3, <1>4 DEF RunFits
<1>7. LoadOf(r)' <= LoadOf(r)
  <2>1. LoadOf(r)' = LoadOf(r) /\ LoadOf(r) \in Nat
    BY <1>1, <1>2, <1>3, LedgerTypes DEF LoadOf
  <2> QED
    BY <2>1
<1> QED
  BY <1>1, <1>3, <1>4, <1>5, <1>6, <1>7, RunSteps

LEMMA EndKeeps ==
    ASSUME UsageInv, NEW r \in Runs, EndUsage(r)
    PROVE  UsageInv'
<1>1. /\ r \notin ended /\ Asking(r) = 0 /\ ended' = ended \cup {r}
      /\ usageRows' = [usageRows EXCEPT ![r] = metrics[r].by]
      /\ eventCalls' = [eventCalls EXCEPT ![r] = logged[r].calls]
      /\ totalCalls' = [totalCalls EXCEPT ![r] = metrics[r].calls]
      /\ price' = price /\ paid' = paid /\ agent' = agent /\ metrics' = metrics /\ logged' = logged
      /\ told' = told /\ warned' = warned /\ cancelled' = cancelled
  BY DEF EndUsage
<1>2. LedgerTyped /\ RunFits(r)
  BY DEF UsageInv
<1>3. \A s \in Runs : Asking(s)' = Asking(s)
  BY <1>1, AgentUnmoved
<1>4. metrics[r].by \in [Names -> Nat] /\ metrics[r].calls \in Nat /\ logged[r].calls = metrics[r].calls
  BY <1>2, LedgerTypes DEF RunFits
<1>5. /\ usageRows' \in [Runs -> [Names -> Nat]] /\ usageRows'[r] = metrics[r].by
      /\ eventCalls' \in [Runs -> Nat] /\ eventCalls'[r] = metrics[r].calls
      /\ totalCalls' \in [Runs -> Nat] /\ totalCalls'[r] = metrics[r].calls
      /\ \A s \in Runs \ {r} : /\ usageRows'[s] = usageRows[s] /\ eventCalls'[s] = eventCalls[s]
                               /\ totalCalls'[s] = totalCalls[s]
  BY <1>1, <1>2, <1>4 DEF LedgerTyped
<1>6. LedgerTyped'
  BY <1>1, <1>2, <1>5 DEF LedgerTyped
<1>7. RunFits(r)'
  BY <1>1, <1>2, <1>3, <1>5 DEF RunFits
<1>8. LoadOf(r)' <= LoadOf(r)
  <2>1. /\ LoadOf(r) = metrics[r].calls + Asking(r) + totalCalls[r]
        /\ LoadOf(r)' = metrics[r].calls + Asking(r) + 0
    BY <1>1, <1>3 DEF LoadOf
  <2> QED
    BY <1>2, <2>1, LedgerTypes
<1> QED
  BY <1>1, <1>3, <1>5, <1>6, <1>7, <1>8, RunSteps

LEMMA RetryKeeps ==
    ASSUME UsageInv, NEW r \in Runs, Retry(r)
    PROVE  UsageInv'
<1>1. /\ r \in ended /\ ~cancelled[r] /\ ended' = ended \ {r}
      /\ metrics' = [metrics EXCEPT ![r] = Nothing] /\ logged' = [logged EXCEPT ![r] = NoEvents]
      /\ told' = [told EXCEPT ![r] = 0] /\ warned' = [warned EXCEPT ![r] = 0]
      /\ paid' = [paid EXCEPT ![r] = [a \in Agents |-> price]]
      /\ price' = price /\ agent' = agent /\ cancelled' = cancelled /\ usageRows' = usageRows
      /\ eventCalls' = eventCalls /\ totalCalls' = totalCalls
  BY DEF Retry
<1>2. LedgerTyped /\ RunFits(r)
  BY DEF UsageInv
<1>3. \A s \in Runs : Asking(s)' = Asking(s)
  BY <1>1, AgentUnmoved
<1>4. NoCalls \in [Names -> Nat] /\ USum(NoCalls) = 0
  <2>1. NoCalls \in [Names -> Nat] /\ \A n \in Names : NoCalls[n] = 0
    BY DEF NoCalls
  <2> QED
    BY <2>1, SumOfNone
<1>5. /\ Nothing \in MetricsType /\ Nothing.calls = 0 /\ Nothing.in = 0 /\ Nothing.cached = 0
      /\ Nothing.out = 0 /\ Nothing.inCost = 0 /\ Nothing.cachedCost = 0 /\ Nothing.writeCost = 0
      /\ Nothing.outCost = 0 /\ Nothing.total = 0 /\ Nothing.unsplit = 0 /\ Nothing.by = NoCalls
  BY <1>4 DEF Nothing, MetricsType
<1>6. /\ NoEvents \in LoggedType /\ NoEvents.calls = 0 /\ NoEvents.in = 0 /\ NoEvents.cached = 0
      /\ NoEvents.out = 0 /\ NoEvents.total = 0
  BY DEF NoEvents, LoggedType
<1>7. /\ metrics' \in [Runs -> MetricsType] /\ metrics'[r] = Nothing
      /\ logged' \in [Runs -> LoggedType] /\ logged'[r] = NoEvents
      /\ told' \in [Runs -> 0..1] /\ told'[r] = 0 /\ warned' \in [Runs -> 0..1]
      /\ paid' \in [Runs -> [Agents -> Prices]]
      /\ \A s \in Runs \ {r} : metrics'[s] = metrics[s] /\ logged'[s] = logged[s] /\ told'[s] = told[s]
  <2>1. [a \in Agents |-> price] \in [Agents -> Prices]
    BY <1>2 DEF LedgerTyped
  <2> QED
    BY <1>1, <1>2, <1>5, <1>6, <2>1 DEF LedgerTyped
<1>8. LedgerTyped'
  BY <1>1, <1>2, <1>7 DEF LedgerTyped
<1>9. RunFits(r)'
  <2>1. Cap > 0 /\ Cap \in Nat
    BY UsageAssumption
  <2>2. r \notin ended'
    BY <1>1
  <2> QED
    BY <1>1, <1>2, <1>4, <1>5, <1>6, <1>7, <2>1, <2>2 DEF RunFits
<1>10. LoadOf(r)' <= LoadOf(r)
  <2>1. /\ LoadOf(r) = metrics[r].calls + Asking(r) + 0
        /\ LoadOf(r)' = 0 + Asking(r) + totalCalls[r] /\ totalCalls[r] = metrics[r].calls
    BY <1>1, <1>2, <1>3, <1>5, <1>7 DEF LoadOf, RunFits
  <2> QED
    BY <1>2, <2>1, LedgerTypes
<1> QED
  BY <1>1, <1>3, <1>7, <1>8, <1>9, <1>10, RunSteps

\* Prices are not part of what fits.
LEMMA PricesKeep ==
    ASSUME UsageInv, LedgerTyped', agent' = agent, metrics' = metrics, logged' = logged, told' = told,
           cancelled' = cancelled, ended' = ended, usageRows' = usageRows, eventCalls' = eventCalls,
           totalCalls' = totalCalls
    PROVE  UsageInv'
<1>1. \A s \in Runs : Asking(s)' = Asking(s)
  BY AgentUnmoved
<1>2. \A r \in Runs : RunFits(r)'
  BY <1>1 DEF UsageInv, RunFits
<1>3. Calls' = Calls
  BY DEF Calls, Asking
<1> QED
  BY <1>2, <1>3 DEF UsageInv

LEMMA UsageKept == UsageInv /\ [UsageNext]_usageVars => UsageInv'
<1> SUFFICES ASSUME UsageInv, [UsageNext]_usageVars PROVE UsageInv'
  OBVIOUS
<1>1. LedgerTyped
  BY DEF UsageInv
<1>2. CASE Reprice
  <2>1. LedgerTyped'
    BY <1>1, <1>2 DEF Reprice, LedgerTyped
  <2> QED
    BY <1>2, <2>1, PricesKeep DEF Reprice
<1>3. ASSUME NEW r \in Runs, NEW a \in Agents, Begin(r, a) PROVE UsageInv'
  <2>1. paid' \in [Runs -> [Agents -> Prices]]
    BY <1>1, <1>3 DEF Begin, LedgerTyped
  <2>2. LedgerTyped'
    BY <1>1, <1>3, <2>1 DEF Begin, LedgerTyped
  <2> QED
    BY <1>3, <2>2, PricesKeep DEF Begin
<1>4. CASE UNCHANGED usageVars
  <2>1. LedgerTyped'
    BY <1>1, <1>4 DEF usageVars, LedgerTyped
  <2> QED
    BY <1>4, <2>1, PricesKeep DEF usageVars
<1> QED
  BY <1>2, <1>3, <1>4, CancelKeeps, EndKeeps, RetryKeeps, AskKeeps, AnswerKeeps, FailedCallKeeps DEF UsageNext

LEMMA UsageStarts == UsageInit => UsageInv
<1> SUFFICES ASSUME UsageInit PROVE UsageInv
  OBVIOUS
<1>1. /\ price \in Prices /\ agent = [r \in Runs |-> [a \in Agents |-> "idle"]]
      /\ paid = [r \in Runs |-> [a \in Agents |-> price]] /\ metrics = [r \in Runs |-> Nothing]
      /\ logged = [r \in Runs |-> NoEvents] /\ told = [r \in Runs |-> 0]
      /\ warned = [r \in Runs |-> 0] /\ cancelled = [r \in Runs |-> FALSE] /\ ended = {}
      /\ usageRows = [r \in Runs |-> NoCalls] /\ eventCalls = [r \in Runs |-> 0]
      /\ totalCalls = [r \in Runs |-> 0]
  BY DEF UsageInit
<1>2. NoCalls \in [Names -> Nat] /\ USum(NoCalls) = 0
  <2>1. NoCalls \in [Names -> Nat] /\ \A n \in Names : NoCalls[n] = 0
    BY DEF NoCalls
  <2> QED
    BY <2>1, SumOfNone
<1>3. /\ Nothing \in MetricsType /\ Nothing.calls = 0 /\ Nothing.in = 0 /\ Nothing.cached = 0
      /\ Nothing.out = 0 /\ Nothing.inCost = 0 /\ Nothing.cachedCost = 0 /\ Nothing.writeCost = 0
      /\ Nothing.outCost = 0 /\ Nothing.total = 0 /\ Nothing.unsplit = 0 /\ Nothing.by = NoCalls
  BY <1>2 DEF Nothing, MetricsType
<1>4. /\ NoEvents \in LoggedType /\ NoEvents.calls = 0 /\ NoEvents.in = 0 /\ NoEvents.cached = 0
      /\ NoEvents.out = 0 /\ NoEvents.total = 0
  BY DEF NoEvents, LoggedType
<1>5. LedgerTyped
  BY <1>1, <1>2, <1>3, <1>4 DEF LedgerTyped
<1>6. \A r \in Runs : Asking(r) = 0
  <2>1. \A r \in Runs : {a \in Agents : agent[r][a] = "asking"} = {}
    BY <1>1
  <2> QED
    BY <2>1, FS_EmptySet DEF Asking
<1>7. ASSUME NEW r \in Runs PROVE RunFits(r)
  <2>1. Cap > 0 /\ Cap \in Nat
    BY UsageAssumption
  <2>2. /\ metrics[r] = Nothing /\ logged[r] = NoEvents /\ told[r] = 0 /\ r \notin ended
        /\ usageRows[r] = NoCalls /\ eventCalls[r] = 0 /\ totalCalls[r] = 0
    BY <1>1
  <2> QED
    BY <1>2, <1>3, <1>4, <2>1, <2>2 DEF RunFits
<1>8. Calls <= MaxCalls
  <2>1. PICK load : load = [r \in Runs |-> LoadOf(r)]
    OBVIOUS
  <2>2. load \in [Runs -> Nat] /\ Calls = USum(load)
    BY <1>5, <2>1, CallsAreLoads
  <2>3. \A r \in Runs : load[r] = 0
    BY <1>1, <1>3, <1>6, <2>1 DEF LoadOf
  <2>4. Calls = 0
    BY <2>2, <2>3, SumOfNone
  <2> QED
    BY <2>4, UsageAssumption
<1> QED
  BY <1>5, <1>7, <1>8 DEF UsageInv

\* For any runs, agents, prices and cap: the lines of a run's cost add up, its events
\* and rows agree with its metrics, the cap stops it within an answer of each agent, and
\* the overview misses no call (observability.py:381-596, ui_repository.py).
THEOREM CostsAreTrue == UsageSpec => []CostsTrue
<1> QED
  BY UsageStarts, UsageKept, InvTells, PTL DEF UsageSpec

-----------------------------------------------------------------------------
(* The board of the runs.  BoardInv ties the job of a run to the task that *)
(* executes it (JobHasTask), the verdict a succeeded job has left to its   *)
(* row (VerdictKept), and an open trace to the task or the row it is open  *)
(* for (TraceHasRow).                                                      *)

\* A task executes a job that runs, or that was cancelled under it; and a job
\* that can be executed has an attempt left.
JobHasTask ==
    \A r \in BoardRun :
        /\ boardTask[r] # "none" => boardJob[r] \in {"running", "cancelled"}
        /\ boardJob[r] = "running" => boardTask[r] # "none"
        /\ boardJob[r] \in {"queued", "retrying"} => boardTry[r] < BoardAttempts
        /\ boardJob[r] = "absent" /\ boardTry[r] = 0 => boardTask[r] = "none"

\* A job that has succeeded left the verdict of its run.
VerdictKept ==
    \A r \in BoardRun :
        boardTask[r] = "ok" \/ boardJob[r] = "succeeded" => boardRow[r] \in BoardVerdict

\* A trace is open for a task, or was restored from a row.
TraceHasRow ==
    \A r \in BoardRun :
        boardTrace[r] = "open" => boardTask[r] = "running" \/ boardRow[r] # "none"

BoardInv == BoardTypeOK /\ JobHasTask /\ VerdictKept /\ TraceHasRow

\* The statuses of a task, of a row and of a trace that is not none or open.
BoardTasks == {"none", "running", "ok", "failed", "cancelled"}
BoardRows == BoardVerdict \cup {"none", "running", "failed", "cancelled"}
BoardTraces == BoardVerdict \cup {"none", "open", "failed", "cancelled"}
BoardJobs == BoardActive \cup BoardJobEnded \cup {"absent"}

\* What has happened to the run r, and to no other, may be looked at there.
BoardFits(r) ==
    /\ boardJob[r] \in BoardJobs /\ boardTry[r] \in 0 .. BoardAttempts
    /\ boardTask[r] \in BoardTasks /\ boardRow[r] \in BoardRows
    /\ boardMode[r] \in BoardSign \cup {""} /\ boardSigns[r] \in SUBSET BoardSign
    /\ boardFound[r] \in BOOLEAN /\ boardTrace[r] \in BoardTraces
    /\ boardTask[r] # "none" => boardJob[r] \in {"running", "cancelled"}
    /\ boardJob[r] = "running" => boardTask[r] # "none"
    /\ boardJob[r] \in {"queued", "retrying"} => boardTry[r] < BoardAttempts
    /\ boardJob[r] = "absent" /\ boardTry[r] = 0 => boardTask[r] = "none"
    /\ boardTask[r] = "ok" \/ boardJob[r] = "succeeded" => boardRow[r] \in BoardVerdict
    /\ boardTrace[r] = "open" => boardTask[r] = "running" \/ boardRow[r] # "none"

\* The columns of the board.
BoardColumns ==
    /\ boardJob   = [r \in BoardRun |-> boardJob[r]]   /\ boardTry   = [r \in BoardRun |-> boardTry[r]]
    /\ boardTask  = [r \in BoardRun |-> boardTask[r]]  /\ boardRow   = [r \in BoardRun |-> boardRow[r]]
    /\ boardMode  = [r \in BoardRun |-> boardMode[r]]  /\ boardSigns = [r \in BoardRun |-> boardSigns[r]]
    /\ boardFound = [r \in BoardRun |-> boardFound[r]] /\ boardTrace = [r \in BoardRun |-> boardTrace[r]]

AllFit == \A r \in BoardRun : BoardFits(r)

\* BoardInv, run by run.
LEMMA BoardInvOfFits == BoardColumns /\ AllFit => BoardInv
<1> SUFFICES ASSUME BoardColumns, AllFit PROVE BoardInv
  OBVIOUS
<1>1. BoardTypeOK
  BY DEF AllFit, BoardColumns, BoardFits, BoardTypeOK, BoardTasks, BoardRows, BoardTraces, BoardJobs
<1>2. JobHasTask /\ VerdictKept /\ TraceHasRow
  BY DEF AllFit, BoardFits, JobHasTask, VerdictKept, TraceHasRow
<1> QED
  BY <1>1, <1>2 DEF BoardInv

LEMMA FitsOfBoardInv == BoardInv => BoardColumns /\ \A r \in BoardRun : BoardFits(r)
<1> SUFFICES ASSUME BoardInv PROVE BoardColumns /\ \A r \in BoardRun : BoardFits(r)
  OBVIOUS
<1>1. BoardTypeOK /\ JobHasTask /\ VerdictKept /\ TraceHasRow
  BY DEF BoardInv
<1>2. BoardColumns
  BY <1>1 DEF BoardTypeOK, BoardColumns
<1>3. ASSUME NEW r \in BoardRun PROVE BoardFits(r)
  BY <1>1 DEF BoardTypeOK, JobHasTask, VerdictKept, TraceHasRow, BoardFits,
              BoardTasks, BoardRows, BoardTraces, BoardJobs
<1> QED
  BY <1>2, <1>3

LEMMA BoardStarts == BoardInit => BoardInv
<1> SUFFICES ASSUME BoardInit PROVE BoardInv
  OBVIOUS
<1>1. BoardColumns
  BY DEF BoardInit, BoardColumns
<1>2. 0 \in 0 .. BoardAttempts
  BY BoardAssumption
<1>3. AllFit
  BY <1>2 DEF AllFit, BoardInit, BoardFits, BoardTasks, BoardRows, BoardTraces, BoardJobs
<1> QED
  BY <1>1, <1>3, BoardInvOfFits

\* A change of the records of the run r.
BoardChanges(r, job, try, task, row, mode, signs, found, trace) ==
    /\ boardJob'   = [boardJob EXCEPT ![r] = job]     /\ boardTry'   = [boardTry EXCEPT ![r] = try]
    /\ boardTask'  = [boardTask EXCEPT ![r] = task]   /\ boardRow'   = [boardRow EXCEPT ![r] = row]
    /\ boardMode'  = [boardMode EXCEPT ![r] = mode]   /\ boardSigns' = [boardSigns EXCEPT ![r] = signs]
    /\ boardFound' = [boardFound EXCEPT ![r] = found] /\ boardTrace' = [boardTrace EXCEPT ![r] = trace]

\* What the records of a run may say.
BoardMay(job, try, task, row, mode, signs, found, trace) ==
    /\ job \in BoardJobs /\ try \in 0 .. BoardAttempts /\ task \in BoardTasks
    /\ row \in BoardRows /\ mode \in BoardSign \cup {""} /\ signs \in SUBSET BoardSign
    /\ found \in BOOLEAN /\ trace \in BoardTraces
    /\ task # "none" => job \in {"running", "cancelled"}
    /\ job = "running" => task # "none"
    /\ job \in {"queued", "retrying"} => try < BoardAttempts
    /\ job = "absent" /\ try = 0 => task = "none"
    /\ task = "ok" \/ job = "succeeded" => row \in BoardVerdict
    /\ trace = "open" => task = "running" \/ row # "none"

\* A change to such records keeps the invariant.
LEMMA BoardChange ==
  ASSUME BoardInv, NEW r \in BoardRun, NEW job, NEW try, NEW task, NEW row,
         NEW mode, NEW signs, NEW found, NEW trace,
         BoardChanges(r, job, try, task, row, mode, signs, found, trace),
         BoardMay(job, try, task, row, mode, signs, found, trace)
  PROVE  BoardInv'
<1>1. BoardColumns /\ \A q \in BoardRun : BoardFits(q)
  BY FitsOfBoardInv
<1>2. BoardColumns'
  BY <1>1 DEF BoardColumns, BoardChanges
<1>3. ASSUME NEW q \in BoardRun PROVE BoardFits(q)'
  <2>1. CASE q = r
    BY <1>1, <2>1 DEF BoardColumns, BoardChanges, BoardMay, BoardFits
  <2>2. CASE q # r
    <3>1. /\ boardJob'[q] = boardJob[q] /\ boardTry'[q] = boardTry[q]
          /\ boardTask'[q] = boardTask[q] /\ boardRow'[q] = boardRow[q]
          /\ boardMode'[q] = boardMode[q] /\ boardSigns'[q] = boardSigns[q]
          /\ boardFound'[q] = boardFound[q] /\ boardTrace'[q] = boardTrace[q]
      BY <1>1, <2>2 DEF BoardColumns, BoardChanges
    <3> QED
      BY <1>1, <3>1 DEF BoardFits
  <2> QED
    BY <2>1, <2>2
<1>4. AllFit'
  BY <1>3 DEF AllFit
<1> QED
  BY <1>2, <1>4, BoardInvOfFits, PTL

\* The actions, as changes.
LEMMA BoardRunKept == ASSUME BoardInv, NEW r \in BoardRun, BoardRunNext(r) PROVE BoardInv'
<1>1. BoardColumns /\ BoardFits(r) /\ BoardAttempts \in Nat \ {0}
  BY FitsOfBoardInv, BoardAssumption
<1> DEFINE Same == /\ boardJob = [boardJob EXCEPT ![r] = @] /\ boardTry = [boardTry EXCEPT ![r] = @]
                   /\ boardTask = [boardTask EXCEPT ![r] = @] /\ boardRow = [boardRow EXCEPT ![r] = @]
                   /\ boardMode = [boardMode EXCEPT ![r] = @] /\ boardSigns = [boardSigns EXCEPT ![r] = @]
                   /\ boardFound = [boardFound EXCEPT ![r] = @] /\ boardTrace = [boardTrace EXCEPT ![r] = @]
<1>2. Same
  BY <1>1 DEF BoardColumns
<1> HIDE DEF Same
<1>3. CASE BoardEnqueue(r)
  <2>1. BoardChanges(r, "queued", boardTry[r], boardTask[r], boardRow[r], boardMode[r],
                     boardSigns[r], boardFound[r], boardTrace[r])
    BY <1>2, <1>3 DEF Same, BoardEnqueue, BoardChanges, boardRowVars
  <2>8. BoardMay("queued", boardTry[r], boardTask[r], boardRow[r], boardMode[r], boardSigns[r], boardFound[r], boardTrace[r])
    <3>1. boardTry[r] = 0 /\ 0 < BoardAttempts /\ boardTask[r] = "none"
      <4>1. BoardAttempts \in Nat \ {0}
        BY <1>1
      <4>2. 0 < BoardAttempts
        BY <4>1
      <4> QED
        BY <1>1, <1>3, <4>2 DEF BoardFits, BoardEnqueue
    <3> QED
      BY <1>1, <1>3, <3>1 DEF BoardFits, BoardEnqueue, BoardJobs, BoardActive, BoardMay
  <2> QED
    BY <2>1, <2>8, BoardChange, Zenon
<1>4. CASE BoardStart(r)
  <2>1. BoardChanges(r, "running", boardTry[r] + 1, "running", boardRow[r], boardMode[r],
                     boardSigns[r], boardFound[r], "open")
    BY <1>2, <1>4 DEF Same, BoardStart, BoardChanges, boardRowVars
  <2>2. boardTry[r] + 1 \in 0 .. BoardAttempts
    <3>1. boardTry[r] \in 0 .. BoardAttempts /\ boardTry[r] < BoardAttempts
      BY <1>1, <1>4 DEF BoardFits, BoardStart
    <3> QED
      BY <1>1, <3>1
  <2>8. BoardMay("running", boardTry[r] + 1, "running", boardRow[r], boardMode[r], boardSigns[r], boardFound[r], "open")
    BY <1>1, <1>4, <2>2
       DEF BoardFits, BoardStart, BoardJobs, BoardActive, BoardTasks, BoardTraces, BoardMay
  <2> QED
    BY <2>1, <2>8, BoardChange, Zenon
<1>5. CASE BoardConclude(r)
  <2>1. PICK job : job = CASE boardJob[r] \in {"absent", "cancelled"} -> boardJob[r]
             [] boardJob[r] = "running" /\ boardTask[r] = "ok" -> "succeeded"
             [] boardJob[r] = "running" /\ boardTask[r] = "cancelled" -> "cancelled"
             [] boardJob[r] = "running" /\ boardTask[r] = "failed" -> BoardJobFailed(r)
    OBVIOUS
  <2>2. BoardChanges(r, job, boardTry[r], "none", boardRow[r], boardMode[r],
                     boardSigns[r], boardFound[r], boardTrace[r])
    BY <1>2, <1>5, <2>1 DEF Same, BoardConclude, BoardChanges, boardRowVars
  <2>3. /\ boardJob[r] \in {"running", "cancelled"} /\ boardTask[r] \in {"ok", "failed", "cancelled"}
        /\ boardTry[r] \in 0 .. BoardAttempts
    BY <1>1, <1>5 DEF BoardFits, BoardConclude
  <2>4. /\ job \in {"cancelled", "succeeded", "dead_letter", "retrying"}
        /\ job = "succeeded" => boardTask[r] = "ok"
        /\ job = "retrying" => boardTry[r] < BoardAttempts
    BY <1>1, <2>1, <2>3 DEF BoardJobFailed
  <2>8. BoardMay(job, boardTry[r], "none", boardRow[r], boardMode[r], boardSigns[r], boardFound[r], boardTrace[r])
    BY <1>1, <2>3, <2>4
       DEF BoardFits, BoardJobs, BoardActive, BoardJobEnded, BoardTasks, BoardMay
  <2> QED
    BY <2>2, <2>8, BoardChange, Zenon
<1>6. CASE BoardCancel(r)
  <2>1. BoardChanges(r, "cancelled", boardTry[r], boardTask[r], boardRow[r], boardMode[r],
                     boardSigns[r], boardFound[r], boardTrace[r])
    BY <1>2, <1>6 DEF Same, BoardCancel, BoardChanges, boardRowVars
  <2>8. BoardMay("cancelled", boardTry[r], boardTask[r], boardRow[r], boardMode[r], boardSigns[r], boardFound[r], boardTrace[r])
    BY <1>1, <1>6 DEF BoardFits, BoardCancel, BoardJobs, BoardJobEnded, BoardMay
  <2> QED
    BY <2>1, <2>8, BoardChange, Zenon
<1>7. CASE BoardRestore(r)
  <2>1. BoardChanges(r, boardJob[r], boardTry[r], boardTask[r], boardRow[r], boardMode[r],
                     boardSigns[r], boardFound[r], "open")
    BY <1>2, <1>7 DEF Same, BoardRestore, BoardChanges, boardRowVars, boardJobVars
  <2>8. BoardMay(boardJob[r], boardTry[r], boardTask[r], boardRow[r], boardMode[r], boardSigns[r], boardFound[r], "open")
    BY <1>1, <1>7 DEF BoardFits, BoardRestore, BoardTraces, BoardMay
  <2> QED
    BY <2>1, <2>8, BoardChange, Zenon
<1>8. CASE BoardDelete(r)
  <2>1. BoardChanges(r, "absent", boardTry[r], boardTask[r], "none", "", {}, FALSE, boardTrace[r])
    BY <1>2, <1>8 DEF Same, BoardDelete, BoardSave, BoardChanges
  <2>8. BoardMay("absent", boardTry[r], boardTask[r], "none", "", {}, FALSE, boardTrace[r])
    BY <1>1, <1>8
        DEF BoardFits, BoardDelete, BoardJobs, BoardRows, BoardJobEnded, BoardMay
  <2> QED
    BY <2>1, <2>8, BoardChange, Zenon
<1>9. ASSUME NEW signs \in SUBSET BoardSign, BoardSnapshot(r, signs) PROVE BoardInv'
  <2>1. BoardChanges(r, boardJob[r], boardTry[r], boardTask[r], "running", "", signs, boardFound[r],
                     boardTrace[r])
    BY <1>2, <1>9 DEF Same, BoardSnapshot, BoardSave, BoardChanges, boardJobVars
  <2>8. BoardMay(boardJob[r], boardTry[r], boardTask[r], "running", "", signs, boardFound[r], boardTrace[r])
    BY <1>1, <1>9 DEF BoardFits, BoardSnapshot, BoardRows, BoardMay
  <2> QED
    BY <2>1, <2>8, BoardChange, Zenon
<1>10. ASSUME NEW signs \in SUBSET BoardSign, NEW mode \in BoardSign \cup {""},
              NEW verdict \in BoardVerdict, NEW found \in BOOLEAN,
              BoardComplete(r, verdict, mode, signs, found)
       PROVE  BoardInv'
  <2>1. BoardChanges(r, boardJob[r], boardTry[r], "ok", verdict, mode, signs, found, verdict)
    BY <1>2, <1>10 DEF Same, BoardComplete, BoardSave, BoardChanges
  <2>2. boardTask[r] = "running" /\ verdict # "none" /\ verdict # "open"
    BY <1>10, BoardAssumption DEF BoardComplete
  <2>8. BoardMay(boardJob[r], boardTry[r], "ok", verdict, mode, signs, found, verdict)
    BY <1>1, <1>10, <2>2 DEF BoardFits, BoardRows, BoardTasks, BoardTraces, BoardMay
  <2> QED
    BY <2>1, <2>8, BoardChange, Zenon
<1>11. ASSUME NEW signs \in SUBSET BoardSign, NEW mode \in BoardSign \cup {""},
              NEW how \in {"failed", "cancelled"}, BoardRaise(r, how, mode, signs)
       PROVE  BoardInv'
  <2>1. boardTask[r] = "running"
    BY <1>11 DEF BoardRaise
  <2>2. CASE BoardSave(r, how, mode, signs, boardFound[r])
    <3>1. BoardChanges(r, boardJob[r], boardTry[r], how, how, mode, signs, boardFound[r], how)
      BY <1>2, <1>11, <2>2 DEF Same, BoardRaise, BoardSave, BoardChanges
    <3>8. BoardMay(boardJob[r], boardTry[r], how, how, mode, signs, boardFound[r], how)
      BY <1>1, <1>11, <2>1 DEF BoardFits, BoardRows, BoardTasks, BoardTraces, BoardMay
    <3> QED
      BY <3>1, <3>8, BoardChange, Zenon
  <2>3. CASE UNCHANGED boardRowVars
    <3>1. BoardChanges(r, boardJob[r], boardTry[r], how, boardRow[r], boardMode[r], boardSigns[r],
                       boardFound[r], how)
      BY <1>2, <1>11, <2>3 DEF Same, BoardRaise, boardRowVars, BoardChanges
    <3>8. BoardMay(boardJob[r], boardTry[r], how, boardRow[r], boardMode[r], boardSigns[r], boardFound[r], how)
      BY <1>1, <1>11, <2>1 DEF BoardFits, BoardRows, BoardTasks, BoardTraces, BoardMay
    <3> QED
      BY <3>1, <3>8, BoardChange, Zenon
  <2> QED
    BY <1>11, <2>2, <2>3 DEF BoardRaise
<1> QED
  BY <1>3, <1>4, <1>5, <1>6, <1>7, <1>8, <1>9, <1>10, <1>11 DEF BoardRunNext

\* A restart.
LEMMA BoardRestartKept == ASSUME BoardInv, BoardRestart PROVE BoardInv'
<1>1. BoardColumns /\ (\A r \in BoardRun : BoardFits(r)) /\ BoardAttempts \in Nat \ {0}
  BY FitsOfBoardInv, BoardAssumption
<1>2. BoardColumns'
  BY <1>1 DEF BoardRestart, BoardColumns, boardRowVars
<1>3. ASSUME NEW r \in BoardRun PROVE BoardFits(r)'
  <2>1. /\ boardTask'[r] = "none" /\ boardTrace'[r] = "none" /\ boardTry' = boardTry
        /\ boardRow' = boardRow /\ boardMode' = boardMode /\ boardSigns' = boardSigns
        /\ boardFound' = boardFound
        /\ boardJob'[r] = IF boardJob[r] = "running" THEN BoardJobFailed(r) ELSE boardJob[r]
    BY DEF BoardRestart, boardRowVars
  <2>2. BoardFits(r)
    BY <1>1
  <2>3. /\ boardJob'[r] \in {"dead_letter", "retrying", boardJob[r]} /\ boardJob'[r] # "running"
        /\ boardJob'[r] \in {"queued", "retrying"} => boardTry[r] < BoardAttempts
    <3>1. /\ boardTry[r] \in 0 .. BoardAttempts
          /\ boardJob[r] \in {"queued", "retrying"} => boardTry[r] < BoardAttempts
      BY <2>2 DEF BoardFits
    <3>2. BoardJobFailed(r) = "retrying" => boardTry[r] < BoardAttempts
      BY <1>1, <3>1 DEF BoardJobFailed
    <3>3. BoardJobFailed(r) \in {"dead_letter", "retrying"}
      BY DEF BoardJobFailed
    <3> QED
      BY <2>1, <3>1, <3>2, <3>3
  <2> QED
    BY <2>1, <2>2, <2>3
       DEF BoardFits, BoardJobs, BoardActive, BoardJobEnded, BoardTasks, BoardTraces
<1>4. AllFit'
  BY <1>3 DEF AllFit
<1> QED
  BY <1>2, <1>4, BoardInvOfFits, PTL

\* What the invariant says of a run's words: its job's, its row's and its page's.
LEMMA WordsAgree ==
  ASSUME BoardInv, NEW r \in BoardRun
  PROVE  /\ boardJob[r] = "succeeded" => boardRow[r] \notin {"none", "running", "cancelled"}
         /\ boardRow[r] = "failed" => BoardDerived(r) \in BoardFailure
<1>1. BoardFits(r)
  BY FitsOfBoardInv
<1> QED
  BY <1>1, BoardAssumption DEF BoardFits, BoardDerived, BoardFailure

LEMMA FiltersFind == ASSUME BoardInv PROVE FilterFinds
<1> SUFFICES ASSUME NEW r \in BoardRun, boardJob[r] # "absent" \/ boardRow[r] # "none",
                    boardRow[r] # "no_target"
             PROVE  r \in BoardList(BoardListed(r))
  BY DEF FilterFinds
<1>1. BoardFits(r)
  BY FitsOfBoardInv
<1>2. /\ boardJob[r] = "succeeded" => boardRow[r] \notin {"none", "running", "cancelled"}
      /\ boardRow[r] = "failed" => BoardDerived(r) \in BoardFailure
  BY WordsAgree
<1>3. CASE boardRow[r] = "none"
  <2>1. BoardListed(r) = BoardJobRow(r) /\ r \in BoardPending(BoardListed(r))
    BY <1>3 DEF BoardListed, BoardPending, BoardFetched
  <2> QED
    BY <2>1 DEF BoardList
<1>4. CASE boardRow[r] # "none" /\ (boardJob[r] = "absent" \/ boardRow[r] \in BoardTerminal)
  <2>1. BoardListed(r) = BoardRowShown(r) /\ BoardMerged(r) = BoardRowShown(r)
    BY <1>4 DEF BoardListed, BoardMerged
  <2>2. r \in BoardFetched(BoardRowShown(r))
    BY <1>1, <1>2, <1>4
       DEF BoardFits, BoardFetched, BoardRowShown, BoardTerminal, BoardSuccess, BoardFailure
  <2> QED
    BY <2>1, <2>2 DEF BoardList
<1>5. CASE boardRow[r] # "none" /\ boardJob[r] # "absent" /\ boardRow[r] \notin BoardTerminal
  <2>1. BoardListed(r) = BoardJobShown(r) /\ BoardMerged(r) = BoardJobShown(r)
    BY <1>5 DEF BoardListed, BoardMerged
  <2>2. boardRow[r] = "running" /\ BoardRowShown(r) = "running"
    BY <1>1, <1>5, BoardAssumption
       DEF BoardFits, BoardRows, BoardTerminal, BoardSuccess, BoardFailure, BoardRowShown
  <2>3. boardJob[r] # "succeeded" /\ boardJob[r] \in BoardJobs
    BY <1>1, <1>2, <2>2 DEF BoardFits
  <2>4. CASE boardJob[r] \in BoardActive
    <3>1. BoardJobShown(r) \in {"queued", "running"}
      BY <2>4 DEF BoardActive, BoardJobShown
    <3>2. r \in BoardFetched(BoardJobShown(r))
      BY <2>2, <3>1 DEF BoardFetched
    <3> QED
      BY <2>1, <3>2 DEF BoardList
  <2>5. CASE boardJob[r] \in {"failed", "dead_letter", "cancelled"}
    <3>1. BoardJobShown(r) \in {"failed", "cancelled"} /\ BoardJobRow(r) = BoardJobShown(r)
      BY <2>5 DEF BoardJobShown, BoardJobRow
    <3>2. r \in BoardPending(BoardJobShown(r))
      BY <1>5, <2>2, <3>1 DEF BoardPending, BoardFetched
    <3> QED
      BY <2>1, <3>1, <3>2 DEF BoardList
  <2> QED
    BY <1>5, <2>3, <2>4, <2>5 DEF BoardJobs, BoardActive, BoardJobEnded
<1> QED
  BY <1>3, <1>4, <1>5

LEMMA PagesTell == ASSUME BoardInv PROVE PageTells
<1> SUFFICES ASSUME NEW r \in BoardRun, boardJob[r] \in BoardJobEnded, boardTask[r] = "none"
             PROVE  BoardPage(r) \notin BoardActive
  BY DEF PageTells
<1>1. BoardFits(r)
  BY FitsOfBoardInv
<1>2. /\ boardJob[r] = "succeeded" => boardRow[r] \notin {"none", "running", "cancelled"}
      /\ boardRow[r] = "failed" => BoardDerived(r) \in BoardFailure
  BY WordsAgree
<1>3. CASE boardRow[r] # "none"
  <2>1. BoardDerived(r) \in BoardFailure
    BY DEF BoardDerived, BoardFailure
  <2>2. boardRow[r] \notin BoardActive \/ boardRow[r] = "running"
    BY <1>1, BoardAssumption DEF BoardFits, BoardRows, BoardActive
  <2>3. BoardDetail(r) \notin BoardActive
    BY <1>2, <2>1, <2>2 DEF BoardDetail, BoardJobShown, BoardJobEnded, BoardFailure, BoardActive
  <2> QED
    BY <1>3, <2>3 DEF BoardPage
<1>4. CASE boardRow[r] = "none" /\ boardTrace[r] # "none"
  <2>1. boardTrace[r] # "open" /\ boardTrace[r] \notin BoardActive
    BY <1>1, <1>4, BoardAssumption DEF BoardFits, BoardTraces, BoardActive
  <2> QED
    BY <1>4, <2>1 DEF BoardPage, BoardTraceShown
<1>5. CASE boardRow[r] = "none" /\ boardTrace[r] = "none"
  BY <1>2, <1>5 DEF BoardPage, BoardJobRow, BoardJobShown, BoardJobEnded, BoardActive
<1> QED
  BY <1>3, <1>4, <1>5

\* The overview counts rows; those of sets of statuses that have none in common add up.
LEMMA CountsAdd ==
  ASSUME NEW A, NEW B, A \cap B = {}
  PROVE  BoardCount(A \cup B) = BoardCount(A) + BoardCount(B) /\ BoardCount(A) \in Nat
<1>1. IsFiniteSet(BoardRun)
  BY BoardAssumption
<1> DEFINE In(S) == {r \in BoardRun : boardRow[r] \in S}
<1>2. In(A) \cup In(B) = In(A \cup B) /\ In(A) \cap In(B) = {}
  OBVIOUS
<1>3. In(A) \in SUBSET BoardRun /\ In(B) \in SUBSET BoardRun
  OBVIOUS
<1>4. BoardCount(A) = Cardinality(In(A)) /\ BoardCount(B) = Cardinality(In(B))
      /\ BoardCount(A \cup B) = Cardinality(In(A \cup B))
  BY DEF BoardCount
<1> HIDE DEF In
<1>5. IsFiniteSet(In(A)) /\ IsFiniteSet(In(B))
  BY <1>1, <1>3, FS_Subset
<1>6. Cardinality(In(A) \cup In(B)) = Cardinality(In(A)) + Cardinality(In(B)) - Cardinality(In(A) \cap In(B))
  BY <1>5, FS_Union
<1>7. Cardinality(In(A) \cap In(B)) = 0
  BY <1>2, FS_EmptySet
<1>8. Cardinality(In(A)) \in Nat /\ Cardinality(In(B)) \in Nat
  BY <1>5, FS_CardinalityType
<1>9. BoardCount(A \cup B) = Cardinality(In(A) \cup In(B))
  BY <1>2, <1>4, Zenon
<1> QED
  BY <1>4, <1>6, <1>7, <1>8, <1>9

LEMMA OverviewAddsUp == ASSUME BoardInv PROVE OverviewAdds
<1> DEFINE Ended == BoardSuccess \cup BoardFailure \cup {"cancelled"}
<1>1. {r \in BoardRun : boardRow[r] # "none"}
        = {r \in BoardRun : boardRow[r] \in (Ended \cup {"running"}) \cup {"no_target"}}
  <2>1. ASSUME NEW r \in BoardRun
        PROVE  boardRow[r] # "none" <=> boardRow[r] \in (Ended \cup {"running"}) \cup {"no_target"}
    <3>1. BoardFits(r)
      BY FitsOfBoardInv
    <3> QED
      BY <3>1, BoardAssumption DEF BoardFits, BoardRows, BoardSuccess, BoardFailure
  <2> QED
    BY <2>1
<1>2. BoardTotal = BoardCount((Ended \cup {"running"}) \cup {"no_target"})
  BY <1>1 DEF BoardTotal, BoardCount
<1>3. /\ (Ended \cup {"running"}) \cap {"no_target"} = {} /\ Ended \cap {"running"} = {}
      /\ (BoardSuccess \cup BoardFailure) \cap {"cancelled"} = {} /\ BoardSuccess \cap BoardFailure = {}
  BY DEF BoardSuccess, BoardFailure
<1>4. BoardCount((Ended \cup {"running"}) \cup {"no_target"})
        = BoardCount(Ended \cup {"running"}) + BoardCount({"no_target"})
  BY <1>3, CountsAdd
<1>5. BoardCount(Ended \cup {"running"}) = BoardCount(Ended) + BoardCount({"running"})
  BY <1>3, CountsAdd
<1>6. BoardCount(Ended) = BoardCount(BoardSuccess \cup BoardFailure) + BoardCount({"cancelled"})
  BY <1>3, CountsAdd
<1>7. BoardCount(BoardSuccess \cup BoardFailure) = BoardCount(BoardSuccess) + BoardCount(BoardFailure)
  BY <1>3, CountsAdd
<1> QED
  BY <1>2, <1>4, <1>5, <1>6, <1>7 DEF OverviewAdds, BoardEnded, BoardRunning, BoardFailures

LEMMA BlockedCount == ASSUME BoardInv PROVE BlockedOnce
<1> SUFFICES ASSUME NEW order \in {<<"rate", "down">>, <<"down", "rate">>}, NEW r \in BoardRun
             PROVE  LET signs == boardSigns[r] \cup {boardMode[r]}
                    IN  /\ BoardBlocker(r, order) = "rate" <=> "rate" \in signs
                        /\ BoardBlocker(r, order) = "down" <=> "rate" \notin signs /\ "down" \in signs
  BY DEF BlockedOnce, BoardBlocked
<1>1. boardMode[r] \in {"rate", "down", ""} /\ boardSigns[r] \subseteq {"rate", "down"}
  <2>1. BoardFits(r)
    BY FitsOfBoardInv
  <2> QED
    BY <2>1 DEF BoardFits, BoardSign
<1>2. (order[1] = "rate" /\ order[2] = "down") \/ (order[1] = "down" /\ order[2] = "rate")
  OBVIOUS
<1> QED
  BY <1>1, <1>2 DEF BoardBlocker, BoardRemember

LEMMA BoardInvTells == BoardInv => BoardTells
BY FiltersFind, PagesTell, OverviewAddsUp, BlockedCount DEF BoardTells, BoardInv

\* For any runs, verdicts and attempts: a run is found under the status its list shows,
\* its page does not say that it goes on when it has ended, the totals of the overview
\* add up and a blocked run counts once (ui_runs, ui_run_detail, get_overview).
THEOREM BoardIsTrue == BoardSpec => []BoardTells
<1>1. BoardInv /\ [BoardNext]_boardVars => BoardInv'
  <2> SUFFICES ASSUME BoardInv, [BoardNext]_boardVars PROVE BoardInv'
    OBVIOUS
  <2>1. CASE BoardNext
    BY <2>1, BoardRunKept, BoardRestartKept DEF BoardNext
  <2>2. CASE UNCHANGED boardVars
    BY <2>2 DEF boardVars, boardJobVars, boardRowVars, BoardInv, BoardTypeOK, JobHasTask,
                VerdictKept, TraceHasRow
  <2> QED
    BY <2>1, <2>2
<1> QED
  BY <1>1, BoardStarts, BoardInvTells, PTL DEF BoardSpec

-----------------------------------------------------------------------------
(* The settings are what operators made them.  A settings object is sound  *)
(* when a request holds it, or it is in force, and it is not left behind.  *)
(* The invariant says of a sound object, field by field, how it relates to *)
(* what was accepted (SetValues, ClearedValues) and, where the fallback to *)
(* the base file cannot store a field, to the files (FixedValues,          *)
(* FixedTell); what the files tell of a field nothing is in doubt about    *)
(* (Certain: FilesTell); that nobody else has a sound object while one     *)
(* saves his (OneSaver); and what the bridge holds between two updates     *)
(* (BridgeTells).                                                          *)

EditStages == {"idle", "assign", "take", "edit", "save", "write", "reset", "bridge", "over"}
SettingsTyped ==
  /\ SettingsTypeOK
  /\ request \in [Editors -> SettingsRequests] /\ editStage \in [Editors -> EditStages]
  /\ inHand \in [Editors -> Objects \cup {NoObject}] /\ text \in [Editors -> Layer]
  /\ accepted \in Layer
  /\ \A q \in Editors :
       /\ editStage[q] = "assign" => inHand[q] \in Objects
       /\ editStage[q] \in {"edit", "save", "write", "reset", "bridge", "over"} => request[q].kind # "get"
Sound == InUse \ ({NoObject} \cup spoiled)
Touched == UNION {DOMAIN request[q].set : q \in {e \in Editors : editStage[e] \in {"save", "write"}}}
Certain(f) == ~BeingWritten /\ f \notin unsure \cup Changing
OneSaver ==
  \A q \in Editors :
     editStage[q] \in {"save", "write"} /\ inHand[q] \notin spoiled => Sound \subseteq {inHand[q]}
SetValues == \A o \in Sound, f \in Fields : accepted[f] # Blank => objects[o][f] = accepted[f]
ClearedValues ==
  \A o \in Sound, f \in Fields :
     accepted[f] = Blank /\ objects[o][f] # Blank /\ (~readOnly \/ (f \in Storable /\ Certain(f)))
       => objects[o][f] = Weaker[f]
FixedValues == \A o \in Sound, f \in Fields \ (Storable \cup unsure \cup Touched) : objects[o][f] = Loaded[f]
FilesTell ==
  \A f \in Fields :
     Certain(f) => Loaded[f] = IF accepted[f] = Blank THEN Weaker[f] ELSE accepted[f]
FixedTell ==
  \A f \in Fields \ (Storable \cup unsure \cup Touched) :
     /\ accepted[f] # Blank => Loaded[f] = accepted[f]
     /\ f \in SecretFields /\ accepted[f] = Blank => Loaded[f] = Weaker[f]
NoPut == \A q \in Editors : editStage[q] \in {"save", "write", "reset", "bridge"} => request[q].kind # "put"
BridgeTells == ~bridgeSpoiled /\ NoPut => bridge = accepted["browser"]
BrowserTells ==
    /\ \A o \in Sound : objects[o]["browser"] = accepted["browser"]
    /\ Certain("browser") => Loaded["browser"] = accepted["browser"]
    /\ accepted["browser"] = Blank =>
         /\ Environment["browser"] = Blank
         /\ ~readOnly => baseFile["browser"] = Blank
         /\ readOnly => runtimeFile["browser"] = Blank
SettingsHold == OneSaver /\ SetValues /\ ClearedValues /\ FixedValues /\ FilesTell /\ FixedTell /\ BrowserTells /\ SecretsKept
SettingsInv == SettingsTyped /\ SettingsHold /\ BridgeTells

-----------------------------------------------------------------------------
\* What loads give, field by field.
LEMMA LoadedAt ==
  /\ \A f \in Fields : /\ Loaded[f] = IF runtimeFile[f] # Blank THEN runtimeFile[f] ELSE Weaker[f]
                       /\ Weaker[f] = IF baseFile[f] # Blank THEN baseFile[f] ELSE Environment[f]
BY DEF Loaded, Weaker, Over

LEMMA LayersKept ==
  /\ Empty \in Layer
  /\ \A strong, weak \in Layer : Over(strong, weak) \in Layer
  /\ \A layer \in Layer : NoSecrets(layer) \in Layer
  /\ \A layer \in Layer, b \in Bodies : With(layer, b) \in Layer
  /\ \A layer \in Layer : With(layer, <<>>) \in Layer
<1>1. Empty \in Layer
  BY DEF Empty, Layer
<1>2. \A strong, weak \in Layer : Over(strong, weak) \in Layer
  BY DEF Over, Layer
<1>3. \A layer \in Layer : NoSecrets(layer) \in Layer
  BY DEF NoSecrets, Layer
<1>4. \A layer \in Layer, b \in Bodies : With(layer, b) \in Layer
  BY SettingsAssumption DEF With, Layer
<1>5. \A layer \in Layer : With(layer, <<>>) \in Layer
  <2>1. DOMAIN <<>> = {}
    OBVIOUS
  <2> QED
    BY <2>1 DEF With, Layer
<1> QED
  BY <1>1, <1>2, <1>3, <1>4, <1>5

LEMMA LoadedTyped ==
  ASSUME runtimeFile \in Layer, baseFile \in Layer
  PROVE  Loaded \in Layer /\ Weaker \in Layer
BY LayersKept, SettingsAssumption DEF Loaded, Weaker

\* What is asked for, by its kind.
LEMMA RequestShape ==
  ASSUME NEW r \in SettingsRequests
  PROVE  /\ r.set \in Bodies \cup {<<>>} /\ r.kind \in {"get", "put", "catalog"} /\ r.bad \in BOOLEAN
         /\ r.kind = "catalog" => DOMAIN r.set = {"catalog"} /\ ~r.bad
         /\ r.kind = "get" => r.set = <<>> /\ ~r.bad
         /\ r.kind # "get" => r.set \in Bodies
         /\ DOMAIN r.set \subseteq Fields
<1>1. CASE r = Get
  <2>1. DOMAIN <<>> = {}
    OBVIOUS
  <2> QED
    BY <1>1, <2>1 DEF Get
<1>2. CASE r \in [kind : {"put"}, set : Bodies \ Catalogs, bad : BOOLEAN]
  <2>1. r.kind = "put" /\ r.set \in Bodies /\ r.bad \in BOOLEAN
    BY <1>2
  <2> QED
    BY <2>1, SettingsAssumption
<1>3. CASE r \in [kind : {"catalog"}, set : Catalogs, bad : {FALSE}]
  <2>1. r.kind = "catalog" /\ r.set \in Catalogs /\ r.bad = FALSE
    BY <1>3
  <2> QED
    BY <2>1, SettingsAssumption DEF Catalogs
<1> QED
  BY <1>1, <1>2, <1>3 DEF SettingsRequests

\* There is always room for one more object.
LEMMA RoomForOne ==
  ASSUME inHand \in [Editors -> Objects \cup {NoObject}], inForce = NoObject
  PROVE  \E o \in Objects : o \notin InUse
<1> SUFFICES ASSUME \A o \in Objects : o \in InUse PROVE FALSE
  OBVIOUS
<1>1. Cardinality(Editors) \in Nat
  BY SettingsAssumption, FS_CardinalityType
<1>2. IsFiniteSet(Objects) /\ Cardinality(Objects) = Cardinality(Editors) + 1
  <2>1. IsFiniteSet(1..(Cardinality(Editors) + 1))
        /\ Cardinality(1..(Cardinality(Editors) + 1)) = Cardinality(Editors) + 1
    BY <1>1, FS_Interval
  <2> QED
    BY <2>1 DEF Objects
<1>3. \A o \in Objects : o # NoObject
  BY <1>1 DEF Objects, NoObject
<1>4. \A o \in Objects : \E q \in Editors : inHand[q] = o
  BY <1>3 DEF InUse
<1> DEFINE f == [o \in Objects |-> CHOOSE q \in Editors : inHand[q] = o]
<1>5. \A o \in Objects : f[o] \in Editors /\ inHand[f[o]] = o
  BY <1>4
<1>6. f \in [Objects -> Editors]
  BY <1>5
<1> HIDE DEF f
<1>7. \E x, y \in Objects : x # y /\ f[x] = f[y]
  BY <1>1, <1>2, <1>6, FS_PigeonHole, SettingsAssumption
<1> QED
  BY <1>5, <1>7

LEMMA ObjectsAre == Objects \subseteq Nat \ {NoObject}
<1>1. Cardinality(Editors) \in Nat
  BY SettingsAssumption, FS_CardinalityType
<1> QED
  BY <1>1 DEF Objects, NoObject

\* Steps that leave the files alone, and what was accepted; objects stay as they
\* are, or are loaded when nothing is in doubt.
LEMMA QuietKeeps ==
  ASSUME SettingsTyped, SettingsHold, objects' \in [Objects -> Layer],
         UNCHANGED <<runtimeFile, baseFile, readOnly, accepted, unsure>>,
         \A q \in Editors :
           /\ editStage'[q] = "save" <=> editStage[q] = "save"
           /\ editStage'[q] = "write" <=> editStage[q] = "write"
           /\ editStage[q] \in {"save", "write"} => request'[q] = request[q] /\ inHand'[q] = inHand[q],
         \A o \in Sound' : \/ o \in Sound /\ objects'[o] = objects[o]
                           \/ ~Saving /\ unsure = {} /\ objects'[o] = Loaded
  PROVE  SettingsHold'
<1>1. Weaker' = Weaker /\ Loaded' = Loaded /\ Storable' = Storable
  BY DEF Weaker, Loaded, Over, Storable
<1>2. BeingWritten' = BeingWritten /\ Changing' = Changing /\ Touched' = Touched /\ Saving' = Saving
  <2>1. {q \in Editors : editStage'[q] = "save"} = {q \in Editors : editStage[q] = "save"}
    OBVIOUS
  <2>2. \A q \in Editors : editStage'[q] \in {"save", "write"} <=> editStage[q] \in {"save", "write"}
    OBVIOUS
  <2>3. Changing' = Changing
    BY <2>1 DEF Changing
  <2>4. Touched' = Touched
    BY <2>2 DEF Touched
  <2> QED
    BY <2>2, <2>3, <2>4 DEF BeingWritten, Saving
<1>3. \A f : Certain(f)' <=> Certain(f)
  BY <1>2 DEF Certain
<1>4. ~Saving => ~BeingWritten /\ Changing = {} /\ Touched = {}
  BY DEF Saving, BeingWritten, Changing, Touched
<1>5. ~Saving /\ unsure = {} => \A f : Certain(f)
  BY <1>4 DEF Certain
<1>6. OneSaver'
  <2> SUFFICES ASSUME NEW q \in Editors, editStage'[q] \in {"save", "write"}, inHand'[q] \notin spoiled'
               PROVE  Sound' \subseteq {inHand'[q]}
    BY DEF OneSaver
  <2>1. editStage[q] \in {"save", "write"} /\ inHand'[q] = inHand[q] /\ Saving
    BY DEF Saving
  <2>2. Sound' \subseteq Sound
    BY <2>1
  <2>3. inHand[q] \in Objects /\ inHand[q] # NoObject
    BY <2>1, ObjectsAre DEF SettingsTyped, SettingsTypeOK
  <2>4. inHand[q] \in Sound'
    BY <2>1, <2>3 DEF Sound, InUse
  <2>5. inHand[q] \notin spoiled
    BY <2>2, <2>4 DEF Sound
  <2> QED
    BY <2>1, <2>2, <2>5 DEF OneSaver, SettingsHold
<1>7. SetValues'
  <2> SUFFICES ASSUME NEW o \in Sound', NEW f \in Fields, accepted[f] # Blank
               PROVE  objects'[o][f] = accepted[f]
    BY DEF SetValues
  <2> QED
    BY <1>5, LoadedAt DEF SettingsHold, SetValues, FilesTell
<1>8. ClearedValues'
  <2> SUFFICES ASSUME NEW o \in Sound', NEW f \in Fields, accepted[f] = Blank, objects'[o][f] # Blank,
                      ~readOnly \/ (f \in Storable /\ Certain(f))
               PROVE  objects'[o][f] = Weaker[f]
    BY <1>1, <1>3 DEF ClearedValues
  <2> QED
    BY <1>5 DEF SettingsHold, ClearedValues, FilesTell
<1>9. FixedValues'
  <2> SUFFICES ASSUME NEW o \in Sound', NEW f \in Fields \ (Storable \cup unsure \cup Touched)
               PROVE  objects'[o][f] = Loaded[f]
    BY <1>1, <1>2 DEF FixedValues
  <2> QED
    BY DEF SettingsHold, FixedValues
<1>10. FilesTell'
  BY <1>1, <1>3 DEF SettingsHold, FilesTell
<1>11. FixedTell'
  BY <1>1, <1>2 DEF SettingsHold, FixedTell
<1>12. BrowserTells'
  <2>1. "browser" \in Fields
    BY SettingsAssumption DEF Fields
  <2>2. \A o \in Sound' : objects'[o]["browser"] = accepted["browser"]
    BY <1>5 DEF SettingsHold, BrowserTells
  <2>3. Certain("browser")' <=> Certain("browser")
    BY <1>3
  <2> QED
    BY <1>1, <2>2, <2>3 DEF SettingsHold, BrowserTells
<1>13. SecretsKept'
  BY DEF SettingsHold, SecretsKept
<1> QED
  BY <1>6, <1>7, <1>8, <1>9, <1>10, <1>11, <1>12, <1>13 DEF SettingsHold

-----------------------------------------------------------------------------
LEMMA EditHolds ==
  ASSUME SettingsTyped, SettingsHold, NEW q \in Editors, Edit(q)
  PROVE  SettingsHold'
<1> DEFINE set == request[q].set
           mine == inHand[q]
<1>1. /\ editStage[q] = "edit" /\ mine \in Objects /\ mine # NoObject
      /\ request \in [Editors -> SettingsRequests] /\ editStage \in [Editors -> EditStages]
      /\ objects \in [Objects -> Layer]
  BY ObjectsAre DEF SettingsTyped, SettingsTypeOK, Edit
<1>2. /\ objects' = [objects EXCEPT ![mine] = With(@, set)] /\ accepted' = With(accepted, set)
      /\ spoiled' = spoiled \cup (InUse \ {NoObject, mine})
      /\ editStage' = [editStage EXCEPT ![q] = "save"]
      /\ UNCHANGED <<runtimeFile, baseFile, readOnly, inForce, request, inHand, unsure>>
  BY DEF Edit, files
<1> HIDE DEF set, mine
<1>3. Weaker' = Weaker /\ Loaded' = Loaded /\ Storable' = Storable
  BY <1>2 DEF Weaker, Loaded, Over, Storable
<1>4. \A e \in Editors : editStage'[e] = IF e = q THEN "save" ELSE editStage[e]
  BY <1>1, <1>2
<1>5. \A f : /\ f \in Changing' <=> f \in Changing \/ f \in DOMAIN set
             /\ f \in Touched' <=> f \in Touched \/ f \in DOMAIN set
  <2>1. \A f : f \in Changing <=> \E e \in Editors : editStage[e] = "save" /\ f \in DOMAIN request[e].set
    BY DEF Changing
  <2>2. \A f : f \in Changing' <=> \E e \in Editors : editStage'[e] = "save" /\ f \in DOMAIN request[e].set
    BY <1>2 DEF Changing
  <2>3. \A f : f \in Touched <=> \E e \in Editors : editStage[e] \in {"save", "write"} /\ f \in DOMAIN request[e].set
    BY DEF Touched
  <2>4. \A f : f \in Touched' <=> \E e \in Editors : editStage'[e] \in {"save", "write"} /\ f \in DOMAIN request[e].set
    BY <1>2 DEF Touched
  <2> QED
    BY <1>1, <1>4, <2>1, <2>2, <2>3, <2>4 DEF set
<1>6. BeingWritten' <=> BeingWritten
  BY <1>1, <1>4 DEF BeingWritten
<1>7. \A f : Certain(f)' => Certain(f) /\ f \notin DOMAIN set
  BY <1>2, <1>5, <1>6 DEF Certain
<1>8. InUse' = InUse /\ Sound' \subseteq Sound \cap {mine}
  BY <1>2 DEF InUse, Sound
<1>9. \A f \in Fields : /\ objects'[mine][f] = IF f \in DOMAIN set THEN set[f] ELSE objects[mine][f]
                        /\ accepted'[f] = IF f \in DOMAIN set THEN set[f] ELSE accepted[f]
  BY <1>1, <1>2 DEF With
<1>10. OneSaver'
  <2> SUFFICES ASSUME NEW e \in Editors, inHand'[e] \notin spoiled', inHand'[e] \in Objects
               PROVE  Sound' \subseteq {inHand'[e]}
    BY <1>4, <1>1, <1>2 DEF OneSaver, SettingsTyped, SettingsTypeOK
  <2>1. inHand[e] \in InUse /\ inHand[e] # NoObject
    BY <1>2, ObjectsAre DEF InUse
  <2>2. inHand[e] = mine
    BY <1>2, <2>1
  <2> QED
    BY <1>2, <1>8, <2>2
<1>11. SetValues'
  BY <1>8, <1>9 DEF SettingsHold, SetValues
<1>12. ClearedValues'
  <2> SUFFICES ASSUME NEW f \in Fields, mine \in Sound, accepted'[f] = Blank, objects'[mine][f] # Blank,
                      ~readOnly \/ (f \in Storable /\ Certain(f)')
               PROVE  objects'[mine][f] = Weaker[f]
    BY <1>2, <1>3, <1>8 DEF ClearedValues
  <2> QED
    BY <1>7, <1>9 DEF SettingsHold, ClearedValues
<1>13. FixedValues'
  <2> SUFFICES ASSUME NEW f \in Fields \ (Storable \cup unsure \cup Touched'), mine \in Sound
               PROVE  objects'[mine][f] = Loaded[f]
    BY <1>2, <1>3, <1>8 DEF FixedValues
  <2> QED
    BY <1>5, <1>9 DEF SettingsHold, FixedValues
<1>14. FilesTell'
  BY <1>3, <1>7, <1>9 DEF SettingsHold, FilesTell
<1>15. FixedTell'
  BY <1>2, <1>3, <1>5, <1>9 DEF SettingsHold, FixedTell
<1>16. BrowserTells'
  <2>1. "browser" \in Fields
    BY SettingsAssumption DEF Fields
  <2>2. "browser" \in DOMAIN set => set["browser"] # Blank
    BY <1>1, RequestShape, SettingsAssumption DEF set, SettingsTyped
  <2>3. /\ objects'[mine]["browser"] = IF "browser" \in DOMAIN set THEN set["browser"] ELSE objects[mine]["browser"]
        /\ accepted'["browser"] = IF "browser" \in DOMAIN set THEN set["browser"] ELSE accepted["browser"]
    BY <1>9, <2>1
  <2>4. \A o \in Sound' : objects'[o]["browser"] = accepted'["browser"]
    BY <1>8, <2>3 DEF SettingsHold, BrowserTells
  <2>5. Certain("browser")' => Loaded'["browser"] = accepted'["browser"]
    BY <1>3, <1>7, <2>3 DEF SettingsHold, BrowserTells
  <2> QED
    BY <1>2, <2>2, <2>3, <2>4, <2>5 DEF SettingsHold, BrowserTells
<1>17. SecretsKept'
  BY <1>2 DEF SettingsHold, SecretsKept
<1> QED
  BY <1>10, <1>11, <1>12, <1>13, <1>14, <1>15, <1>16, <1>17 DEF SettingsHold

\* Who saves, and what is being changed, by stage.
LEMMA ChangingAre ==
  /\ \A f : f \in Changing <=> \E e \in Editors : editStage[e] = "save" /\ f \in DOMAIN request[e].set
  /\ \A f : f \in Touched <=> \E e \in Editors : editStage[e] \in {"save", "write"} /\ f \in DOMAIN request[e].set
BY DEF Changing, Touched

\* What cannot be stored now is not touched by a write.
LEMMA FixedStay ==
  ASSUME SettingsTyped, SecretsKept, SecretsKept', readOnly' = readOnly,
         IF readOnly THEN runtimeFile' = runtimeFile ELSE baseFile' = baseFile
  PROVE  /\ Storable' = Storable
         /\ \A f \in Fields \ Storable : Loaded'[f] = Loaded[f]
         /\ \A f \in SecretFields : f \in Fields /\ Weaker'[f] = Weaker[f]
         /\ ~readOnly => Storable = Fields /\ Weaker' = Weaker
<1>1. ~readOnly => Storable = Fields /\ Storable' = Fields /\ Weaker' = Weaker
  BY DEF Storable, Weaker, Over
<1>2. readOnly => Storable' = Storable
  BY DEF Storable
<1>3. \A f \in SecretFields : f \in Fields /\ Weaker'[f] = Weaker[f]
  BY DEF SecretsKept, Weaker, Over, Fields
<1>4. ASSUME NEW f \in Fields \ Storable PROVE Loaded'[f] = Loaded[f]
  <2>1. readOnly /\ runtimeFile' = runtimeFile
    BY <1>1, <1>4
  <2>2. f \in SecretFields \/ runtimeFile[f] # Blank
    BY <1>4, <2>1 DEF Storable
  <2> QED
    BY <1>3, <2>1, <2>2 DEF Loaded, Over
<1> QED
  BY <1>1, <1>2, <1>3, <1>4

LEMMA SavedKeepsSecrets ==
  ASSUME SecretsKept, NEW layer, Saved(layer)
  PROVE  SecretsKept' /\ (IF readOnly THEN runtimeFile' = runtimeFile ELSE baseFile' = baseFile)
BY DEF SecretsKept, Saved, NoSecrets, Fields

LEMMA OpenFileHolds ==
  ASSUME SettingsTyped, SettingsHold, NEW q \in Editors, OpenFile(q)
  PROVE  SettingsHold'
<1>1. /\ editStage[q] = "save" /\ editStage \in [Editors -> EditStages]
      /\ editStage' = [editStage EXCEPT ![q] = "write"] /\ Saved(Empty)
      /\ UNCHANGED <<readOnly, objects, inForce, request, inHand, accepted, unsure, spoiled>>
  BY DEF SettingsTyped, OpenFile, ghosts
<1>2. \A e \in Editors : editStage'[e] = IF e = q THEN "write" ELSE editStage[e]
  BY <1>1
<1>3. SecretsKept' /\ (IF readOnly THEN runtimeFile' = runtimeFile ELSE baseFile' = baseFile)
  BY <1>1, SavedKeepsSecrets DEF SettingsHold
<1>4. /\ Storable' = Storable
      /\ \A f \in Fields \ Storable : Loaded'[f] = Loaded[f]
      /\ \A f \in SecretFields : Weaker'[f] = Weaker[f]
      /\ ~readOnly => Weaker' = Weaker
  BY <1>1, <1>3, FixedStay DEF SettingsHold
<1>5. Touched' = Touched
  <2>1. \A f : f \in Touched' <=> \E e \in Editors : editStage'[e] \in {"save", "write"} /\ f \in DOMAIN request[e].set
    BY <1>1 DEF Touched
  <2>2. \A e \in Editors : editStage'[e] \in {"save", "write"} <=> editStage[e] \in {"save", "write"}
    BY <1>1, <1>2
  <2>3. \A f : f \in Touched' <=> f \in Touched
    BY <2>1, <2>2, ChangingAre
  <2>4. Touched' \subseteq Touched /\ Touched \subseteq Touched'
    BY <2>3
  <2> QED
    BY <2>4
<1>6. \A f : ~Certain(f)'
  BY <1>2 DEF Certain, BeingWritten
<1>7. Sound' = Sound
  BY <1>1 DEF Sound, InUse
<1>8. OneSaver'
  BY <1>1, <1>2, <1>7 DEF SettingsHold, OneSaver
<1>9. SetValues' /\ FilesTell'
  BY <1>1, <1>6, <1>7 DEF SettingsHold, SetValues, FilesTell
<1>10. ClearedValues'
  BY <1>1, <1>4, <1>6, <1>7 DEF SettingsHold, ClearedValues
<1>11. FixedValues'
  BY <1>1, <1>4, <1>5, <1>7 DEF SettingsHold, FixedValues
<1>12. FixedTell'
  BY <1>1, <1>4, <1>5 DEF SettingsHold, FixedTell
<1>13. BrowserTells'
  <2>1. ~Certain("browser")'
    BY <1>6
  <2> QED
    BY <1>1, <1>3, <1>7, <2>1 DEF SettingsHold, BrowserTells
<1> QED
  BY <1>3, <1>8, <1>9, <1>10, <1>11, <1>12, <1>13 DEF SettingsHold

LEMMA SaveFailsHolds ==
  ASSUME SettingsTyped, SettingsHold, NEW q \in Editors, SaveFails(q)
  PROVE  SettingsHold'
<1>1. /\ editStage[q] = "save" /\ editStage \in [Editors -> EditStages]
      /\ editStage' = [editStage EXCEPT ![q] = IF request[q].kind = "put" THEN "bridge" ELSE "over"]
      /\ unsure' = unsure \cup DOMAIN request[q].set
      /\ UNCHANGED <<runtimeFile, baseFile, readOnly, objects, inForce, request, inHand, accepted, spoiled>>
  BY DEF SettingsTyped, SaveFails, files
<1>2. /\ editStage'[q] \in {"bridge", "over"}
      /\ \A e \in Editors : e # q => editStage'[e] = editStage[e]
  BY <1>1
<1>3. Weaker' = Weaker /\ Loaded' = Loaded /\ Storable' = Storable
  BY <1>1 DEF Weaker, Loaded, Over, Storable
<1>4. BeingWritten' <=> BeingWritten
  BY <1>1, <1>2 DEF BeingWritten
<1>5. \A f : /\ f \in unsure' \cup Changing' <=> f \in unsure \cup Changing
             /\ f \in unsure' \cup Touched' <=> f \in unsure \cup Touched
  <2>1. \A f : f \in Changing' <=> \E e \in Editors : editStage'[e] = "save" /\ f \in DOMAIN request[e].set
    BY <1>1 DEF Changing
  <2>2. \A f : f \in Touched' <=> \E e \in Editors : editStage'[e] \in {"save", "write"} /\ f \in DOMAIN request[e].set
    BY <1>1 DEF Touched
  <2>3. \A f : f \in unsure' \cup Changing' <=> f \in unsure \cup Changing
    BY <1>1, <1>2, <2>1, ChangingAre
  <2>4. \A f : f \in unsure' \cup Touched' <=> f \in unsure \cup Touched
    BY <1>1, <1>2, <2>2, ChangingAre
  <2> QED
    BY <2>3, <2>4
<1>6. \A f : Certain(f)' <=> Certain(f)
  BY <1>4, <1>5 DEF Certain
<1>7. Sound' = Sound
  BY <1>1 DEF Sound, InUse
<1>8. OneSaver'
  BY <1>1, <1>2, <1>7 DEF SettingsHold, OneSaver
<1>9. SetValues' /\ FilesTell'
  BY <1>1, <1>3, <1>6, <1>7 DEF SettingsHold, SetValues, FilesTell
<1>10. ClearedValues'
  BY <1>1, <1>3, <1>6, <1>7 DEF SettingsHold, ClearedValues
<1>11. FixedValues' /\ FixedTell'
  BY <1>1, <1>3, <1>5, <1>7 DEF SettingsHold, FixedValues, FixedTell
<1>12. BrowserTells'
  <2>1. Certain("browser")' <=> Certain("browser")
    BY <1>6
  <2> QED
    BY <1>1, <1>3, <1>7, <2>1 DEF SettingsHold, BrowserTells
<1>13. SecretsKept'
  BY <1>1 DEF SettingsHold, SecretsKept
<1> QED
  BY <1>8, <1>9, <1>10, <1>11, <1>12, <1>13 DEF SettingsHold

LEMMA WriteFileHolds ==
  ASSUME SettingsTyped, SettingsHold, NEW q \in Editors, WriteFile(q)
  PROVE  SettingsHold'
<1> DEFINE mine == inHand[q]
           set == request[q].set
<1>1. /\ editStage[q] = "write" /\ editStage \in [Editors -> EditStages]
      /\ editStage' = [editStage EXCEPT ![q] = IF request[q].kind = "put" THEN "reset" ELSE "over"]
      /\ Saved(text[q])
      /\ unsure' = IF mine \notin spoiled /\ text[q] = objects[mine] THEN (unsure \cup DOMAIN set) \ Storable ELSE Fields
      /\ UNCHANGED <<readOnly, objects, inForce, request, inHand, accepted, spoiled>>
  BY DEF SettingsTyped, WriteFile
<1>2. mine \in Objects /\ mine # NoObject
  BY <1>1, ObjectsAre DEF SettingsTyped, SettingsTypeOK
<1>3. mine \notin spoiled => mine \in Sound /\ Sound \subseteq {mine}
  BY <1>1, <1>2 DEF SettingsHold, OneSaver, Sound, InUse
<1> HIDE DEF mine, set
<1>4. /\ editStage'[q] \in {"reset", "over"}
      /\ \A e \in Editors : e # q => editStage'[e] = editStage[e]
  BY <1>1
<1>5. SecretsKept' /\ (IF readOnly THEN runtimeFile' = runtimeFile ELSE baseFile' = baseFile)
  BY <1>1, SavedKeepsSecrets DEF SettingsHold
<1>6. /\ Storable' = Storable
      /\ \A f \in Fields \ Storable : Loaded'[f] = Loaded[f]
      /\ \A f \in SecretFields : Weaker'[f] = Weaker[f]
      /\ ~readOnly => Storable = Fields /\ Weaker' = Weaker
  BY <1>1, <1>5, FixedStay DEF SettingsHold
<1>7. \A f : f \in Touched => f \in Touched' \/ f \in DOMAIN set
  <2>1. \A f : f \in Touched' <=> \E e \in Editors : editStage'[e] \in {"save", "write"} /\ f \in DOMAIN request[e].set
    BY <1>1 DEF Touched
  <2> QED
    BY <1>4, <2>1, ChangingAre DEF set
<1>8. ASSUME NEW f, Certain(f)' PROVE f \notin Touched'
  <2>1. \A e \in Editors : editStage'[e] # "write"
    BY <1>8 DEF Certain, BeingWritten
  <2>2. f \notin Changing'
    BY <1>8 DEF Certain
  <2> QED
    BY <2>1, <2>2 DEF Changing, Touched
<1>9. Sound' = Sound
  BY <1>1 DEF Sound, InUse
<1>10. \A f \in Fields : f \notin unsure' => mine \notin spoiled /\ text[q] = objects[mine]
                                             /\ (f \notin Storable => f \notin unsure \cup DOMAIN set)
  BY <1>1
\* What was written, when it is what was accepted.
<1>11. ASSUME NEW f \in Fields, f \notin unsure'
       PROVE  /\ ~readOnly => runtimeFile'[f] = objects[mine][f]
              /\ readOnly /\ f \notin SecretFields => baseFile'[f] = objects[mine][f] /\ runtimeFile'[f] = runtimeFile[f]
  <2>1. Saved(objects[mine])
    BY <1>1, <1>10, <1>11
  <2> QED
    BY <2>1 DEF Saved, NoSecrets
<1>12. /\ \A f \in Fields : Loaded'[f] = IF runtimeFile'[f] # Blank THEN runtimeFile'[f] ELSE Weaker'[f]
       /\ \A f \in Fields : Weaker'[f] = IF baseFile'[f] # Blank THEN baseFile'[f] ELSE Environment[f]
  BY DEF Loaded, Weaker, Over
<1>13. OneSaver'
  BY <1>1, <1>4, <1>9 DEF SettingsHold, OneSaver
<1>14. SetValues'
  BY <1>1, <1>9 DEF SettingsHold, SetValues
<1>15. ClearedValues'
  <2> SUFFICES ASSUME NEW o \in Sound, NEW f \in Fields, accepted[f] = Blank, objects[o][f] # Blank,
                      ~readOnly \/ (f \in Storable /\ Certain(f)')
               PROVE  objects[o][f] = Weaker'[f]
    BY <1>1, <1>6, <1>9 DEF ClearedValues
  <2>1. CASE ~readOnly
    BY <1>6, <2>1 DEF SettingsHold, ClearedValues
  <2>2. CASE readOnly
    <3>1. f \in Storable /\ f \notin unsure'
      BY <2>2 DEF Certain
    <3>2. o = mine /\ f \notin SecretFields
      BY <1>3, <1>10, <2>2, <3>1 DEF Storable
    <3> QED
      BY <1>11, <1>12, <2>2, <3>1, <3>2
  <2> QED
    BY <2>1, <2>2
<1>16. FixedValues'
  <2> SUFFICES ASSUME NEW o \in Sound, NEW f \in Fields \ (Storable \cup unsure' \cup Touched')
               PROVE  objects[o][f] = Loaded'[f]
    BY <1>1, <1>6, <1>9 DEF FixedValues
  <2> QED
    BY <1>6, <1>7, <1>10 DEF SettingsHold, FixedValues
<1>17. FixedTell'
  <2> SUFFICES ASSUME NEW f \in Fields \ (Storable \cup unsure' \cup Touched')
               PROVE  /\ accepted[f] # Blank => Loaded'[f] = accepted[f]
                      /\ f \in SecretFields /\ accepted[f] = Blank => Loaded'[f] = Weaker'[f]
    BY <1>1, <1>6 DEF FixedTell
  <2> QED
    BY <1>6, <1>7, <1>10 DEF SettingsHold, FixedTell
<1>18. FilesTell'
  <2> SUFFICES ASSUME NEW f \in Fields, Certain(f)'
               PROVE  Loaded'[f] = IF accepted[f] = Blank THEN Weaker'[f] ELSE accepted[f]
    BY <1>1 DEF FilesTell
  <2>1. f \notin unsure' /\ f \notin Touched'
    BY <1>8 DEF Certain
  <2>2. mine \in Sound
    BY <1>3, <1>10, <2>1
  <2>3. accepted[f] # Blank => objects[mine][f] = accepted[f]
    BY <2>2 DEF SettingsHold, SetValues
  <2>4. CASE ~readOnly
    <3>1. accepted[f] = Blank /\ objects[mine][f] # Blank => objects[mine][f] = Weaker[f]
      BY <2>2, <2>4 DEF SettingsHold, ClearedValues
    <3> QED
      BY <1>6, <1>11, <1>12, <2>1, <2>3, <2>4, <3>1
  <2>5. CASE readOnly /\ f \in Storable
    <3>1. runtimeFile[f] = Blank /\ f \notin SecretFields
      BY <2>5 DEF Storable
    <3> QED
      BY <1>11, <1>12, <2>1, <2>3, <2>5, <3>1
  <2>6. CASE readOnly /\ f \notin Storable
    <3>1. f \notin unsure /\ f \notin Touched /\ Loaded'[f] = Loaded[f]
      BY <1>6, <1>7, <1>10, <2>1, <2>6
    <3>2. /\ accepted[f] # Blank => Loaded[f] = accepted[f]
          /\ f \in SecretFields /\ accepted[f] = Blank => Loaded[f] = Weaker[f]
      BY <2>6, <3>1 DEF SettingsHold, FixedTell
    <3>3. f \notin SecretFields => runtimeFile[f] # Blank /\ objects[mine][f] = Loaded[f]
      BY <2>2, <2>6, <3>1 DEF SettingsHold, FixedValues, Storable
    <3>4. f \notin SecretFields => Loaded[f] # Blank
      BY <3>3, LoadedAt
    <3> QED
      BY <1>6, <1>11, <1>12, <2>1, <2>6, <3>1, <3>2, <3>3, <3>4
  <2> QED
    BY <2>4, <2>5, <2>6
<1>19. BrowserTells'
  <2>1. "browser" \in Fields /\ "browser" \notin SecretFields
    BY SettingsAssumption DEF Fields
  <2>2. ASSUME Certain("browser")' PROVE Loaded'["browser"] = accepted["browser"]
    <3>1. "browser" \notin unsure'
      BY <2>2 DEF Certain
    <3>2. CASE accepted["browser"] # Blank
      BY <1>1, <1>18, <2>1, <2>2, <3>2 DEF FilesTell
    <3>3. CASE accepted["browser"] = Blank
      <4>1. objects[mine]["browser"] = Blank
        BY <1>3, <1>10, <2>1, <3>1, <3>3 DEF SettingsHold, BrowserTells
      <4> QED
        BY <1>5, <1>11, <1>12, <2>1, <3>1, <3>3, <4>1 DEF SettingsHold, BrowserTells
    <3> QED
      BY <3>2, <3>3
  <2> QED
    BY <1>1, <1>5, <1>9, <2>2 DEF SettingsHold, BrowserTells
<1> QED
  BY <1>5, <1>13, <1>14, <1>15, <1>16, <1>17, <1>18, <1>19 DEF SettingsHold

LEMMA FirstObject == 1 \in Objects
<1>1. Cardinality(Editors) \in Nat
  BY SettingsAssumption, FS_CardinalityType
<1> QED
  BY <1>1 DEF Objects

LEMMA InitHolds ==
  ASSUME SettingsInit
  PROVE  SettingsHold
<1>1. /\ baseFile = Shipped /\ inForce = 1 /\ accepted = Loaded /\ spoiled = {} /\ objects[1] = Loaded
      /\ \A q \in Editors : editStage[q] = "idle" /\ inHand[q] = NoObject
  BY FirstObject DEF SettingsInit, Idle
<1>2. Sound \subseteq {1}
  BY <1>1 DEF Sound, InUse
<1>3. OneSaver
  BY <1>1 DEF OneSaver
<1>4. SetValues /\ FixedValues /\ ClearedValues
  BY <1>1, <1>2 DEF SetValues, FixedValues, ClearedValues
<1>5. FilesTell /\ FixedTell
  BY <1>1, LoadedAt DEF FilesTell, FixedTell, Fields
<1>6. BrowserTells
  <2>1. "browser" \in Fields
    BY SettingsAssumption DEF Fields
  <2>2. \A o \in Sound : objects[o]["browser"] = accepted["browser"]
    BY <1>1, <1>2
  <2> QED
    BY <1>1, <2>1, <2>2, LoadedAt DEF BrowserTells
<1>7. SecretsKept
  BY <1>1, SettingsAssumption DEF SecretsKept
<1> QED
  BY <1>3, <1>4, <1>5, <1>6, <1>7 DEF SettingsHold

LEMMA RestartHolds ==
  ASSUME SettingsTyped, SettingsHold, SettingsRestart
  PROVE  SettingsHold'
<1> DEFINE lost == IF BeingWritten THEN Fields ELSE unsure \cup Changing
<1>1. /\ accepted' = [f \in Fields |-> IF f \in lost THEN Loaded[f] ELSE accepted[f]]
      /\ inForce' = 1 /\ unsure' = {} /\ spoiled' = {} /\ objects'[1] = Loaded
      /\ \A q \in Editors : editStage'[q] = "idle" /\ inHand'[q] = NoObject
      /\ UNCHANGED <<runtimeFile, baseFile>>
  BY FirstObject DEF SettingsRestart, Idle, files
<1>2. \A f \in Fields : f \notin lost => Certain(f)
  BY DEF Certain
<1> HIDE DEF lost
<1>3. Weaker' = Weaker /\ Loaded' = Loaded
  BY <1>1 DEF Weaker, Loaded, Over
<1>4. Sound' \subseteq {1}
  BY <1>1 DEF Sound, InUse
<1>5. \A f \in Fields : Loaded[f] = IF accepted'[f] = Blank THEN Weaker[f] ELSE accepted'[f]
  BY <1>1, <1>2, LoadedAt DEF SettingsHold, FilesTell
<1>6. \A f \in Fields : accepted'[f] = Loaded[f] \/ (accepted'[f] = Blank /\ Loaded[f] = Weaker[f])
  BY <1>5
<1>7. OneSaver'
  BY <1>1 DEF OneSaver
<1>8. SetValues' /\ FixedValues'
  BY <1>1, <1>3, <1>4, <1>5 DEF SetValues, FixedValues
<1>9. ClearedValues'
  BY <1>1, <1>3, <1>4, <1>5 DEF ClearedValues
<1>10. FilesTell' /\ FixedTell'
  BY <1>3, <1>5 DEF FilesTell, FixedTell, Fields
<1>11. BrowserTells'
  <2>1. "browser" \in Fields
    BY SettingsAssumption DEF Fields
  <2>2. accepted'["browser"] = Loaded["browser"]
    BY <1>1, <1>2, <2>1 DEF SettingsHold, BrowserTells
  <2>3. \A o \in Sound' : objects'[o]["browser"] = accepted'["browser"]
    BY <1>1, <1>4, <2>2
  <2> QED
    BY <1>1, <1>3, <2>1, <2>2, <2>3, LoadedAt DEF BrowserTells
<1>12. SecretsKept'
  BY <1>1 DEF SettingsHold, SecretsKept
<1> QED
  BY <1>7, <1>8, <1>9, <1>10, <1>11, <1>12 DEF SettingsHold

-----------------------------------------------------------------------------
\* The same types, by what they are about.
EditorsTyped ==
  /\ request \in [Editors -> SettingsRequests] /\ editStage \in [Editors -> EditStages]
  /\ inHand \in [Editors -> Objects \cup {NoObject}] /\ text \in [Editors -> Layer]
  /\ \A q \in Editors :
       /\ editStage[q] \in EditStages \ {"idle", "take"} => inHand[q] \in Objects
       /\ editStage[q] \in {"edit", "save", "write", "reset", "bridge", "over"} => request[q].kind # "get"
LayersTyped ==
  /\ runtimeFile \in Layer /\ baseFile \in Layer /\ objects \in [Objects -> Layer]
  /\ inForce \in Objects \cup {NoObject} /\ updates \in 0..MaxUpdates
  /\ readOnly \in BOOLEAN /\ bridgeSpoiled \in BOOLEAN
  /\ unsure \subseteq Fields /\ spoiled \subseteq Objects /\ accepted \in Layer

LEMMA TypedParts == SettingsTyped <=> EditorsTyped /\ LayersTyped
<1>1. SettingsTyped => EditorsTyped
  BY DEF SettingsTyped, SettingsTypeOK, EditorsTyped, EditStages
<1>2. SettingsTyped => LayersTyped
  BY DEF SettingsTyped, SettingsTypeOK, LayersTyped
<1>3. EditorsTyped /\ LayersTyped => SettingsTyped
  BY DEF SettingsTyped, SettingsTypeOK, EditorsTyped, LayersTyped, EditStages
<1> QED
  BY <1>1, <1>2, <1>3

LEMMA TypedAgain == EditorsTyped' /\ LayersTyped' => SettingsTyped'
BY DEF SettingsTyped, SettingsTypeOK, EditorsTyped, LayersTyped, EditStages

\* One editor goes on to another stage.
LEMMA EditorMoves ==
  ASSUME EditorsTyped, NEW q \in Editors, NEW stage \in EditStages,
         NEW hand \in Objects \cup {NoObject}, NEW r \in SettingsRequests, NEW t \in Layer,
         editStage' = [editStage EXCEPT ![q] = stage], inHand' = [inHand EXCEPT ![q] = hand],
         request' = [request EXCEPT ![q] = r], text' = [text EXCEPT ![q] = t],
         stage \notin {"idle", "take"} => hand \in Objects,
         stage \in {"edit", "save", "write", "reset", "bridge", "over"} => r.kind # "get"
  PROVE  EditorsTyped'
<1>1. /\ request \in [Editors -> SettingsRequests] /\ editStage \in [Editors -> EditStages]
      /\ inHand \in [Editors -> Objects \cup {NoObject}] /\ text \in [Editors -> Layer]
  BY DEF EditorsTyped
<1>2. /\ request' \in [Editors -> SettingsRequests] /\ editStage' \in [Editors -> EditStages]
      /\ inHand' \in [Editors -> Objects \cup {NoObject}] /\ text' \in [Editors -> Layer]
  BY <1>1
<1>3. /\ editStage'[q] = stage /\ inHand'[q] = hand /\ request'[q] = r
      /\ \A e \in Editors : e # q => editStage'[e] = editStage[e] /\ inHand'[e] = inHand[e] /\ request'[e] = request[e]
  BY <1>1
<1>4. \A e \in Editors :
        /\ editStage'[e] \in EditStages \ {"idle", "take"} => inHand'[e] \in Objects
        /\ editStage'[e] \in {"edit", "save", "write", "reset", "bridge", "over"} => request'[e].kind # "get"
  BY <1>3 DEF EditorsTyped
<1> QED
  BY <1>2, <1>4 DEF EditorsTyped

\* What a step leaves alone, it sets to what it is.
LEMMA SameInHand ==
  ASSUME EditorsTyped, NEW q \in Editors
  PROVE  /\ inHand = [inHand EXCEPT ![q] = inHand[q]] /\ inHand[q] \in Objects \cup {NoObject}
         /\ request = [request EXCEPT ![q] = request[q]] /\ request[q] \in SettingsRequests
         /\ text = [text EXCEPT ![q] = text[q]] /\ text[q] \in Layer
         /\ editStage[q] \notin {"idle", "take"} => inHand[q] \in Objects
         /\ editStage[q] \in {"edit", "save", "write", "reset", "bridge", "over"} => request[q].kind # "get"
<1>1. /\ request \in [Editors -> SettingsRequests] /\ editStage \in [Editors -> EditStages]
      /\ inHand \in [Editors -> Objects \cup {NoObject}] /\ text \in [Editors -> Layer]
  BY DEF EditorsTyped
<1>2. editStage[q] \in EditStages
  BY <1>1
<1> QED
  BY <1>1, <1>2 DEF EditorsTyped

LEMMA AnswerTyped ==
  ASSUME EditorsTyped, NEW q \in Editors, Answer(q)
  PROVE  EditorsTyped'
<1>1. Get \in SettingsRequests /\ Empty \in Layer /\ "idle" \in EditStages /\ NoObject \in Objects \cup {NoObject}
  BY LayersKept DEF SettingsRequests, EditStages
<1>2. /\ editStage' = [editStage EXCEPT ![q] = "idle"] /\ inHand' = [inHand EXCEPT ![q] = NoObject]
      /\ request' = [request EXCEPT ![q] = Get] /\ text' = [text EXCEPT ![q] = Empty]
  BY DEF Answer
<1> QED
  BY <1>1, <1>2, EditorMoves

\* Objects that nobody refers to any more are dropped.
LEMMA DroppedTyped ==
  ASSUME LayersTyped, NEW gone, Dropped(gone)
  PROVE  objects' \in [Objects -> Layer] /\ spoiled' \subseteq Objects
BY LayersKept DEF LayersTyped, Dropped

LEMMA DroppedHolds ==
  ASSUME SettingsTyped, SettingsHold, NEW gone, Dropped(gone),
         InUse' \subseteq InUse \cup {NoObject}, gone \cap InUse' \subseteq {NoObject},
         UNCHANGED <<runtimeFile, baseFile, readOnly, accepted, unsure>>,
         \A q \in Editors :
           /\ editStage'[q] = "save" <=> editStage[q] = "save"
           /\ editStage'[q] = "write" <=> editStage[q] = "write"
           /\ editStage[q] \in {"save", "write"} => request'[q] = request[q] /\ inHand'[q] = inHand[q]
  PROVE  SettingsHold'
<1>1. objects' \in [Objects -> Layer]
  BY TypedParts, DroppedTyped
<1>2. InUse \subseteq Objects \cup {NoObject}
  BY DEF InUse, SettingsTyped, SettingsTypeOK
<1>3. \A o \in Sound' : o \in Sound /\ objects'[o] = objects[o]
  <2> TAKE o \in Sound'
  <2>1. o \in InUse' /\ o # NoObject /\ o \notin spoiled'
    BY DEF Sound
  <2>2. o \in InUse /\ o \notin gone /\ o \in Objects
    BY <1>2, <2>1
  <2>3. o \notin spoiled /\ objects'[o] = objects[o]
    BY <2>1, <2>2 DEF Dropped
  <2> QED
    BY <2>1, <2>2, <2>3 DEF Sound
<1> QED
  BY <1>1, <1>3, QuietKeeps

\* An answered request lets go of its object.
LEMMA AnswerHolds ==
  ASSUME SettingsTyped, SettingsHold, NEW q \in Editors, editStage[q] \notin {"save", "write"},
         Answer(q), Dropped(OnlyHeldBy(q)),
         UNCHANGED <<runtimeFile, baseFile, readOnly, inForce, accepted, unsure>>
  PROVE  SettingsHold'
<1>1. /\ editStage' = [editStage EXCEPT ![q] = "idle"] /\ inHand' = [inHand EXCEPT ![q] = NoObject]
      /\ request' = [request EXCEPT ![q] = Get]
      /\ request \in [Editors -> SettingsRequests] /\ editStage \in [Editors -> EditStages]
      /\ inHand \in [Editors -> Objects \cup {NoObject}]
  BY DEF Answer, SettingsTyped
<1>2. /\ editStage'[q] = "idle" /\ inHand'[q] = NoObject
      /\ \A e \in Editors : e # q => editStage'[e] = editStage[e] /\ inHand'[e] = inHand[e] /\ request'[e] = request[e]
  BY <1>1
<1>3. InUse' \subseteq InUse \cup {NoObject}
  BY <1>2 DEF InUse
<1>4. OnlyHeldBy(q) \cap InUse' \subseteq {NoObject}
  BY <1>2 DEF InUse, OnlyHeldBy
<1> QED
  BY <1>2, <1>3, <1>4, DroppedHolds

LEMMA AskHolds ==
  ASSUME SettingsTyped, SettingsHold, NEW q \in Editors, NEW r \in SettingsRequests, AskSettings(q, r)
  PROVE  SettingsHold' /\ SettingsTyped'
<1>1. /\ editStage[q] = "idle" /\ (r # Get => updates < MaxUpdates)
      /\ updates' = IF r = Get THEN updates ELSE updates + 1
      /\ request' = [request EXCEPT ![q] = r]
      /\ UNCHANGED <<runtimeFile, baseFile, readOnly, bridge, inForce, text, accepted, unsure, bridgeSpoiled>>
  BY DEF AskSettings, files
<1>2. /\ request \in [Editors -> SettingsRequests] /\ editStage \in [Editors -> EditStages]
      /\ inHand \in [Editors -> Objects \cup {NoObject}] /\ objects \in [Objects -> Layer]
      /\ inForce \in Objects \cup {NoObject} /\ spoiled \subseteq Objects
      /\ EditorsTyped /\ LayersTyped
  BY TypedParts DEF SettingsTyped, SettingsTypeOK
<1>3. updates' \in 0..MaxUpdates
  BY <1>1, <1>2, SettingsAssumption DEF LayersTyped
<1>4. text[q] \in Layer /\ text' = [text EXCEPT ![q] = text[q]]
  BY <1>1, <1>2, SameInHand
<1>5. \A e \in Editors : e # q => request'[e] = request[e]
  BY <1>1, <1>2
<1>6. CASE inForce # NoObject
  <2>1. editStage' = [editStage EXCEPT ![q] = "take"] /\ UNCHANGED <<objects, inHand, spoiled>>
    BY <1>6 DEF AskSettings
  <2>2. \A e \in Editors : editStage'[e] = IF e = q THEN "take" ELSE editStage[e]
    BY <1>2, <2>1
  <2>3. Sound' = Sound
    BY <1>1, <2>1 DEF Sound, InUse
  <2>4. SettingsHold'
    BY <1>1, <1>2, <1>5, <2>1, <2>2, <2>3, QuietKeeps
  <2>5. EditorsTyped'
    <3>1. /\ "take" \in EditStages /\ inHand[q] \in Objects \cup {NoObject}
          /\ inHand' = [inHand EXCEPT ![q] = inHand[q]]
      BY <1>2, <2>1, SameInHand DEF EditStages
    <3> QED
      BY <1>1, <1>2, <1>4, <2>1, <3>1, EditorMoves
  <2>6. LayersTyped'
    BY <1>1, <1>2, <1>3, <2>1 DEF LayersTyped
  <2>7. SettingsTyped'
    BY <2>5, <2>6, TypedAgain
  <2> QED
    BY <2>4, <2>7
<1>7. CASE inForce = NoObject
  <2>1. PICK o \in Objects \ InUse :
          /\ objects' = [objects EXCEPT ![o] = Loaded] /\ inHand' = [inHand EXCEPT ![q] = o]
          /\ spoiled' = IF Saving \/ unsure # {} THEN spoiled \cup {o} ELSE spoiled
          /\ editStage' = [editStage EXCEPT ![q] = "assign"]
    <3> DEFINE o == CHOOSE i \in Objects \ InUse : TRUE
    <3>1. o \in Objects \ InUse
      BY <1>2, <1>7, RoomForOne
    <3>2. /\ objects' = [objects EXCEPT ![o] = Loaded] /\ inHand' = [inHand EXCEPT ![q] = o]
          /\ spoiled' = IF Saving \/ unsure # {} THEN spoiled \cup {o} ELSE spoiled
          /\ editStage' = [editStage EXCEPT ![q] = "assign"]
      BY <1>7 DEF AskSettings
    <3> HIDE DEF o
    <3> QED
      BY <3>1, <3>2
  <2>2. /\ \A e \in Editors : editStage'[e] = IF e = q THEN "assign" ELSE editStage[e]
        /\ \A e \in Editors : inHand'[e] = IF e = q THEN o ELSE inHand[e]
    BY <1>2, <2>1
  <2>3. Loaded \in Layer /\ objects' \in [Objects -> Layer]
    BY <1>2, <2>1, LoadedTyped DEF LayersTyped
  <2>4. \A x \in Sound' : \/ x \in Sound /\ objects'[x] = objects[x]
                          \/ ~Saving /\ unsure = {} /\ objects'[x] = Loaded
    <3> TAKE x \in Sound'
    <3>1. x \in InUse' /\ x # NoObject /\ x \notin spoiled'
      BY DEF Sound
    <3>2. x = o \/ x \in InUse
      BY <1>1, <2>2, <3>1 DEF InUse
    <3>3. CASE x = o
      BY <1>2, <2>1, <3>1, <3>3
    <3>4. CASE x # o
      BY <1>2, <2>1, <3>1, <3>2, <3>4 DEF Sound
    <3> QED
      BY <3>3, <3>4
  <2>5. SettingsHold'
    BY <1>1, <1>5, <2>2, <2>3, <2>4, QuietKeeps
  <2>6. EditorsTyped'
    <3>1. "assign" \in EditStages
      BY DEF EditStages
    <3> QED
      BY <1>1, <1>2, <1>4, <2>1, <3>1, EditorMoves
  <2>7. LayersTyped'
    BY <1>1, <1>2, <1>3, <2>1, <2>3 DEF LayersTyped
  <2>8. SettingsTyped'
    BY <2>6, <2>7, TypedAgain
  <2> QED
    BY <2>5, <2>8
<1> QED
  BY <1>6, <1>7

\* Whoever puts settings goes through all of the stages, or asks for more.
LEMMA BridgeStays ==
  ASSUME BridgeTells, UNCHANGED <<bridge, bridgeSpoiled, accepted>>,
         \A q \in Editors :
           editStage[q] \in {"save", "write", "reset", "bridge"} /\ request[q].kind = "put" =>
             editStage'[q] \in {"save", "write", "reset", "bridge"} /\ request'[q].kind = "put"
  PROVE  BridgeTells'
BY DEF BridgeTells, NoPut

LEMMA AnsweredKeeps ==
  ASSUME SettingsInv, NEW q \in Editors, editStage[q] \in EditStages \ {"save", "write"},
         Answer(q), Dropped(OnlyHeldBy(q)),
         UNCHANGED <<runtimeFile, baseFile, readOnly, updates, inForce, accepted, unsure>>,
         bridgeSpoiled' \in BOOLEAN
  PROVE  SettingsHold' /\ SettingsTyped'
<1>1. SettingsTyped /\ SettingsHold /\ EditorsTyped /\ LayersTyped
  BY TypedParts DEF SettingsInv
<1>2. SettingsHold'
  BY <1>1, AnswerHolds
<1>3. EditorsTyped'
  BY <1>1, AnswerTyped
<1>4. objects' \in [Objects -> Layer] /\ spoiled' \subseteq Objects
  BY <1>1, DroppedTyped
<1>5. LayersTyped'
  BY <1>1, <1>4 DEF LayersTyped
<1> QED
  BY <1>2, <1>3, <1>5, TypedAgain

LEMMA AskedKeeps ==
  ASSUME SettingsInv, NEW q \in Editors, NEW r \in SettingsRequests, AskSettings(q, r)
  PROVE  SettingsInv'
<1>1. SettingsHold' /\ SettingsTyped'
  BY AskHolds DEF SettingsInv
<1>2. /\ editStage[q] = "idle" /\ request' = [request EXCEPT ![q] = r]
      /\ UNCHANGED <<bridge, bridgeSpoiled, accepted>>
      /\ editStage' = [editStage EXCEPT ![q] = "take"] \/ editStage' = [editStage EXCEPT ![q] = "assign"]
  BY DEF AskSettings
<1>3. editStage \in [Editors -> EditStages] /\ request \in [Editors -> SettingsRequests]
  BY DEF SettingsInv, SettingsTyped
<1>4. \A e \in Editors : e # q => editStage'[e] = editStage[e] /\ request'[e] = request[e]
  BY <1>2, <1>3
<1>5. BridgeTells'
  BY <1>2, <1>4, BridgeStays DEF SettingsInv
<1> QED
  BY <1>1, <1>5 DEF SettingsInv

\* reset_settings_cache, or another object put in its place
LEMMA AssignKeeps ==
  ASSUME SettingsInv, NEW q \in Editors, AssignSettings(q) \/ ResetSettings(q)
  PROVE  SettingsInv'
<1> DEFINE gone == {inForce} \ ({inHand[e] : e \in Editors} \cup {NoObject})
<1>1. /\ SettingsTyped /\ SettingsHold /\ BridgeTells /\ EditorsTyped /\ LayersTyped
      /\ editStage \in [Editors -> EditStages]
  BY TypedParts DEF SettingsInv, SettingsTyped
<1>2. PICK stage \in {"take", "bridge"} :
        /\ editStage' = [editStage EXCEPT ![q] = stage] /\ Dropped(gone)
        /\ inForce' \in {inHand[q], NoObject} /\ inForce' \in Objects \cup {NoObject}
        /\ stage = "bridge" => inHand[q] \in Objects /\ request[q].kind # "get"
        /\ editStage[q] \notin {"save", "write"}
        /\ editStage[q] = "reset" <=> stage = "bridge"
        /\ editStage[q] # "bridge"
        /\ UNCHANGED <<runtimeFile, baseFile, readOnly, updates, bridge, request, inHand, text, accepted, unsure, bridgeSpoiled>>
  <2>1. CASE AssignSettings(q)
    <3>1. /\ editStage[q] = "assign" /\ editStage' = [editStage EXCEPT ![q] = "take"] /\ Dropped(gone)
          /\ inForce' = inHand[q]
          /\ UNCHANGED <<runtimeFile, baseFile, readOnly, updates, bridge, request, inHand, text, accepted, unsure, bridgeSpoiled>>
      BY <2>1 DEF AssignSettings, files
    <3>2. inHand[q] \in Objects
      BY <3>1 DEF EditorsTyped, EditStages, SettingsInv, SettingsTyped
    <3> QED
      BY <3>1, <3>2
  <2>2. CASE ResetSettings(q)
    <3>1. /\ editStage[q] = "reset" /\ editStage' = [editStage EXCEPT ![q] = "bridge"] /\ Dropped(gone)
          /\ inForce' = NoObject
          /\ UNCHANGED <<runtimeFile, baseFile, readOnly, updates, bridge, request, inHand, text, accepted, unsure, bridgeSpoiled>>
      BY <2>2 DEF ResetSettings, files
    <3>2. inHand[q] \in Objects /\ request[q].kind # "get"
      BY <1>1, <3>1 DEF SettingsTyped, SettingsTypeOK
    <3> QED
      BY <3>1, <3>2
  <2> QED
    BY <2>1, <2>2
<1>3. \A e \in Editors : editStage'[e] = IF e = q THEN stage ELSE editStage[e]
  BY <1>1, <1>2
<1>4. InUse' \subseteq InUse \cup {NoObject}
  BY <1>2 DEF InUse
<1>5. gone \cap InUse' \subseteq {NoObject}
  BY <1>2 DEF InUse
<1> HIDE DEF gone
<1>6. SettingsHold'
  BY <1>1, <1>2, <1>3, <1>4, <1>5, DroppedHolds
<1>7. EditorsTyped'
  <2>1. stage \in EditStages
    BY DEF EditStages
  <2>2. /\ inHand' = [inHand EXCEPT ![q] = inHand[q]] /\ inHand[q] \in Objects \cup {NoObject}
        /\ request' = [request EXCEPT ![q] = request[q]] /\ request[q] \in SettingsRequests
        /\ text' = [text EXCEPT ![q] = text[q]] /\ text[q] \in Layer
    BY <1>1, <1>2, SameInHand
  <2>3. /\ stage \notin {"idle", "take"} => inHand[q] \in Objects
        /\ stage \in {"edit", "save", "write", "reset", "bridge", "over"} => request[q].kind # "get"
    BY <1>2
  <2>4. editStage' = [editStage EXCEPT ![q] = stage]
    BY <1>2
  <2> QED
    BY <1>1, <2>1, <2>2, <2>3, <2>4, EditorMoves
<1>8. objects' \in [Objects -> Layer] /\ spoiled' \subseteq Objects
  BY <1>1, <1>2, DroppedTyped
<1>9. LayersTyped'
  BY <1>1, <1>2, <1>8 DEF LayersTyped
<1>10. SettingsTyped'
  BY <1>7, <1>9, TypedAgain
<1>11. BridgeTells'
  BY <1>1, <1>2, <1>3, BridgeStays
<1> QED
  BY <1>6, <1>10, <1>11 DEF SettingsInv

LEMMA AnswerLeaves ==
  ASSUME SettingsInv, NEW q \in Editors, Answer(q), editStage[q] # "bridge",
         editStage[q] \notin {"save", "write", "reset"},
         UNCHANGED <<bridge, bridgeSpoiled, accepted>>
  PROVE  BridgeTells'
<1>1. editStage \in [Editors -> EditStages] /\ request \in [Editors -> SettingsRequests]
  BY DEF SettingsInv, SettingsTyped
<1>2. \A e \in Editors : e # q => editStage'[e] = editStage[e] /\ request'[e] = request[e]
  BY <1>1 DEF Answer
<1> QED
  BY <1>2, BridgeStays DEF SettingsInv

LEMMA TakeKeeps ==
  ASSUME SettingsInv, NEW q \in Editors, TakeSettings(q)
  PROVE  SettingsInv'
<1>1. /\ editStage[q] = "take" /\ Dropped(OnlyHeldBy(q))
      /\ UNCHANGED <<runtimeFile, baseFile, readOnly, updates, bridge, inForce, accepted, unsure, bridgeSpoiled>>
  BY DEF TakeSettings, files
<1>2. /\ SettingsTyped /\ SettingsHold /\ BridgeTells /\ EditorsTyped /\ LayersTyped
      /\ editStage \in [Editors -> EditStages] /\ inHand \in [Editors -> Objects \cup {NoObject}]
      /\ request \in [Editors -> SettingsRequests]
  BY TypedParts DEF SettingsInv, SettingsTyped
<1>3. CASE inForce = NoObject \/ request[q].kind = "get"
  <2>1. Answer(q)
    BY <1>3 DEF TakeSettings
  <2>2. editStage[q] \in EditStages \ {"save", "write"} /\ bridgeSpoiled' \in BOOLEAN
    BY <1>1, <1>2 DEF LayersTyped
  <2>3. SettingsHold' /\ SettingsTyped'
    BY <1>1, <2>1, <2>2, AnsweredKeeps
  <2>4. BridgeTells'
    BY <1>1, <2>1, AnswerLeaves
  <2> QED
    BY <2>3, <2>4 DEF SettingsInv
<1>4. CASE ~(inForce = NoObject \/ request[q].kind = "get")
  <2>1. /\ inHand' = [inHand EXCEPT ![q] = inForce] /\ editStage' = [editStage EXCEPT ![q] = "edit"]
        /\ UNCHANGED <<request, text>>
    BY <1>4 DEF TakeSettings
  <2>2. /\ \A e \in Editors : editStage'[e] = IF e = q THEN "edit" ELSE editStage[e]
        /\ \A e \in Editors : inHand'[e] = IF e = q THEN inForce ELSE inHand[e]
    BY <1>2, <2>1
  <2>3. InUse' \subseteq InUse \cup {NoObject}
    BY <1>1, <2>2 DEF InUse
  <2>4. OnlyHeldBy(q) \cap InUse' \subseteq {NoObject}
    BY <1>1, <2>2 DEF InUse, OnlyHeldBy
  <2>5. SettingsHold'
    BY <1>1, <1>2, <2>1, <2>2, <2>3, <2>4, DroppedHolds
  <2>6. EditorsTyped'
    <3>1. /\ "edit" \in EditStages /\ inForce \in Objects /\ inForce \in Objects \cup {NoObject}
          /\ request' = [request EXCEPT ![q] = request[q]] /\ request[q] \in SettingsRequests
          /\ text' = [text EXCEPT ![q] = text[q]] /\ text[q] \in Layer /\ request[q].kind # "get"
      BY <1>2, <1>4, <2>1, SameInHand DEF EditStages, LayersTyped
    <3>2. /\ "edit" \notin {"idle", "take"} => inForce \in Objects
          /\ "edit" \in {"edit", "save", "write", "reset", "bridge", "over"} => request[q].kind # "get"
      BY <3>1
    <3>3. /\ editStage' = [editStage EXCEPT ![q] = "edit"] /\ inHand' = [inHand EXCEPT ![q] = inForce]
          /\ EditorsTyped
      BY <1>2, <2>1
    <3> QED
      BY <3>1, <3>2, <3>3, EditorMoves
  <2>7. objects' \in [Objects -> Layer] /\ spoiled' \subseteq Objects
    BY <1>1, <1>2, DroppedTyped
  <2>8. LayersTyped'
    BY <1>1, <1>2, <2>7 DEF LayersTyped
  <2>9. SettingsTyped'
    BY <2>6, <2>8, TypedAgain
  <2>10. BridgeTells'
    BY <1>1, <1>2, <2>1, <2>2, BridgeStays
  <2> QED
    BY <2>5, <2>9, <2>10 DEF SettingsInv
<1> QED
  BY <1>3, <1>4

LEMMA NoCatalogKeeps ==
  ASSUME SettingsInv, NEW q \in Editors, NoCatalog(q) \/ CatalogSaved(q)
  PROVE  SettingsInv'
<1>1. /\ editStage[q] \in {"edit", "over"} /\ Answer(q) /\ Dropped(OnlyHeldBy(q))
      /\ UNCHANGED <<runtimeFile, baseFile, readOnly, updates, bridge, inForce, accepted, unsure, bridgeSpoiled>>
  BY DEF NoCatalog, CatalogSaved, files
<1>2. bridgeSpoiled' \in BOOLEAN /\ editStage[q] \in EditStages \ {"save", "write"}
  BY <1>1, TypedParts DEF SettingsInv, LayersTyped, EditStages
<1>3. SettingsHold' /\ SettingsTyped'
  BY <1>1, <1>2, AnsweredKeeps
<1>4. BridgeTells'
  BY <1>1, AnswerLeaves
<1> QED
  BY <1>3, <1>4 DEF SettingsInv

\* The bridge gets what was accepted, if it is from an object that has it.
LEMMA WriteBridgeKeeps ==
  ASSUME SettingsInv, NEW q \in Editors, WriteBridge(q)
  PROVE  SettingsInv'
<1>1. /\ editStage[q] = "bridge" /\ Answer(q) /\ Dropped(OnlyHeldBy(q))
      /\ bridge' = objects[inHand[q]]["browser"] /\ bridgeSpoiled' = (inHand[q] \in spoiled)
      /\ UNCHANGED <<runtimeFile, baseFile, readOnly, updates, inForce, accepted, unsure>>
  BY DEF WriteBridge, files
<1>2. bridgeSpoiled' \in BOOLEAN /\ editStage[q] \in EditStages \ {"save", "write"}
  BY <1>1 DEF EditStages
<1>3. SettingsHold' /\ SettingsTyped'
  BY <1>1, <1>2, AnsweredKeeps
<1>4. BridgeTells'
  <2>1. inHand[q] \in Objects /\ inHand[q] # NoObject
    BY <1>1, ObjectsAre DEF SettingsInv, SettingsTyped, SettingsTypeOK
  <2>2. ~bridgeSpoiled' => inHand[q] \in Sound
    BY <1>1, <2>1 DEF Sound, InUse
  <2>3. ~bridgeSpoiled' => bridge' = accepted["browser"]
    BY <1>1, <2>2 DEF SettingsInv, SettingsHold, BrowserTells
  <2> QED
    BY <1>1, <2>3 DEF BridgeTells
<1> QED
  BY <1>3, <1>4 DEF SettingsInv

LEMMA RefuseKeeps ==
  ASSUME SettingsInv, NEW q \in Editors, Refuse(q)
  PROVE  SettingsInv'
<1>1. /\ editStage[q] = "edit" /\ Answer(q)
      /\ UNCHANGED <<runtimeFile, baseFile, readOnly, updates, bridge, inForce, accepted, unsure, bridgeSpoiled>>
  BY DEF Refuse, files
<1>2. /\ SettingsTyped /\ SettingsHold /\ BridgeTells /\ EditorsTyped /\ LayersTyped
      /\ editStage[q] \in EditStages \ {"save", "write"} /\ bridgeSpoiled' \in BOOLEAN
      /\ editStage \in [Editors -> EditStages] /\ inHand \in [Editors -> Objects \cup {NoObject}]
      /\ request \in [Editors -> SettingsRequests]
  BY <1>1, TypedParts DEF SettingsInv, SettingsTyped, LayersTyped, EditStages
<1>3. inHand[q] \in Objects
  BY <1>1 DEF SettingsInv, SettingsTyped, SettingsTypeOK
<1>4. BridgeTells'
  BY <1>1, AnswerLeaves
<1>5. CASE inHand[q] \in OnlyHeldBy(q)
  <2>1. OnlyHeldBy(q) = {inHand[q]}
    BY <1>5 DEF OnlyHeldBy
  <2>2. Dropped(OnlyHeldBy(q))
    BY <1>5, <2>1 DEF Refuse
  <2>3. SettingsHold' /\ SettingsTyped'
    BY <1>1, <1>2, <2>2, AnsweredKeeps
  <2> QED
    BY <1>4, <2>3 DEF SettingsInv
<1>6. CASE inHand[q] \notin OnlyHeldBy(q)
  <2> DEFINE mine == inHand[q]
  <2>1. /\ objects' = [objects EXCEPT ![mine] = With(@, request[q].set)] /\ spoiled' = spoiled \cup {mine}
    BY <1>6 DEF Refuse
  <2> HIDE DEF mine
  <2>2. With(objects[mine], request[q].set) \in Layer
    BY <1>2, <1>3, RequestShape, LayersKept DEF LayersTyped, mine
  <2>3. objects' \in [Objects -> Layer] /\ spoiled' \subseteq Objects
    BY <1>2, <1>3, <2>1, <2>2 DEF LayersTyped, mine
  <2>4. /\ editStage' = [editStage EXCEPT ![q] = "idle"] /\ inHand' = [inHand EXCEPT ![q] = NoObject]
        /\ request' = [request EXCEPT ![q] = Get]
    BY <1>1 DEF Answer
  <2>5. /\ editStage'[q] = "idle" /\ inHand'[q] = NoObject
        /\ \A e \in Editors : e # q => editStage'[e] = editStage[e] /\ inHand'[e] = inHand[e] /\ request'[e] = request[e]
    BY <1>2, <2>4
  <2>6. \A o \in Sound' : o \in Sound /\ objects'[o] = objects[o]
    <3> TAKE o \in Sound'
    <3>1. o \in InUse' /\ o # NoObject /\ o \notin spoiled /\ o # mine
      BY <2>1 DEF Sound
    <3>2. o \in InUse
      BY <1>1, <2>5, <3>1 DEF InUse
    <3>3. o \in Objects
      BY <1>2, <3>1, <3>2 DEF InUse, LayersTyped
    <3> QED
      BY <1>2, <2>1, <3>1, <3>2, <3>3 DEF Sound, LayersTyped
  <2>7. SettingsHold'
    BY <1>1, <1>2, <2>3, <2>5, <2>6, QuietKeeps
  <2>8. EditorsTyped'
    BY <1>1, <1>2, AnswerTyped
  <2>9. LayersTyped'
    BY <1>1, <1>2, <2>3 DEF LayersTyped
  <2>10. SettingsTyped'
    BY <2>8, <2>9, TypedAgain
  <2> QED
    BY <1>4, <2>7, <2>10 DEF SettingsInv
<1> QED
  BY <1>5, <1>6

LEMMA EditKeeps ==
  ASSUME SettingsInv, NEW q \in Editors, Edit(q)
  PROVE  SettingsInv'
<1>1. /\ editStage[q] = "edit" /\ objects' = [objects EXCEPT ![inHand[q]] = With(@, request[q].set)]
      /\ accepted' = With(accepted, request[q].set) /\ spoiled' = spoiled \cup (InUse \ {NoObject, inHand[q]})
      /\ editStage' = [editStage EXCEPT ![q] = "save"]
      /\ UNCHANGED <<runtimeFile, baseFile, readOnly, updates, bridge, inForce, request, inHand, text, unsure, bridgeSpoiled>>
  BY DEF Edit, files
<1>2. /\ SettingsTyped /\ SettingsHold /\ BridgeTells /\ EditorsTyped /\ LayersTyped
      /\ editStage \in [Editors -> EditStages] /\ request \in [Editors -> SettingsRequests]
      /\ inHand \in [Editors -> Objects \cup {NoObject}]
  BY TypedParts DEF SettingsInv, SettingsTyped
<1>3. inHand[q] \in Objects /\ request[q].kind # "get"
  BY <1>1, <1>2 DEF SettingsTyped, SettingsTypeOK
<1>4. SettingsHold'
  BY <1>2, EditHolds
<1>5. EditorsTyped'
  <2>1. /\ "save" \in EditStages /\ inHand[q] \in Objects \cup {NoObject}
        /\ inHand' = [inHand EXCEPT ![q] = inHand[q]]
        /\ request' = [request EXCEPT ![q] = request[q]] /\ request[q] \in SettingsRequests
        /\ text' = [text EXCEPT ![q] = text[q]] /\ text[q] \in Layer
    BY <1>1, <1>2, SameInHand DEF EditStages
  <2>2. /\ "save" \notin {"idle", "take"} => inHand[q] \in Objects
        /\ "save" \in {"edit", "save", "write", "reset", "bridge", "over"} => request[q].kind # "get"
    BY <1>3
  <2>3. editStage' = [editStage EXCEPT ![q] = "save"] /\ EditorsTyped
    BY <1>1, <1>2
  <2> QED
    BY <2>1, <2>2, <2>3, EditorMoves
<1>6. With(objects[inHand[q]], request[q].set) \in Layer /\ With(accepted, request[q].set) \in Layer
  BY <1>2, <1>3, RequestShape, LayersKept DEF LayersTyped
<1>7. objects' \in [Objects -> Layer]
  BY <1>1, <1>2, <1>3, <1>6 DEF LayersTyped
<1>8. spoiled' \subseteq Objects
  BY <1>1, <1>2 DEF LayersTyped, InUse
<1>9. LayersTyped'
  BY <1>1, <1>2, <1>6, <1>7, <1>8 DEF LayersTyped
<1>10. SettingsTyped'
  BY <1>5, <1>9, TypedAgain
<1>11. BridgeTells'
  <2>1. \A e \in Editors : editStage'[e] = IF e = q THEN "save" ELSE editStage[e]
    BY <1>1, <1>2
  <2>2. NoPut' => NoPut /\ request[q].kind # "put"
    BY <1>1, <2>1 DEF NoPut
  <2>3. request[q].kind # "put" => DOMAIN request[q].set = {"catalog"}
    BY <1>2, <1>3, RequestShape
  <2>4. "browser" \in Fields /\ "browser" # "catalog"
    BY SettingsAssumption DEF Fields
  <2>5. request[q].kind # "put" => accepted'["browser"] = accepted["browser"]
    BY <1>1, <2>3, <2>4 DEF With
  <2> QED
    BY <1>1, <1>2, <2>2, <2>5 DEF BridgeTells
<1> QED
  BY <1>4, <1>10, <1>11 DEF SettingsInv

\* The steps of a save: who saves goes on, with the object in hand.
LEMMA SaverTyped ==
  ASSUME EditorsTyped, NEW q \in Editors, editStage[q] \in {"save", "write"},
         NEW stage \in {"write", "reset", "bridge", "over"}, NEW t \in Layer,
         editStage' = [editStage EXCEPT ![q] = stage], text' = [text EXCEPT ![q] = t],
         UNCHANGED <<request, inHand>>
  PROVE  EditorsTyped'
<1>1. /\ inHand' = [inHand EXCEPT ![q] = inHand[q]] /\ inHand[q] \in Objects \cup {NoObject}
      /\ request' = [request EXCEPT ![q] = request[q]] /\ request[q] \in SettingsRequests
      /\ inHand[q] \in Objects /\ request[q].kind # "get"
  BY SameInHand
<1>2. stage \in EditStages
  BY DEF EditStages
<1> QED
  BY <1>1, <1>2, EditorMoves

LEMMA SavedTyped ==
  ASSUME LayersTyped, NEW layer \in Layer, Saved(layer)
  PROVE  runtimeFile' \in Layer /\ baseFile' \in Layer
<1>1. CASE readOnly
  BY <1>1, LayersKept DEF Saved, LayersTyped
<1>2. CASE ~readOnly
  BY <1>2 DEF Saved, LayersTyped
<1> QED
  BY <1>1, <1>2

LEMMA SaveKeeps ==
  ASSUME SettingsInv, NEW q \in Editors, OpenFile(q) \/ WriteFile(q) \/ SaveFails(q)
  PROVE  SettingsInv'
<1>1. /\ SettingsTyped /\ SettingsHold /\ BridgeTells /\ EditorsTyped /\ LayersTyped
      /\ editStage \in [Editors -> EditStages]
  BY TypedParts DEF SettingsInv, SettingsTyped
<1>2. SettingsHold'
  BY <1>1, OpenFileHolds, WriteFileHolds, SaveFailsHolds
<1>3. /\ editStage[q] \in {"save", "write"}
      /\ UNCHANGED <<readOnly, updates, bridge, objects, inForce, request, inHand, accepted, spoiled, bridgeSpoiled>>
  BY DEF OpenFile, WriteFile, SaveFails, ghosts
<1>4. inHand[q] \in Objects /\ request[q] \in SettingsRequests /\ text[q] \in Layer
  BY <1>1, <1>3 DEF SettingsTyped, SettingsTypeOK
<1>5. PICK stage \in {"write", "reset", "bridge", "over"} :
        /\ editStage' = [editStage EXCEPT ![q] = stage]
        /\ request[q].kind = "put" => stage \in {"write", "reset", "bridge"}
  BY DEF OpenFile, WriteFile, SaveFails
<1>6. PICK t \in Layer : text' = [text EXCEPT ![q] = t]
  <2>1. CASE OpenFile(q)
    BY <1>1, <1>4, <2>1 DEF OpenFile, LayersTyped
  <2>2. CASE WriteFile(q) \/ SaveFails(q)
    <3>1. text' = text
      BY <2>2 DEF WriteFile, SaveFails
    <3> QED
      BY <1>1, <3>1, SameInHand
  <2> QED
    BY <2>1, <2>2
<1>7. EditorsTyped'
  BY <1>1, <1>3, <1>5, <1>6, SaverTyped
<1>8. runtimeFile' \in Layer /\ baseFile' \in Layer
  <2>1. CASE OpenFile(q)
    BY <1>1, <2>1, LayersKept, SavedTyped DEF OpenFile
  <2>2. CASE WriteFile(q)
    BY <1>1, <1>4, <2>2, SavedTyped DEF WriteFile
  <2>3. CASE SaveFails(q)
    BY <1>1, <2>3 DEF SaveFails, files, LayersTyped
  <2> QED
    BY <2>1, <2>2, <2>3
<1>9. unsure' \subseteq Fields
  <2>1. DOMAIN request[q].set \subseteq Fields
    BY <1>4, RequestShape
  <2> QED
    BY <1>1, <2>1 DEF OpenFile, WriteFile, SaveFails, ghosts, LayersTyped
<1>10. LayersTyped'
  BY <1>1, <1>3, <1>8, <1>9 DEF LayersTyped
<1>11. SettingsTyped'
  BY <1>7, <1>10, TypedAgain
<1>12. BridgeTells'
  <2>1. \A e \in Editors : editStage'[e] = IF e = q THEN stage ELSE editStage[e]
    BY <1>1, <1>5
  <2> QED
    BY <1>1, <1>3, <1>5, <2>1, BridgeStays
<1> QED
  BY <1>2, <1>11, <1>12 DEF SettingsInv

LEMMA IdleTyped ==
  /\ Idle.request \in [Editors -> SettingsRequests] /\ Idle.stage \in [Editors -> EditStages]
  /\ Idle.hand \in [Editors -> Objects \cup {NoObject}] /\ Idle.text \in [Editors -> Layer]
  /\ \A q \in Editors : Idle.stage[q] = "idle"
<1>1. Get \in SettingsRequests /\ Empty \in Layer /\ "idle" \in EditStages
  BY LayersKept DEF SettingsRequests, EditStages
<1> QED
  BY <1>1 DEF Idle

LEMMA RestartKeeps ==
  ASSUME SettingsInv, SettingsRestart
  PROVE  SettingsInv'
<1>1. SettingsTyped /\ SettingsHold /\ LayersTyped
  BY TypedParts DEF SettingsInv
<1>2. SettingsHold'
  BY <1>1, RestartHolds
<1>3. /\ request' = Idle.request /\ editStage' = Idle.stage /\ inHand' = Idle.hand /\ text' = Idle.text
      /\ objects' = [o \in Objects |-> IF o = 1 THEN Loaded ELSE Empty] /\ inForce' = 1
      /\ bridge' = Loaded["browser"] /\ readOnly' \in BOOLEAN
      /\ unsure' = {} /\ spoiled' = {} /\ bridgeSpoiled' = FALSE
      /\ UNCHANGED <<runtimeFile, baseFile, updates>>
  BY DEF SettingsRestart, files
<1>4. EditorsTyped'
  BY <1>3, IdleTyped DEF EditorsTyped
<1>5. Loaded \in Layer /\ Weaker \in Layer
  BY <1>1, LoadedTyped DEF LayersTyped
<1>6. accepted' \in Layer
  <2>1. \A f \in Fields : Loaded[f] \in Values \cup {Blank} /\ accepted[f] \in Values \cup {Blank}
    BY <1>1, <1>5 DEF Layer, LayersTyped
  <2>2. accepted' = [f \in Fields |-> IF f \in (IF BeingWritten THEN Fields ELSE unsure \cup Changing)
                                      THEN Loaded[f] ELSE accepted[f]]
    BY DEF SettingsRestart
  <2> QED
    BY <2>1, <2>2 DEF Layer
<1>7. objects' \in [Objects -> Layer]
  BY <1>3, <1>5, LayersKept
<1>8. LayersTyped'
  BY <1>1, <1>3, <1>6, <1>7, FirstObject DEF LayersTyped
<1>9. SettingsTyped'
  BY <1>4, <1>8, TypedAgain
<1>10. BridgeTells'
  <2>1. "browser" \in Fields
    BY SettingsAssumption DEF Fields
  <2>2. \A q \in Editors : editStage'[q] = "idle"
    BY <1>3, IdleTyped
  <2>3. ~BeingWritten' /\ Changing' = {}
    BY <2>2 DEF BeingWritten, Changing
  <2>4. Certain("browser")'
    BY <1>3, <2>3 DEF Certain
  <2>5. Loaded' = Loaded
    BY <1>3 DEF Loaded, Weaker, Over
  <2>6. Loaded'["browser"] = accepted'["browser"]
    BY <1>2, <2>4 DEF SettingsHold, BrowserTells
  <2> QED
    BY <1>3, <2>5, <2>6 DEF BridgeTells
<1> QED
  BY <1>2, <1>9, <1>10 DEF SettingsInv

LEMMA InitKept == SettingsInit => SettingsInv
<1> SUFFICES ASSUME SettingsInit PROVE SettingsInv
  OBVIOUS
<1>1. SettingsHold
  BY InitHolds
<1>2. /\ request = Idle.request /\ editStage = Idle.stage /\ inHand = Idle.hand /\ text = Idle.text
      /\ objects = [o \in Objects |-> IF o = 1 THEN Loaded ELSE Empty] /\ inForce = 1
      /\ runtimeFile = Empty /\ baseFile = Shipped /\ readOnly \in BOOLEAN /\ updates = 0
      /\ bridge = Loaded["browser"] /\ accepted = Loaded
      /\ unsure = {} /\ spoiled = {} /\ bridgeSpoiled = FALSE
  BY DEF SettingsInit
<1>3. EditorsTyped
  BY <1>2, IdleTyped DEF EditorsTyped
<1>4. runtimeFile \in Layer /\ baseFile \in Layer
  BY <1>2, LayersKept, SettingsAssumption
<1>5. Loaded \in Layer /\ Weaker \in Layer
  BY <1>4, LoadedTyped
<1>6. objects \in [Objects -> Layer]
  BY <1>2, <1>5, LayersKept
<1>7. LayersTyped
  <2>1. inForce \in Objects \cup {NoObject} /\ unsure \subseteq Fields /\ spoiled \subseteq Objects /\ accepted \in Layer
    BY <1>2, <1>5, FirstObject
  <2>2. updates \in 0..MaxUpdates
    BY <1>2, SettingsAssumption
  <2>3. readOnly \in BOOLEAN /\ bridgeSpoiled \in BOOLEAN
    BY <1>2
  <2> QED
    BY <1>4, <1>6, <2>1, <2>2, <2>3 DEF LayersTyped
<1>8. BridgeTells
  BY <1>2 DEF BridgeTells
<1> QED
  BY <1>1, <1>3, <1>7, <1>8, TypedParts DEF SettingsInv

LEMMA SettingsStep == SettingsInv /\ [SettingsNext]_settingsVars => SettingsInv'
<1> SUFFICES ASSUME SettingsInv, [SettingsNext]_settingsVars PROVE SettingsInv'
  OBVIOUS
<1>1. CASE SettingsRestart
  BY <1>1, RestartKeeps
<1>2. ASSUME NEW q \in Editors, NEW r \in SettingsRequests, AskSettings(q, r) PROVE SettingsInv'
  BY <1>2, AskedKeeps
<1>3. ASSUME NEW q \in Editors, AssignSettings(q) \/ ResetSettings(q) PROVE SettingsInv'
  BY <1>3, AssignKeeps
<1>4. ASSUME NEW q \in Editors, TakeSettings(q) PROVE SettingsInv'
  BY <1>4, TakeKeeps
<1>5. ASSUME NEW q \in Editors, Edit(q) PROVE SettingsInv'
  BY <1>5, EditKeeps
<1>6. ASSUME NEW q \in Editors, Refuse(q) PROVE SettingsInv'
  BY <1>6, RefuseKeeps
<1>7. ASSUME NEW q \in Editors, NoCatalog(q) \/ CatalogSaved(q) PROVE SettingsInv'
  BY <1>7, NoCatalogKeeps
<1>8. ASSUME NEW q \in Editors, OpenFile(q) \/ WriteFile(q) \/ SaveFails(q) PROVE SettingsInv'
  BY <1>8, SaveKeeps
<1>9. ASSUME NEW q \in Editors, WriteBridge(q) PROVE SettingsInv'
  BY <1>9, WriteBridgeKeeps
<1>10. CASE UNCHANGED settingsVars
  <2>1. UNCHANGED <<runtimeFile, baseFile, readOnly, updates, bridge, objects, inForce, request, editStage,
                    inHand, text, accepted, unsure, spoiled, bridgeSpoiled>>
    BY <1>10 DEF settingsVars, files, editing, ghosts
  <2>2. EditorsTyped' /\ LayersTyped'
    BY <2>1, TypedParts DEF SettingsInv, EditorsTyped, LayersTyped
  <2>3. SettingsHold'
    <3>1. Sound' = Sound
      BY <2>1 DEF Sound, InUse
    <3>2. objects \in [Objects -> Layer] /\ SettingsTyped /\ SettingsHold
      BY DEF SettingsInv, SettingsTyped, SettingsTypeOK
    <3> QED
      BY <2>1, <3>1, <3>2, QuietKeeps
  <2>4. BridgeTells'
    BY <2>1, BridgeStays DEF SettingsInv
  <2> QED
    BY <2>2, <2>3, <2>4, TypedAgain DEF SettingsInv
<1> QED
  BY <1>1, <1>2, <1>3, <1>4, <1>5, <1>6, <1>7, <1>8, <1>9, <1>10 DEF SettingsNext

LEMMA SettingsTold == SettingsInv => SettingsTrue
<1> SUFFICES ASSUME SettingsInv PROVE SettingsTrue
  OBVIOUS
<1>1. SettingsTypeOK /\ SecretsKept /\ SettingsHold /\ BridgeTells
  BY DEF SettingsInv, SettingsTyped, SettingsHold
<1>2. SettingsQuiet => ~BeingWritten /\ Changing = {} /\ Touched = {} /\ NoPut
  BY DEF SettingsQuiet, BeingWritten, Changing, Touched, NoPut
<1>3. \A f : SettingsQuiet /\ f \notin unsure => Certain(f)
  BY <1>2 DEF Certain
<1>4. AcceptedLoads
  BY <1>1, <1>3 DEF AcceptedLoads, SettingsHold, FilesTell
<1>5. ASSUME SettingsQuiet, unsure = {}, inForce # NoObject, inForce \notin spoiled
      PROVE  Over(objects[inForce], Weaker) = Loaded
  <2>1. inForce \in Sound
    BY <1>5 DEF Sound, InUse
  <2>2. ASSUME NEW f \in Fields
        PROVE  Loaded[f] = IF objects[inForce][f] # Blank THEN objects[inForce][f] ELSE Weaker[f]
    <3>1. Certain(f) /\ f \notin Touched \cup unsure
      BY <1>2, <1>3, <1>5
    <3>2. Loaded[f] = IF accepted[f] = Blank THEN Weaker[f] ELSE accepted[f]
      BY <1>1, <3>1 DEF SettingsHold, FilesTell
    <3>3. accepted[f] # Blank => objects[inForce][f] = accepted[f]
      BY <1>1, <2>1 DEF SettingsHold, SetValues
    <3>4. accepted[f] = Blank /\ objects[inForce][f] # Blank /\ f \in Storable => objects[inForce][f] = Weaker[f]
      BY <1>1, <2>1, <3>1 DEF SettingsHold, ClearedValues
    <3>5. f \notin Storable => objects[inForce][f] = Loaded[f]
      BY <1>1, <2>1, <3>1 DEF SettingsHold, FixedValues
    <3> QED
      BY <3>2, <3>3, <3>4, <3>5
  <2>3. Loaded = [f \in Fields |-> Loaded[f]]
    BY DEF Loaded, Over
  <2> QED
    BY <2>2, <2>3 DEF Over
<1>6. ASSUME SettingsQuiet, unsure = {}, ~bridgeSpoiled PROVE bridge = Loaded["browser"]
  <2>1. NoPut /\ Certain("browser")
    BY <1>2, <1>3, <1>6
  <2> QED
    BY <1>1, <1>6, <2>1 DEF BridgeTells, SettingsHold, BrowserTells
<1>7. InForceIsStored
  BY <1>5, <1>6 DEF InForceIsStored
<1> QED
  BY <1>1, <1>4, <1>7 DEF SettingsTrue

(* What is loaded next, what is in force and what the browser tools read is *)
(* what operators last accepted, and no secret reaches the base file,       *)
(* however requests, saves, fallbacks and restarts interleave.              *)
THEOREM SettingsAreTrue == SettingsSpec => []SettingsTrue
<1>1. SettingsInit => SettingsInv
  BY InitKept
<1>2. SettingsInv /\ [SettingsNext]_settingsVars => SettingsInv'
  BY SettingsStep
<1>3. SettingsInv => SettingsTrue
  BY SettingsTold
<1> QED
  BY <1>1, <1>2, <1>3, PTL DEF SettingsSpec

-----------------------------------------------------------------------------
(* The mails.  Page by page the evidence grows to one row for every stream *)
(* found: the row tells its stream, its screenshots are of a page that     *)
(* lists it, its label is of a server that lists it (EvidenceTells).  The  *)
(* drafts are the groups of these rows (DraftTells, DraftsCover).          *)

\* What holds of 0 and of the next number holds of all up to n.
LEMMA UpTo ==
  ASSUME NEW n \in Nat, NEW T, 0 \in T, \A i \in 0..(n - 1) : i \in T => i + 1 \in T
  PROVE  \A i \in 0..n : i \in T
<1> DEFINE Good == {i \in 0..n : \A k \in 0..i : k \in T}
<1>1. Good \subseteq Nat /\ 0 \in Good
  OBVIOUS
<1>2. IsFiniteSet(Good)
  <2>1. IsFiniteSet(0..n) /\ Good \in SUBSET (0..n)
    BY FS_Interval
  <2> QED
    BY <2>1, FS_Subset
<1>3. PICK c \in Good : \A d \in Good : d <= c
  <2> HIDE DEF Good
  <2> QED
    BY <1>1, <1>2, FiniteHasMost
<1>4. c \in 0..n /\ c \in T
  BY <1>1, <1>3
<1>5. CASE c < n
  <2>1. c \in 0..(n - 1) /\ c + 1 \in T
    BY <1>4, <1>5
  <2>2. c + 1 \in Good
    BY <1>3, <1>4, <2>1
  <2> QED
    BY <1>3, <1>4, <2>2
<1>6. CASE c = n
  BY <1>3, <1>6
<1> QED
  BY <1>4, <1>5, <1>6

-----------------------------------------------------------------------------
LEMMA ListFinite ==
  ASSUME NEW W, NEW list \in Seq(W)
  PROVE  IsFiniteSet(ToSet(list)) /\ ToSet(list) \subseteq W
<1>1. Len(list) \in Nat /\ DOMAIN list = 1..Len(list) /\ \A i \in 1..Len(list) : list[i] \in W
  BY LenProperties, ElementOfSeq
<1>2. IsFiniteSet(1..Len(list))
  BY <1>1, FS_Interval
<1>3. list \in Surjection(1..Len(list), ToSet(list))
  BY <1>1 DEF Surjection, ToSet
<1> QED
  BY <1>1, <1>2, <1>3, FS_Surjection DEF ToSet

LEMMA ResultShape ==
  ASSUME NEW pages \in MailResults
  PROVE  /\ Len(pages) \in Nat /\ DOMAIN pages = 1..Len(pages)
         /\ ToSet(pages) = {pages[i] : i \in 1..Len(pages)} /\ IsFiniteSet(ToSet(pages))
         /\ \A p \in ToSet(pages) :
              /\ p.streams \in Seq(DOMAIN MailHost) /\ p.servers \in Seq(ToSet(p.servers))
              /\ \A s \in ToSet(p.servers) : s.streams \in Seq(DOMAIN MailHost)
<1>1. pages \in Seq(ToSet(pages))
  BY MailAssumption
<1>2. \A p \in ToSet(pages) :
              /\ p.streams \in Seq(DOMAIN MailHost) /\ p.servers \in Seq(ToSet(p.servers))
              /\ \A s \in ToSet(p.servers) : s.streams \in Seq(DOMAIN MailHost)
  BY MailAssumption
<1>3. Len(pages) \in Nat /\ DOMAIN pages = 1..Len(pages)
  BY <1>1, LenProperties
<1> QED
  BY <1>1, <1>2, <1>3, ListFinite DEF ToSet

LEMMA StreamsFinite ==
  ASSUME NEW pages \in MailResults
  PROVE  Found(pages) \subseteq DOMAIN MailHost /\ IsFiniteSet(Found(pages))
<1>1. ASSUME NEW p \in ToSet(pages) PROVE StreamsIn(p) \subseteq DOMAIN MailHost /\ IsFiniteSet(StreamsIn(p))
  <2>1. /\ p.streams \in Seq(DOMAIN MailHost) /\ p.servers \in Seq(ToSet(p.servers))
        /\ \A s \in ToSet(p.servers) : s.streams \in Seq(DOMAIN MailHost)
    BY ResultShape
  <2> DEFINE lists == {ToSet(s.streams) : s \in ToSet(p.servers)}
  <2>2. IsFiniteSet(ToSet(p.streams)) /\ ToSet(p.streams) \subseteq DOMAIN MailHost
    BY <2>1, ListFinite
  <2>3. \A l \in lists : IsFiniteSet(l) /\ l \subseteq DOMAIN MailHost
    BY <2>1, ListFinite
  <2>4. IsFiniteSet(lists)
    <3>1. IsFiniteSet(ToSet(p.servers))
      BY <2>1, ListFinite
    <3> DEFINE f == [s \in ToSet(p.servers) |-> ToSet(s.streams)]
    <3>2. f \in Surjection(ToSet(p.servers), lists)
      BY DEF Surjection
    <3> HIDE DEF f, lists
    <3> QED
      BY <3>1, <3>2, FS_Surjection
  <2> HIDE DEF lists
  <2>5. IsFiniteSet(UNION lists) /\ UNION lists \subseteq DOMAIN MailHost
    BY <2>3, <2>4, FS_UNION
  <2>6. StreamsIn(p) = ToSet(p.streams) \cup UNION lists
    BY DEF StreamsIn, lists
  <2> QED
    BY <2>2, <2>5, <2>6, FS_Union
<1> DEFINE sets == {StreamsIn(p) : p \in ToSet(pages)}
           f == [p \in ToSet(pages) |-> StreamsIn(p)]
<1>2. f \in Surjection(ToSet(pages), sets)
  BY DEF Surjection
<1>3. \A l \in sets : IsFiniteSet(l) /\ l \subseteq DOMAIN MailHost
  BY <1>1
<1>4. Found(pages) = UNION sets
  BY DEF Found
<1>5. IsFiniteSet(ToSet(pages))
  BY ResultShape
<1> HIDE DEF f, sets
<1>6. IsFiniteSet(sets)
  BY <1>2, <1>5, FS_Surjection
<1> QED
  BY <1>3, <1>4, <1>6, FS_UNION

-----------------------------------------------------------------------------
\* The evidence, page by page.
NextRows(rows, p) == WithStreams(WithServers(rows, p), p)

LEMMA RowsEach ==
  ASSUME NEW n \in Nat, NEW pages
  PROVE  \E g : g = [i \in 0..n |-> IF i = 0 THEN <<>> ELSE NextRows(g[i - 1], pages[i])]
<1> DEFINE T == {m \in 0..n : \E g : g = [i \in 0..m |-> IF i = 0 THEN <<>> ELSE NextRows(g[i - 1], pages[i])]}
<1>1. 0 \in T
  <2> DEFINE g == [i \in 0..0 |-> <<>>]
  <2>1. g = [i \in 0..0 |-> IF i = 0 THEN <<>> ELSE NextRows(g[i - 1], pages[i])]
    OBVIOUS
  <2> HIDE DEF g
  <2>2. \E f : f = [i \in 0..0 |-> IF i = 0 THEN <<>> ELSE NextRows(f[i - 1], pages[i])]
    BY <2>1
  <2>3. 0 \in 0..n
    OBVIOUS
  <2> QED
    BY <2>2, <2>3
<1>2. ASSUME NEW m \in 0..(n - 1), m \in T PROVE m + 1 \in T
  <2>1. PICK g : g = [i \in 0..m |-> IF i = 0 THEN <<>> ELSE NextRows(g[i - 1], pages[i])]
    BY <1>2
  <2> DEFINE h == [i \in 0..(m + 1) |-> IF i = m + 1 THEN NextRows(g[m], pages[m + 1]) ELSE g[i]]
  <2>2. \A i \in 0..m : g[i] = IF i = 0 THEN <<>> ELSE NextRows(g[i - 1], pages[i])
    BY <2>1
  <2>3. ASSUME NEW i \in 0..(m + 1)
        PROVE  h[i] = IF i = 0 THEN <<>> ELSE NextRows(h[i - 1], pages[i])
    <3>1. CASE i = m + 1
      <4>1. h[i - 1] = g[m] /\ i # 0 /\ i - 1 = m
        BY <3>1
      <4>2. h[i] = NextRows(g[m], pages[m + 1])
        BY <3>1
      <4> HIDE DEF h
      <4> QED
        BY <3>1, <4>1, <4>2
    <3>2. CASE i # m + 1
      <4>1. h[i] = g[i] /\ i \in 0..m
        BY <3>2
      <4>2. i # 0 => h[i - 1] = g[i - 1]
        BY <3>2
      <4> HIDE DEF h
      <4> QED
        BY <2>2, <4>1, <4>2
    <3> QED
      BY <3>1, <3>2
  <2>4. h = [i \in 0..(m + 1) |-> IF i = 0 THEN <<>> ELSE NextRows(h[i - 1], pages[i])]
    <3>1. h = [i \in 0..(m + 1) |-> h[i]]
      OBVIOUS
    <3> HIDE DEF h
    <3> QED
      BY <2>3, <3>1
  <2>5. m + 1 \in 0..n
    OBVIOUS
  <2> HIDE DEF h
  <2> QED
    BY <2>4, <2>5
<1>3. n \in T
  <2>1. \A i \in 0..(n - 1) : i \in T => i + 1 \in T
    BY <1>2
  <2> HIDE DEF T
  <2> QED
    BY <1>1, <2>1, UpTo
<1> QED
  BY <1>3

LEMMA EvidenceSteps ==
  ASSUME NEW pages, Len(pages) \in Nat
  PROVE  \E g : /\ g[0] = <<>> /\ EvidenceOf(pages) = g[Len(pages)]
                /\ \A i \in 1..Len(pages) : g[i] = NextRows(g[i - 1], pages[i])
<1> DEFINE Rows[i \in 0..Len(pages)] == IF i = 0 THEN <<>> ELSE NextRows(Rows[i - 1], pages[i])
<1>1. EvidenceOf(pages) = Rows[Len(pages)]
  BY DEF EvidenceOf, NextRows
<1>2. \E g : g = [i \in 0..Len(pages) |-> IF i = 0 THEN <<>> ELSE NextRows(g[i - 1], pages[i])]
  <2> HIDE DEF Rows
  <2> DEFINE n == Len(pages)
  <2>1. n \in Nat
    OBVIOUS
  <2> HIDE DEF n
  <2>2. \E g : g = [i \in 0..n |-> IF i = 0 THEN <<>> ELSE NextRows(g[i - 1], pages[i])]
    BY <2>1, RowsEach
  <2> QED
    BY <2>2 DEF n
<1>3. Rows = [i \in 0..Len(pages) |-> IF i = 0 THEN <<>> ELSE NextRows(Rows[i - 1], pages[i])]
  BY <1>2
<1> HIDE DEF Rows
<1>4. \A i \in 0..Len(pages) : Rows[i] = IF i = 0 THEN <<>> ELSE NextRows(Rows[i - 1], pages[i])
  BY <1>3
<1>5. /\ Rows[0] = <<>>
      /\ \A i \in 1..Len(pages) : Rows[i] = NextRows(Rows[i - 1], pages[i])
  BY <1>4
<1> QED
  BY <1>1, <1>5

-----------------------------------------------------------------------------
\* What a row says of its stream after i pages.
ShotsOf(p) == p.shots \cup UNION {s.shots : s \in ToSet(p.servers)}

ListedOn(pages, i, u) == \E j \in 1..i : Listing(pages[j], u) # {}
LabelFrom(pages, i, u, label) ==
  \E j \in 1..i : \E m \in Listing(pages[j], u) : label = pages[j].servers[m].label
ShotsFrom(pages, i, u, shots) == \E j \in 1..i : u \in StreamsIn(pages[j]) /\ shots \subseteq ShotsOf(pages[j])

RowTells(row, u, pages, i) ==
  /\ row = [stream |-> u, label |-> row.label, channel |-> row.channel, shots |-> row.shots, page |-> row.page]
  /\ ShotsFrom(pages, i, u, row.shots)
  /\ ListedOn(pages, i, u) => LabelFrom(pages, i, u, row.label)

FoundBy(pages, i) == UNION {StreamsIn(pages[j]) : j \in 1..i}

RowsTell(rows, pages, i) ==
  DOMAIN rows = FoundBy(pages, i) /\ \A u \in DOMAIN rows : RowTells(rows[u], u, pages, i)

\* A server that lists a stream is a server of its page.
LEMMA ListingIn ==
  ASSUME NEW p, p.servers \in Seq(ToSet(p.servers)), NEW u
  PROVE  /\ \A m \in Listing(p, u) : p.servers[m] \in ToSet(p.servers) /\ u \in ToSet(p.servers[m].streams)
         /\ Listing(p, u) # {} <=> u \in UNION {ToSet(s.streams) : s \in ToSet(p.servers)}
         /\ Listing(p, u) # {} => LastListing(p, u) \in Listing(p, u)
<1>1. Len(p.servers) \in Nat /\ DOMAIN p.servers = 1..Len(p.servers)
  BY LenProperties
<1>2. ToSet(p.servers) = {p.servers[i] : i \in DOMAIN p.servers}
  BY DEF ToSet
<1>3. Listing(p, u) = {i \in DOMAIN p.servers : u \in ToSet(p.servers[i].streams)}
  BY DEF Listing
<1>4. \A m \in Listing(p, u) : p.servers[m] \in ToSet(p.servers) /\ u \in ToSet(p.servers[m].streams)
  BY <1>2, <1>3
<1>5. Listing(p, u) # {} <=> u \in UNION {ToSet(s.streams) : s \in ToSet(p.servers)}
  BY <1>2, <1>3
<1>6. ASSUME Listing(p, u) # {} PROVE LastListing(p, u) \in Listing(p, u)
  <2>1. Listing(p, u) \subseteq 1..Len(p.servers) /\ Listing(p, u) \subseteq Nat
    BY <1>1, <1>3
  <2>2. IsFiniteSet(Listing(p, u))
    <3>1. IsFiniteSet(1..Len(p.servers))
      BY <1>1, FS_Interval
    <3> QED
      BY <2>1, <3>1, FS_Subset
  <2>3. \E c \in Listing(p, u) : \A d \in Listing(p, u) : d <= c
    BY <1>6, <2>1, <2>2, FiniteHasMost
  <2> QED
    BY <2>3 DEF LastListing
<1> QED
  BY <1>4, <1>5, <1>6

LEMMA ServerTells ==
  ASSUME NEW pages, NEW i \in Nat \ {0}, pages[i].servers \in Seq(ToSet(pages[i].servers)),
         NEW u, NEW m \in Listing(pages[i], u)
  PROVE  RowTells(FromServer(pages[i], pages[i].servers[m], u), u, pages, i)
<1> DEFINE p == pages[i]
           s == p.servers[m]
           row == FromServer(p, s, u)
<1>1. s \in ToSet(p.servers) /\ u \in ToSet(s.streams)
  BY ListingIn
<1>2. row = [stream |-> u, label |-> s.label, channel |-> SaidOr(s.channel, p.channel),
             shots |-> FirstOr(s.shots, p.shots), page |-> p.url]
  BY DEF FromServer
<1>3. row.shots = FirstOr(s.shots, p.shots) /\ row.label = s.label
  BY <1>2
<1>4. row = [stream |-> u, label |-> row.label, channel |-> row.channel, shots |-> row.shots, page |-> row.page]
  BY <1>2
<1>5. u \in StreamsIn(p) /\ row.shots \subseteq ShotsOf(p)
  BY <1>1, <1>3 DEF StreamsIn, ShotsOf, FirstOr
<1>6. i \in 1..i
  OBVIOUS
<1>7. LabelFrom(pages, i, u, row.label)
  BY <1>3, <1>6 DEF LabelFrom
<1>8. ShotsFrom(pages, i, u, row.shots)
  BY <1>5, <1>6 DEF ShotsFrom
<1> HIDE DEF row
<1>9. RowTells(row, u, pages, i)
  BY <1>4, <1>7, <1>8 DEF RowTells
<1> QED
  BY <1>9 DEF row

LEMMA KeepTells ==
  ASSUME NEW pages, NEW i \in Nat \ {0}, NEW u, NEW row, RowTells(row, u, pages, i - 1), Listing(pages[i], u) = {}
  PROVE  RowTells(row, u, pages, i)
<1>1. \A j : j \in 1..i <=> j \in 1..(i - 1) \/ j = i
  OBVIOUS
<1>2. ShotsFrom(pages, i, u, row.shots)
  BY <1>1 DEF ShotsFrom, RowTells
<1>3. ListedOn(pages, i, u) => ListedOn(pages, i - 1, u)
  BY <1>1 DEF ListedOn
<1>4. LabelFrom(pages, i - 1, u, row.label) => LabelFrom(pages, i, u, row.label)
  BY <1>1 DEF LabelFrom
<1> QED
  BY <1>2, <1>3, <1>4 DEF RowTells

LEMMA OwnTells ==
  ASSUME NEW pages, NEW i \in Nat \ {0}, NEW u, u \in ToSet(pages[i].streams), ~ListedOn(pages, i, u)
  PROVE  RowTells(FromPage(pages[i], u), u, pages, i)
<1> DEFINE p == pages[i]
           row == FromPage(p, u)
<1>1. row = [stream |-> u, label |-> "", channel |-> p.channel, shots |-> p.shots, page |-> p.url]
  BY DEF FromPage
<1> HIDE DEF row
<1>2. row = [stream |-> u, label |-> row.label, channel |-> row.channel, shots |-> row.shots, page |-> row.page]
  BY <1>1
<1>3. row.shots \subseteq ShotsOf(p) /\ u \in StreamsIn(p) /\ i \in 1..i
  <2>1. row.shots = p.shots
    BY <1>1
  <2>2. p.shots \subseteq ShotsOf(p)
    BY DEF ShotsOf
  <2>3. u \in StreamsIn(p) /\ i \in 1..i
    BY DEF StreamsIn
  <2> QED
    BY <2>1, <2>2, <2>3, Zenon
<1>4. ShotsFrom(pages, i, u, row.shots)
  BY <1>3 DEF ShotsFrom
<1> HIDE DEF row
<1>5. RowTells(row, u, pages, i)
  BY <1>2, <1>4 DEF RowTells
<1> QED
  BY <1>5 DEF row

LEMMA FillTells ==
  ASSUME NEW pages, NEW i \in Nat \ {0}, NEW u, u \in ToSet(pages[i].streams), NEW row, RowTells(row, u, pages, i)
  PROVE  RowTells(Filled(row, pages[i]), u, pages, i)
<1> DEFINE p == pages[i]
           fill == Filled(row, p)
<1>1. row = [stream |-> u, label |-> row.label, channel |-> row.channel, shots |-> row.shots, page |-> row.page]
  BY DEF RowTells
<1>2. fill = [stream |-> u, label |-> row.label, channel |-> SaidOr(row.channel, p.channel),
              shots |-> FirstOr(row.shots, p.shots), page |-> row.page]
  <2>1. row.stream = u
    BY <1>1
  <2> QED
    BY <2>1 DEF Filled
<1>3. fill = [stream |-> u, label |-> fill.label, channel |-> fill.channel, shots |-> fill.shots, page |-> fill.page]
  BY <1>2
<1>4. fill.label = row.label /\ fill.shots = FirstOr(row.shots, p.shots)
  BY <1>2
<1> HIDE DEF fill
<1>5. ShotsFrom(pages, i, u, fill.shots)
  <2>1. CASE row.shots # {}
    BY <1>4, <2>1 DEF FirstOr, RowTells
  <2>2. CASE row.shots = {}
    <3>1. fill.shots \subseteq ShotsOf(p) /\ u \in StreamsIn(p) /\ i \in 1..i
      BY <1>4, <2>2 DEF FirstOr, ShotsOf, StreamsIn
    <3> QED
      BY <3>1 DEF ShotsFrom
  <2> QED
    BY <2>1, <2>2
<1>6. RowTells(fill, u, pages, i)
  BY <1>3, <1>4, <1>5 DEF RowTells
<1> QED
  BY <1>6 DEF fill

LEMMA NextTells ==
  ASSUME NEW pages, NEW i \in Nat \ {0}, pages[i].servers \in Seq(ToSet(pages[i].servers)),
         NEW rows, RowsTell(rows, pages, i - 1)
  PROVE  RowsTell(NextRows(rows, pages[i]), pages, i)
<1> DEFINE p == pages[i]
           listed == UNION {ToSet(s.streams) : s \in ToSet(p.servers)}
           mid == WithServers(rows, p)
           next == WithStreams(mid, p)
<1>1. DOMAIN mid = DOMAIN rows \cup listed
  BY DEF WithServers
<1>2. \A u \in DOMAIN mid :
        mid[u] = IF Listing(p, u) # {} THEN FromServer(p, p.servers[LastListing(p, u)], u) ELSE rows[u]
  BY DEF WithServers
<1>3. DOMAIN next = DOMAIN mid \cup ToSet(p.streams)
  BY DEF WithStreams
<1>4. \A u \in DOMAIN next :
        next[u] = IF u \notin DOMAIN mid THEN FromPage(p, u)
                  ELSE IF u \notin ToSet(p.streams) THEN mid[u]
                  ELSE Filled(mid[u], p)
  BY DEF WithStreams
<1>5. NextRows(rows, p) = next
  BY DEF NextRows
<1>6. \A u : Listing(p, u) # {} <=> u \in listed
  BY ListingIn
<1>7. \A j : j \in 1..i <=> j \in 1..(i - 1) \/ j = i
  OBVIOUS
<1>8. FoundBy(pages, i) = FoundBy(pages, i - 1) \cup StreamsIn(p)
  BY <1>7 DEF FoundBy
<1>9. StreamsIn(p) = ToSet(p.streams) \cup listed
  BY DEF StreamsIn
<1> HIDE DEF mid, next, listed
<1>10. DOMAIN next = FoundBy(pages, i)
  BY <1>1, <1>3, <1>8, <1>9 DEF RowsTell
<1>11. ASSUME NEW u \in DOMAIN mid PROVE RowTells(mid[u], u, pages, i)
  <2>1. CASE Listing(p, u) # {}
    <3>1. LastListing(p, u) \in Listing(p, u)
      BY <2>1, ListingIn
    <3>2. mid[u] = FromServer(p, p.servers[LastListing(p, u)], u)
      BY <1>2, <2>1
    <3>3. RowTells(FromServer(pages[i], pages[i].servers[LastListing(p, u)], u), u, pages, i)
      BY <3>1, ServerTells
    <3> QED
      BY <3>2, <3>3
  <2>2. CASE Listing(p, u) = {}
    <3>1. u \in DOMAIN rows /\ mid[u] = rows[u]
      BY <1>1, <1>2, <1>6, <2>2
    <3>2. RowTells(rows[u], u, pages, i - 1)
      BY <3>1 DEF RowsTell
    <3> QED
      BY <2>2, <3>1, <3>2, KeepTells
  <2> QED
    BY <2>1, <2>2
<1>12. ASSUME NEW u \in DOMAIN next PROVE RowTells(next[u], u, pages, i)
  <2>1. CASE u \notin DOMAIN mid
    <3>1. u \in ToSet(p.streams) /\ u \notin FoundBy(pages, i - 1) /\ u \notin listed
      BY <1>1, <1>3, <2>1 DEF RowsTell
    <3>2. \A j \in 1..(i - 1) : u \notin StreamsIn(pages[j])
      BY <3>1 DEF FoundBy
    <3>3. ASSUME NEW j \in 1..(i - 1) PROVE Listing(pages[j], u) = {}
      BY <3>2 DEF StreamsIn, Listing, ToSet
    <3>4. ~ListedOn(pages, i, u)
      BY <1>6, <1>7, <3>1, <3>3 DEF ListedOn
    <3>5. next[u] = FromPage(p, u)
      BY <1>4, <2>1
    <3> QED
      BY <3>1, <3>4, <3>5, OwnTells
  <2>2. CASE u \in DOMAIN mid /\ u \notin ToSet(p.streams)
    <3>1. next[u] = mid[u]
      BY <1>4, <2>2
    <3> QED
      BY <1>11, <2>2, <3>1
  <2>3. CASE u \in DOMAIN mid /\ u \in ToSet(p.streams)
    <3>1. next[u] = Filled(mid[u], p)
      BY <1>4, <2>3
    <3>2. RowTells(mid[u], u, pages, i)
      BY <1>11, <2>3
    <3> QED
      BY <2>3, <3>1, <3>2, FillTells
  <2> QED
    BY <2>1, <2>2, <2>3
<1>13. RowsTell(next, pages, i)
  BY <1>10, <1>12 DEF RowsTell
<1> QED
  BY <1>5, <1>13

\* The evidence of a run has one row for every stream found, and each tells.
LEMMA EvidenceTells ==
  ASSUME NEW pages \in MailResults
  PROVE  DOMAIN EvidenceOf(pages) = Found(pages) /\ RowsTell(EvidenceOf(pages), pages, Len(pages))
<1>1. /\ Len(pages) \in Nat /\ DOMAIN pages = 1..Len(pages)
      /\ ToSet(pages) = {pages[i] : i \in 1..Len(pages)}
      /\ \A p \in ToSet(pages) : p.servers \in Seq(ToSet(p.servers))
  BY ResultShape
<1>2. PICK g : /\ g[0] = <<>> /\ EvidenceOf(pages) = g[Len(pages)]
               /\ \A i \in 1..Len(pages) : g[i] = NextRows(g[i - 1], pages[i])
  BY <1>1, EvidenceSteps
<1> DEFINE T == {i \in 0..Len(pages) : RowsTell(g[i], pages, i)}
<1>3. 0 \in T
  <2>1. DOMAIN g[0] = {} /\ 0 \in 0..Len(pages)
    BY <1>1, <1>2
  <2>2. FoundBy(pages, 0) = {}
    BY DEF FoundBy
  <2> QED
    BY <1>1, <2>1, <2>2 DEF RowsTell
<1>4. ASSUME NEW i \in 0..(Len(pages) - 1), i \in T PROVE i + 1 \in T
  <2> DEFINE k == i + 1
  <2>1. k \in Nat \ {0} /\ k - 1 = i /\ k \in 1..Len(pages) /\ k \in 0..Len(pages)
    BY <1>1
  <2>2. RowsTell(g[k - 1], pages, k - 1)
    BY <1>4, <2>1
  <2>3. pages[k].servers \in Seq(ToSet(pages[k].servers))
    BY <1>1, <2>1
  <2>4. g[k] = NextRows(g[k - 1], pages[k])
    BY <1>2, <2>1
  <2> HIDE DEF k
  <2>5. RowsTell(NextRows(g[k - 1], pages[k]), pages, k)
    BY <2>1, <2>2, <2>3, NextTells
  <2>6. k \in T
    BY <2>1, <2>4, <2>5
  <2> QED
    BY <2>6 DEF k
<1>5. Len(pages) \in T
  <2>1. \A i \in 0..(Len(pages) - 1) : i \in T => i + 1 \in T
    BY <1>4
  <2> HIDE DEF T
  <2>2. \A i \in 0..Len(pages) : i \in T
    BY <1>1, <1>3, <2>1, UpTo
  <2> QED
    BY <1>1, <2>2
<1>6. RowsTell(EvidenceOf(pages), pages, Len(pages))
  BY <1>2, <1>5
<1>7. FoundBy(pages, Len(pages)) = Found(pages)
  BY <1>1 DEF FoundBy, Found
<1> QED
  BY <1>6, <1>7 DEF RowsTell

-----------------------------------------------------------------------------
\* The drafts: one per group of rows that share channel, provider and contact.
GroupOf(row, analysis, evidence) == {r \in analysis : GroupKey(r, evidence) = GroupKey(row, evidence)}

LEMMA DraftOfGroup ==
  ASSUME NEW pages, NEW analysis, NEW d \in Drafted(pages, analysis)
  PROVE  \E row \in analysis : d = Draft(GroupOf(row, analysis, EvidenceOf(pages)), EvidenceOf(pages))
<1> DEFINE evidence == EvidenceOf(pages)
           keys == {GroupKey(row, evidence) : row \in analysis}
<1>1. Drafted(pages, analysis) = {Draft({row \in analysis : GroupKey(row, evidence) = k}, evidence) : k \in keys}
  BY DEF Drafted
<1> HIDE DEF evidence
<1>2. PICK k \in keys : d = Draft({row \in analysis : GroupKey(row, evidence) = k}, evidence)
  BY <1>1
<1>3. PICK row \in analysis : k = GroupKey(row, evidence)
  OBVIOUS
<1>4. {r \in analysis : GroupKey(r, evidence) = k} = GroupOf(row, analysis, evidence)
  BY <1>3 DEF GroupOf
<1> QED
  BY <1>2, <1>4 DEF evidence

LEMMA GroupDrafted ==
  ASSUME NEW pages, NEW analysis, NEW row \in analysis
  PROVE  Draft(GroupOf(row, analysis, EvidenceOf(pages)), EvidenceOf(pages)) \in Drafted(pages, analysis)
<1> DEFINE evidence == EvidenceOf(pages)
           keys == {GroupKey(r, evidence) : r \in analysis}
           k == GroupKey(row, evidence)
<1>1. Drafted(pages, analysis) = {Draft({r \in analysis : GroupKey(r, evidence) = c}, evidence) : c \in keys}
  BY DEF Drafted
<1> HIDE DEF evidence
<1>2. {r \in analysis : GroupKey(r, evidence) = k} = GroupOf(row, analysis, evidence)
  BY DEF GroupOf
<1>3. k \in keys
  OBVIOUS
<1> HIDE DEF keys, k
<1>4. Draft(GroupOf(row, analysis, evidence), evidence) \in Drafted(pages, analysis)
  BY <1>1, <1>2, <1>3
<1> QED
  BY <1>4 DEF evidence

\* The rows of a group agree on the provider and on the contact.
LEMMA GroupAgrees ==
  ASSUME NEW evidence, NEW analysis, NEW row \in analysis, NEW r \in GroupOf(row, analysis, evidence)
  PROVE  r \in analysis /\ ProviderName(r) = ProviderName(row) /\ r.abuse = row.abuse
<1>1. r \in analysis /\ GroupKey(r, evidence) = GroupKey(row, evidence)
  BY DEF GroupOf
<1> DEFINE channel(x) == IF x.stream \in DOMAIN evidence THEN evidence[x.stream].channel ELSE ""
<1>2. GroupKey(r, evidence) = <<channel(r), ProviderName(r), r.abuse>>
  BY DEF GroupKey
<1>3. GroupKey(row, evidence) = <<channel(row), ProviderName(row), row.abuse>>
  BY DEF GroupKey
<1> HIDE DEF channel
<1>4. <<channel(r), ProviderName(r), r.abuse>> = <<channel(row), ProviderName(row), row.abuse>>
  BY <1>1, <1>2, <1>3, Zenon
<1> QED
  BY <1>1, <1>4

LEMMA DraftIs ==
  ASSUME NEW group, NEW evidence, NEW row \in group,
         {r.stream : r \in group} \subseteq DOMAIN evidence,
         \A r \in group : ProviderName(r) = ProviderName(row) /\ r.abuse = row.abuse
  PROVE  LET d == Draft(group, evidence)
         IN  /\ d.streams = {r.stream : r \in group} /\ d.rows = {evidence[u] : u \in d.streams}
             /\ d.provider = ProviderName(row) /\ d.abuse = row.abuse
<1> DEFINE member == CHOOSE r \in group : TRUE
           own == {r.stream : r \in group} \cap DOMAIN evidence
           streams == FirstOr(own, DOMAIN evidence)
           shots == FirstOr(UNION {evidence[u].shots : u \in streams}, UNION {evidence[u].shots : u \in DOMAIN evidence})
           d == Draft(group, evidence)
<1>1. d = [provider |-> ProviderName(member), abuse |-> member.abuse, streams |-> streams, shots |-> shots,
           rows |-> {evidence[u] : u \in streams}]
  BY DEF Draft
<1>2. member \in group
  OBVIOUS
<1>3. streams = {r.stream : r \in group}
  <2>1. own = {r.stream : r \in group}
    OBVIOUS
  <2>2. row.stream \in own
    BY <2>1
  <2> QED
    BY <2>1, <2>2 DEF FirstOr
<1>4. ProviderName(member) = ProviderName(row) /\ member.abuse = row.abuse
  BY <1>2
<1> HIDE DEF member, streams, shots, own, d
<1>5. /\ d.streams = streams /\ d.rows = {evidence[u] : u \in streams}
      /\ d.provider = ProviderName(member) /\ d.abuse = member.abuse
  BY <1>1
<1>6. /\ d.streams = {r.stream : r \in group} /\ d.rows = {evidence[u] : u \in d.streams}
      /\ d.provider = ProviderName(row) /\ d.abuse = row.abuse
  BY <1>3, <1>4, <1>5
<1> QED
  BY <1>6 DEF d

LEMMA RowsOfStreams ==
  ASSUME NEW pages, NEW found
  PROVE  /\ \A row \in Analysed(pages, found) :
              row.stream \in Found(pages) /\ row = ProviderRow(row.stream, found[MailHost[row.stream]])
         /\ \A u \in Found(pages) :
              /\ ProviderRow(u, found[MailHost[u]]) \in Analysed(pages, found)
              /\ ProviderRow(u, found[MailHost[u]]).stream = u
<1>1. \A u : LET row == ProviderRow(u, found[MailHost[u]]) IN row.stream = u
  BY DEF ProviderRow
<1>2. Analysed(pages, found) = {ProviderRow(u, found[MailHost[u]]) : u \in Found(pages)}
  BY DEF Analysed
<1> QED
  BY <1>1, <1>2

\* What the draft of a row is: the streams of its group, all of its provider.
LEMMA DraftOfRow ==
  ASSUME NEW pages \in MailResults, NEW found, NEW row \in Analysed(pages, found)
  PROVE  LET group == GroupOf(row, Analysed(pages, found), EvidenceOf(pages))
             d == Draft(group, EvidenceOf(pages))
         IN  /\ d.streams = {r.stream : r \in group} /\ d.streams \subseteq Found(pages)
             /\ row.stream \in d.streams
             /\ d.rows = {EvidenceOf(pages)[u] : u \in d.streams}
             /\ d.provider = ProviderName(row) /\ d.abuse = row.abuse
             /\ \A r \in group : r \in Analysed(pages, found) /\ ProviderName(r) = d.provider /\ r.abuse = d.abuse
<1> DEFINE evidence == EvidenceOf(pages)
           analysis == Analysed(pages, found)
           group == GroupOf(row, analysis, evidence)
           d == Draft(group, evidence)
<1>1. DOMAIN evidence = Found(pages)
  BY EvidenceTells
<1>2. row \in group /\ group \subseteq analysis
  BY DEF GroupOf
<1>3. \A r \in group : r \in analysis /\ ProviderName(r) = ProviderName(row) /\ r.abuse = row.abuse
  <2> HIDE DEF analysis, evidence
  <2> QED
    BY <1>2, GroupAgrees
<1>4. \A r \in analysis : r.stream \in Found(pages)
  BY RowsOfStreams
<1> HIDE DEF evidence, analysis, group
<1>5. {r.stream : r \in group} \subseteq DOMAIN evidence
  BY <1>1, <1>2, <1>4
<1>6. /\ d.streams = {r.stream : r \in group} /\ d.rows = {evidence[u] : u \in d.streams}
      /\ d.provider = ProviderName(row) /\ d.abuse = row.abuse
  <2>1. row \in group /\ \A r \in group : ProviderName(r) = ProviderName(row) /\ r.abuse = row.abuse
    BY <1>2, <1>3
  <2> QED
    BY <1>5, <2>1, DraftIs
<1> HIDE DEF d
<1>7. d.streams \subseteq Found(pages) /\ row.stream \in d.streams
  BY <1>1, <1>2, <1>5, <1>6
<1> QED
  BY <1>3, <1>6, <1>7 DEF d, group, evidence, analysis

\* A draft is about streams of its provider, and shows them.
LEMMA DraftTells ==
  ASSUME NEW pages \in MailResults, NEW found, NEW d \in Drafted(pages, Analysed(pages, found))
  PROVE  /\ d.streams # {} /\ d.streams \subseteq Found(pages)
         /\ d.rows = {EvidenceOf(pages)[u] : u \in d.streams}
         /\ \E row \in Analysed(pages, found) : ProviderName(row) = d.provider
         /\ \A u \in d.streams :
              LET c == found[MailHost[u]] IN
              ProviderRow(u, c).abuse = d.abuse /\ ProviderName(ProviderRow(u, c)) = d.provider
<1> DEFINE evidence == EvidenceOf(pages)
           analysis == Analysed(pages, found)
<1>1. PICK row \in analysis : d = Draft(GroupOf(row, analysis, evidence), evidence)
  BY DraftOfGroup
<1> DEFINE group == GroupOf(row, analysis, evidence)
<1>2. /\ d.streams = {r.stream : r \in group} /\ d.streams \subseteq Found(pages)
      /\ row.stream \in d.streams
      /\ d.rows = {evidence[u] : u \in d.streams}
      /\ d.provider = ProviderName(row)
      /\ \A r \in group : r \in analysis /\ ProviderName(r) = d.provider /\ r.abuse = d.abuse
  BY <1>1, DraftOfRow
<1>3. \A r \in analysis : r = ProviderRow(r.stream, found[MailHost[r.stream]])
  BY RowsOfStreams
<1> HIDE DEF group, analysis
<1>4. ASSUME NEW u \in d.streams
      PROVE  LET c == found[MailHost[u]] IN
             ProviderRow(u, c).abuse = d.abuse /\ ProviderName(ProviderRow(u, c)) = d.provider
  <2>1. PICK r \in group : r.stream = u
    BY <1>2
  <2>2. r = ProviderRow(u, found[MailHost[u]]) /\ ProviderName(r) = d.provider /\ r.abuse = d.abuse
    BY <1>2, <1>3, <2>1
  <2> QED
    BY <2>2
<1> QED
  BY <1>2, <1>4 DEF analysis

\* The drafts leave no stream out.
LEMMA DraftsCover ==
  ASSUME NEW pages \in MailResults, NEW found
  PROVE  UNION {d.streams : d \in Drafted(pages, Analysed(pages, found))} = Found(pages)
<1> DEFINE analysis == Analysed(pages, found)
           all == Drafted(pages, analysis)
<1>1. \A d \in all : d.streams \subseteq Found(pages)
  BY DraftTells
<1>2. ASSUME NEW u \in Found(pages) PROVE \E d \in all : u \in d.streams
  <2>1. PICK row \in analysis : row.stream = u
    BY RowsOfStreams
  <2> DEFINE d == Draft(GroupOf(row, analysis, EvidenceOf(pages)), EvidenceOf(pages))
  <2>2. d \in all
    <3> HIDE DEF analysis
    <3> QED
      BY GroupDrafted
  <2>3. u \in d.streams
    BY <2>1, DraftOfRow
  <2> HIDE DEF d, all
  <2> QED
    BY <2>2, <2>3
<1> HIDE DEF all
<1>3. UNION {d.streams : d \in all} = Found(pages)
  BY <1>1, <1>2
<1> QED
  BY <1>3 DEF all

\* There are no more drafts than rows, and no more rows than streams.
LEMMA DraftsFew ==
  ASSUME NEW pages \in MailResults, NEW found
  PROVE  /\ IsFiniteSet(Analysed(pages, found)) /\ IsFiniteSet(Drafted(pages, Analysed(pages, found)))
         /\ Cardinality(Drafted(pages, Analysed(pages, found))) <= Cardinality(Analysed(pages, found))
<1> DEFINE analysis == Analysed(pages, found)
           all == Drafted(pages, analysis)
           row == [u \in Found(pages) |-> ProviderRow(u, found[MailHost[u]])]
           draft == [r \in analysis |-> Draft(GroupOf(r, analysis, EvidenceOf(pages)), EvidenceOf(pages))]
<1>1. IsFiniteSet(Found(pages))
  BY StreamsFinite
<1>2. row \in Surjection(Found(pages), analysis)
  BY DEF Surjection, Analysed
<1>3. IsFiniteSet(analysis)
  <2> HIDE DEF row, analysis
  <2> QED
    BY <1>1, <1>2, FS_Surjection
<1>4. draft \in Surjection(analysis, all)
  <2> HIDE DEF analysis
  <2>1. \A r \in analysis : draft[r] \in all
    BY GroupDrafted
  <2>2. \A d \in all : \E r \in analysis : draft[r] = d
    <3>1. ASSUME NEW d \in all PROVE \E r \in analysis : draft[r] = d
      <4>1. PICK r \in analysis : d = Draft(GroupOf(r, analysis, EvidenceOf(pages)), EvidenceOf(pages))
        BY DraftOfGroup
      <4> QED
        BY <4>1
    <3> QED
      BY <3>1
  <2>3. draft = [r \in analysis |-> draft[r]]
    OBVIOUS
  <2> HIDE DEF draft, all
  <2>4. draft \in [analysis -> all]
    BY <2>1, <2>3
  <2> QED
    BY <2>2, <2>4 DEF Surjection
<1> HIDE DEF draft, all, analysis
<1>5. IsFiniteSet(all) /\ Cardinality(all) <= Cardinality(analysis)
  BY <1>3, <1>4, FS_Surjection
<1> QED
  BY <1>3, <1>5 DEF all, analysis

-----------------------------------------------------------------------------
\* The providers and the drafts are those of this run's streams, and a page
\* shows the stored drafts, or all of them anew.
Recorded == providers # {} => providers = Analysed(pageResults, contactOf)

MailInv ==
  /\ mailStage \in {"analyze", "draft", "ended", "failed", "stored"}
  /\ pageResults \in MailResults /\ Recorded
  /\ mailStage = "analyze" => providers = {}
  /\ mailStage = "draft" => (Found(pageResults) # {} => providers = Analysed(pageResults, contactOf))
  /\ mailStage \in {"analyze", "draft"} => drafts \cup invalid = {}
  /\ drafts \cup invalid = {} \/ drafts \cup invalid = Drafted(pageResults, providers)
  /\ mailStage # "stored" => viewed = {} /\ stored.drafts = {} /\ stored.count = 0
  /\ mailStage = "stored" => /\ stored.drafts = drafts /\ stored.count = Cardinality(drafts)
                             /\ stored.providers = providers /\ stored.pages = pageResults
  /\ viewed = {} \/ viewed = drafts \/ (invalid = {} /\ viewed = Drafted(pageResults, providers))

LEMMA NoRowsNoDrafts ==
  ASSUME NEW pages
  PROVE  Drafted(pages, {}) = {}
<1>1. ~\E d : d \in Drafted(pages, {})
  BY DraftOfGroup
<1> QED
  BY <1>1

-----------------------------------------------------------------------------
LEMMA MailStarts == MailInit => MailInv
<1> SUFFICES ASSUME MailInit PROVE MailInv
  OBVIOUS
<1>1. /\ mailStage = "analyze" /\ pageResults \in MailResults
      /\ providers = {} /\ drafts = {} /\ invalid = {} /\ viewed = {}
      /\ stored.drafts = {} /\ stored.count = 0
  BY DEF MailInit
<1> QED
  BY <1>1 DEF MailInv, Recorded

LEMMA MailSteps == MailInv /\ [MailNext]_mailVars => MailInv'
<1> SUFFICES ASSUME MailInv, [MailNext]_mailVars PROVE MailInv'
  OBVIOUS
<1>1. CASE SkipAnalysis
  BY <1>1 DEF MailInv, Recorded, SkipAnalysis
<1>2. ASSUME NEW host, NEW c, LookUp(host, c) PROVE MailInv'
  BY <1>2 DEF MailInv, Recorded, LookUp
<1>3. CASE LookUpGarbled
  BY <1>3 DEF MailInv, Recorded, LookUpGarbled
<1>4. CASE Analyse
  BY <1>4 DEF MailInv, Recorded, Analyse
<1>5. ASSUME NEW bad, Generate(bad) PROVE MailInv'
  <2> DEFINE all == IF Found(pageResults) = {} THEN {} ELSE Drafted(pageResults, providers)
  <2>1. /\ mailStage = "draft" /\ bad \subseteq all /\ drafts' = all \ bad /\ invalid' = bad
        /\ mailStage' = "ended"
        /\ UNCHANGED <<pageResults, providers, contactOf, stored, viewed>>
    BY <1>5 DEF Generate
  <2>2. drafts' \cup invalid' = all /\ viewed' = {}
    BY <2>1 DEF MailInv
  <2>3. all = {} \/ all = Drafted(pageResults', providers')
    BY <2>1
  <2> HIDE DEF all
  <2> QED
    BY <2>1, <2>2, <2>3 DEF MailInv, Recorded
<1>6. CASE HaltMails
  BY <1>6 DEF MailInv, Recorded, HaltMails
<1>7. CASE StoreRun
  <2>1. /\ mailStage = "ended" /\ mailStage' = "stored"
        /\ stored'.drafts = drafts /\ stored'.count = Cardinality(drafts)
        /\ stored'.providers = providers /\ stored'.pages = pageResults
        /\ UNCHANGED <<pageResults, providers, drafts, invalid, contactOf, viewed>>
    BY <1>7 DEF StoreRun, CountOf
  <2> QED
    BY <2>1 DEF MailInv, Recorded
<1>8. CASE ViewPage
  <2>1. /\ mailStage = "stored" /\ viewed' = FirstOr(stored.drafts, Recovered(stored))
        /\ UNCHANGED <<mailStage, pageResults, providers, drafts, invalid, contactOf, stored>>
    BY <1>8 DEF ViewPage
  <2>2. stored.drafts = drafts /\ stored.providers = providers /\ stored.pages = pageResults
    BY <2>1 DEF MailInv
  <2>3. viewed' = {} \/ viewed' = drafts \/ (invalid = {} /\ viewed' = Drafted(pageResults, providers))
    BY <2>1, <2>2 DEF FirstOr, Recovered
  <2> QED
    BY <2>1, <2>3 DEF MailInv, Recorded
<1>9. CASE UNCHANGED mailVars
  BY <1>9 DEF MailInv, Recorded, mailVars
<1> QED
  BY <1>1, <1>2, <1>3, <1>4, <1>5, <1>6, <1>7, <1>8, <1>9 DEF MailNext

\* What the invariant says is what the mails must be.
LEMMA MailsTell ==
  ASSUME MailInv
  PROVE  MailsTrue
<1> DEFINE all == Drafted(pageResults, providers)
<1>1. pageResults \in MailResults
  BY DEF MailInv
<1>2. providers = {} => all = {}
  BY NoRowsNoDrafts
<1>3. drafts \cup invalid \subseteq all /\ viewed \subseteq all
  <2> HIDE DEF all
  <2>1. drafts \cup invalid = {} \/ drafts \cup invalid = all
    BY DEF MailInv, all
  <2>2. viewed = {} \/ viewed = drafts \/ viewed = all
    BY DEF MailInv, all
  <2> QED
    BY <2>1, <2>2
<1>4. providers # {} => providers = Analysed(pageResults, contactOf)
  BY DEF MailInv, Recorded
<1> HIDE DEF all
<1>5. ASSUME NEW d \in drafts \cup viewed
      PROVE  /\ d.streams # {} /\ d.streams \subseteq Found(pageResults)
             /\ d.rows = {EvidenceOf(pageResults)[u] : u \in d.streams}
             /\ \E row \in providers : ProviderName(row) = d.provider
             /\ \A u \in d.streams :
                  LET c == contactOf[MailHost[u]] IN
                  ProviderRow(u, c).abuse = d.abuse /\ ProviderName(ProviderRow(u, c)) = d.provider
  <2>1. d \in all /\ providers = Analysed(pageResults, contactOf)
    BY <1>2, <1>3, <1>4
  <2>2. d \in Drafted(pageResults, Analysed(pageResults, contactOf))
    BY <2>1 DEF all
  <2> QED
    BY <1>1, <2>1, <2>2, DraftTells
<1>6. MailTypeOK
  <2>1. Cardinality(drafts) <= Cardinality(providers)
    <3>1. CASE providers = {}
      <4>1. drafts = {}
        BY <1>2, <1>3, <3>1
      <4> QED
        BY <3>1, <4>1, FS_EmptySet
    <3>2. CASE providers # {}
      <4>1. providers = Analysed(pageResults, contactOf)
        BY <1>4, <3>2
      <4>2. IsFiniteSet(providers) /\ IsFiniteSet(all) /\ Cardinality(all) <= Cardinality(providers)
        BY <1>1, <4>1, DraftsFew DEF all
      <4>3. drafts \subseteq all
        BY <1>3
      <4>4. Cardinality(drafts) <= Cardinality(all)
        BY <4>2, <4>3, FS_Subset
      <4>5. Cardinality(providers) \in Nat /\ Cardinality(all) \in Nat /\ Cardinality(drafts) \in Nat
        BY <4>2, <4>3, FS_Subset, FS_CardinalityType
      <4> QED
        BY <4>2, <4>4, <4>5
    <3> QED
      BY <3>1, <3>2
  <2>2. stored.count = Cardinality(stored.drafts)
    <3>1. CASE mailStage = "stored"
      BY <3>1 DEF MailInv
    <3>2. CASE mailStage # "stored"
      BY <3>2, FS_EmptySet DEF MailInv
    <3> QED
      BY <3>1, <3>2
  <2>3. mailStage \in {"analyze", "draft", "ended", "failed", "stored"}
    BY DEF MailInv
  <2> QED
    BY <1>5, <2>1, <2>2, <2>3 DEF MailTypeOK
<1>7. OwnStreamsOnly
  <2>1. \A u : LET c == contactOf[MailHost[u]] IN ProviderRow(u, c).abuse = c.abuse
    BY DEF ProviderRow
  <2> QED
    BY <1>5, <2>1 DEF OwnStreamsOnly
<1>8. EveryStreamNoticed
  <2> SUFFICES ASSUME viewed # {} PROVE UNION {d.streams : d \in viewed \cup invalid} = Found(stored.pages)
    BY DEF EveryStreamNoticed
  <2>1. stored.pages = pageResults
    BY DEF MailInv
  <2>2. viewed \cup invalid = all
    <3>1. drafts \cup invalid = {} \/ drafts \cup invalid = all
      BY DEF MailInv, all
    <3>2. viewed = drafts \/ (invalid = {} /\ viewed = all)
      BY DEF MailInv, all
    <3> QED
      BY <3>1, <3>2
  <2>3. providers = Analysed(pageResults, contactOf)
    BY <1>2, <1>3, <1>4
  <2>4. UNION {d.streams : d \in all} = Found(pageResults)
    BY <1>1, <2>3, DraftsCover DEF all
  <2> QED
    BY <2>1, <2>2, <2>4
<1>9. ShotsShowStream
  <2> SUFFICES ASSUME NEW d \in drafts \cup viewed, NEW row \in d.rows
               PROVE  /\ \E i \in DOMAIN pageResults :
                           /\ row.stream \in StreamsIn(pageResults[i])
                           /\ row.shots \subseteq
                                pageResults[i].shots \cup UNION {s.shots : s \in ToSet(pageResults[i].servers)}
                      /\ LET servers == {s \in UNION {ToSet(p.servers) : p \in ToSet(pageResults)} :
                                           row.stream \in ToSet(s.streams)}
                         IN  servers # {} => row.label \in {s.label : s \in servers}
    BY DEF ShotsShowStream
  <2> DEFINE evidence == EvidenceOf(pageResults)
             n == Len(pageResults)
  <2>1. PICK u \in d.streams : row = evidence[u]
    BY <1>5
  <2>2. u \in Found(pageResults)
    BY <1>5
  <2>3. RowTells(row, u, pageResults, n)
    <3>1. DOMAIN evidence = Found(pageResults) /\ RowsTell(evidence, pageResults, n)
      BY <1>1, EvidenceTells
    <3> HIDE DEF evidence, n
    <3> QED
      BY <2>1, <2>2, <3>1 DEF RowsTell
  <2>4. row.stream = u
    BY <2>3 DEF RowTells
  <2>5. /\ n \in Nat /\ DOMAIN pageResults = 1..n /\ ToSet(pageResults) = {pageResults[i] : i \in 1..n}
        /\ \A p \in ToSet(pageResults) : p.servers \in Seq(ToSet(p.servers))
    BY <1>1, ResultShape
  <2> HIDE DEF n
  <2>6. \E i \in DOMAIN pageResults :
           /\ row.stream \in StreamsIn(pageResults[i])
           /\ row.shots \subseteq pageResults[i].shots \cup UNION {s.shots : s \in ToSet(pageResults[i].servers)}
    BY <2>3, <2>4, <2>5 DEF RowTells, ShotsFrom, ShotsOf
  <2>7. ASSUME NEW s \in UNION {ToSet(p.servers) : p \in ToSet(pageResults)}, row.stream \in ToSet(s.streams)
        PROVE  \E t \in UNION {ToSet(p.servers) : p \in ToSet(pageResults)} :
                 row.stream \in ToSet(t.streams) /\ row.label = t.label
    <3>1. PICK i \in 1..n : s \in ToSet(pageResults[i].servers)
      BY <2>5
    <3>2. pageResults[i].servers \in Seq(ToSet(pageResults[i].servers))
      BY <2>5
    <3>3. Listing(pageResults[i], u) # {}
      BY <2>4, <2>7, <3>1, <3>2, ListingIn
    <3>4. ListedOn(pageResults, n, u)
      BY <3>3 DEF ListedOn
    <3>5. PICK j \in 1..n : \E m \in Listing(pageResults[j], u) : row.label = pageResults[j].servers[m].label
      BY <2>3, <3>4 DEF RowTells, LabelFrom
    <3>6. PICK m \in Listing(pageResults[j], u) : row.label = pageResults[j].servers[m].label
      BY <3>5
    <3>7. pageResults[j] \in ToSet(pageResults) /\ pageResults[j].servers \in Seq(ToSet(pageResults[j].servers))
      BY <2>5
    <3>8. /\ pageResults[j].servers[m] \in ToSet(pageResults[j].servers)
          /\ u \in ToSet(pageResults[j].servers[m].streams)
      BY <3>6, <3>7, ListingIn
    <3> QED
      BY <2>4, <3>6, <3>7, <3>8
  <2> QED
    BY <2>6, <2>7
<1> QED
  BY <1>6, <1>7, <1>8, <1>9 DEF MailsTrue

(* A mail names streams of its addressee only, together the mails name      *)
(* every stream that was found, and they show what they name, whatever the  *)
(* lookups answered and wherever the run was halted.                        *)
THEOREM MailsAreTrue == MailSpec => []MailsTrue
<1>1. MailInit => MailInv
  BY MailStarts
<1>2. MailInv /\ [MailNext]_mailVars => MailInv'
  BY MailSteps
<1>3. MailInv => MailsTrue
  BY MailsTell
<1> QED
  BY <1>1, <1>2, <1>3, PTL DEF MailSpec

-----------------------------------------------------------------------------
(* The page of a run.  RollInv says, besides the types: events lie in the  *)
(* order of their times, at most one per event; a row that has ended ends  *)
(* with the finish of its actor and carries its outcome, and the events of *)
(* every actor have left rows (RollRowsOK).  While no two agents shared an *)
(* actor, a row is open exactly while its agent works, and no moment is    *)
(* covered by more rows than ever worked, one by as many (RollPeaked).     *)

RollRowType == [actor : RollActor, from : Nat, to : Nat, status : {"running", "success", "partial"}]
RollEvent == [actor : RollActor, kind : {"start", "work", "finish"}, status : {"", "success", "warning"}, at : Nat]

\* What a list of events and the rows cut out of it have to do with each other.
RollLogOK(log) ==
  /\ log \in Seq(RollEvent)
  /\ \A i \in 1..Len(log) : /\ log[i].at <= i /\ \A j \in 1..i : log[j].at <= log[i].at
                            /\ log[i].kind = "finish" => log[i].status # ""

\* An event that comes next.
RollTimely(log, e) ==
  /\ e \in RollEvent /\ (e.kind = "finish" => e.status # "")
  /\ e.at <= Len(log) + 1 /\ \A i \in 1..Len(log) : log[i].at <= e.at

RollOpenOK(st, log) ==
  \A a \in RollActor : st.open[a] # RollNone =>
    /\ st.open[a].actor = a /\ st.open[a].status = "running"
    /\ \E j \in 1..Len(log) : st.open[a].from = log[j].at

RollEndOf(row, log) ==
  \E j \in 1..Len(log) :
    /\ log[j].actor = row.actor /\ log[j].kind = "finish"
    /\ log[j].at = row.to /\ RollOutcome(log[j].status) = row.status

RollClosedOK(st, log) ==
  \A i \in 1..Len(st.closed) : st.closed[i].from <= st.closed[i].to /\ RollEndOf(st.closed[i], log)

RollKnown(st, e) ==
  /\ st.open[e.actor] # RollNone \/ \E i \in 1..Len(st.closed) : st.closed[i].actor = e.actor
  /\ e.kind = "finish" =>
       \E i \in 1..Len(st.closed) : st.closed[i].actor = e.actor /\ st.closed[i].status = RollOutcome(e.status)

RollRowsOK(st, log) ==
  /\ st.open \in [RollActor -> RollRowType \cup {RollNone}] /\ st.closed \in Seq(RollRowType)
  /\ RollOpenOK(st, log) /\ RollClosedOK(st, log)
  /\ \A j \in 1..Len(log) : RollKnown(st, log[j])

\* The rows that cover a moment, the open ones without end.
RollOver(st, t) == {i \in 1..Len(st.closed) : st.closed[i].from <= t /\ t <= st.closed[i].to}
RollOn(st, t) == {a \in RollActor : st.open[a] # RollNone /\ st.open[a].from <= t}
RollCover(st, t) == Cardinality(RollOver(st, t)) + Cardinality(RollOn(st, t))

RollFrom(st, t) ==
  \/ \E i \in 1..Len(st.closed) : st.closed[i].from = t
  \/ \E a \in RollActor : st.open[a] # RollNone /\ st.open[a].from = t

\* No moment is covered more often than the peak, and one at which a row begins
\* that often.
RollPeaked(st, peak) ==
  /\ \A t \in Nat : RollCover(st, t) <= peak
  /\ peak # 0 => \E t \in Nat : RollFrom(st, t) /\ RollCover(st, t) = peak

\* While no two agents shared an actor, its row is open as long as its agent
\* works, unless the agent raised.
RollCounted(st, working, failed) ==
  \A a \in RollActor :
    /\ working[a] \in {0, 1}
    /\ a \notin failed => (st.open[a] # RollNone <=> working[a] = 1)

RollInv ==
  /\ RollTypeOK /\ RollLogOK(rollLog) /\ RollRowsOK(RollState, rollLog)
  /\ ~rollShared => RollCounted(RollState, rollWorking, rollFailed)
  /\ ~rollShared /\ rollFailed = {} => RollPeaked(RollState, rollPeak)

\* The cut, event by event.
LEMMA RollEach ==
  ASSUME NEW n \in Nat, NEW log
  PROVE  \E g : g = [i \in 0..n |-> IF i = 0 THEN RollNoRows ELSE RollRead(g[i - 1], log[i])]
<1> DEFINE T == {m \in 0..n : \E g : g = [i \in 0..m |-> IF i = 0 THEN RollNoRows ELSE RollRead(g[i - 1], log[i])]}
<1>1. 0 \in T
  <2> DEFINE g == [i \in 0..0 |-> RollNoRows]
  <2>1. g = [i \in 0..0 |-> IF i = 0 THEN RollNoRows ELSE RollRead(g[i - 1], log[i])]
    OBVIOUS
  <2> HIDE DEF g
  <2>2. \E f : f = [i \in 0..0 |-> IF i = 0 THEN RollNoRows ELSE RollRead(f[i - 1], log[i])]
    BY <2>1
  <2>3. 0 \in 0..n
    OBVIOUS
  <2> QED
    BY <2>2, <2>3
<1>2. ASSUME NEW m \in 0..(n - 1), m \in T PROVE m + 1 \in T
  <2>1. PICK g : g = [i \in 0..m |-> IF i = 0 THEN RollNoRows ELSE RollRead(g[i - 1], log[i])]
    BY <1>2
  <2> DEFINE h == [i \in 0..(m + 1) |-> IF i = m + 1 THEN RollRead(g[m], log[m + 1]) ELSE g[i]]
  <2>2. \A i \in 0..m : g[i] = IF i = 0 THEN RollNoRows ELSE RollRead(g[i - 1], log[i])
    BY <2>1
  <2>3. ASSUME NEW i \in 0..(m + 1)
        PROVE  h[i] = IF i = 0 THEN RollNoRows ELSE RollRead(h[i - 1], log[i])
    <3>1. CASE i = m + 1
      <4>1. h[i - 1] = g[m] /\ i # 0 /\ i - 1 = m
        BY <3>1
      <4>2. h[i] = RollRead(g[m], log[m + 1])
        BY <3>1
      <4> HIDE DEF h
      <4> QED
        BY <3>1, <4>1, <4>2
    <3>2. CASE i # m + 1
      <4>1. h[i] = g[i] /\ i \in 0..m
        BY <3>2
      <4>2. i # 0 => h[i - 1] = g[i - 1]
        BY <3>2
      <4> HIDE DEF h
      <4> QED
        BY <2>2, <4>1, <4>2
    <3> QED
      BY <3>1, <3>2
  <2>4. h = [i \in 0..(m + 1) |-> IF i = 0 THEN RollNoRows ELSE RollRead(h[i - 1], log[i])]
    <3>1. h = [i \in 0..(m + 1) |-> h[i]]
      OBVIOUS
    <3> HIDE DEF h
    <3> QED
      BY <2>3, <3>1
  <2>5. m + 1 \in 0..n
    OBVIOUS
  <2> HIDE DEF h
  <2> QED
    BY <2>4, <2>5
<1>3. n \in T
  <2>1. \A i \in 0..(n - 1) : i \in T => i + 1 \in T
    BY <1>2
  <2> HIDE DEF T
  <2> QED
    BY <1>1, <2>1, UpTo
<1> QED
  BY <1>3

LEMMA CutSteps ==
  ASSUME NEW log, Len(log) \in Nat
  PROVE  \E g : /\ g[0] = RollNoRows /\ RollCut(log) = g[Len(log)]
                /\ \A i \in 1..Len(log) : g[i] = RollRead(g[i - 1], log[i])
<1> DEFINE After[i \in 0..Len(log)] == IF i = 0 THEN RollNoRows ELSE RollRead(After[i - 1], log[i])
<1>1. RollCut(log) = After[Len(log)]
  BY DEF RollCut
<1>2. \E g : g = [i \in 0..Len(log) |-> IF i = 0 THEN RollNoRows ELSE RollRead(g[i - 1], log[i])]
  <2> HIDE DEF After
  <2> DEFINE n == Len(log)
  <2>1. n \in Nat
    OBVIOUS
  <2> HIDE DEF n
  <2>2. \E g : g = [i \in 0..n |-> IF i = 0 THEN RollNoRows ELSE RollRead(g[i - 1], log[i])]
    BY <2>1, RollEach
  <2> QED
    BY <2>2 DEF n
<1>3. After = [i \in 0..Len(log) |-> IF i = 0 THEN RollNoRows ELSE RollRead(After[i - 1], log[i])]
  BY <1>2
<1> HIDE DEF After
<1>4. \A i \in 0..Len(log) : After[i] = IF i = 0 THEN RollNoRows ELSE RollRead(After[i - 1], log[i])
  BY <1>3
<1>5. /\ After[0] = RollNoRows
      /\ \A i \in 1..Len(log) : After[i] = RollRead(After[i - 1], log[i])
  BY <1>4
<1> QED
  BY <1>1, <1>5


LEMMA CutNothing == RollCut(<<>>) = RollNoRows
<1>1. Len(<<>>) = 0
  OBVIOUS
<1> QED
  BY <1>1, CutSteps

\* One event more is one step more.
LEMMA CutOneMore ==
  ASSUME NEW log, log \in Seq(RollEvent), NEW e \in RollEvent
  PROVE  RollCut(Append(log, e)) = RollRead(RollCut(log), e)
<1> DEFINE more == Append(log, e)
<1>1. /\ Len(log) \in Nat /\ Len(more) = Len(log) + 1 /\ Len(more) \in Nat
      /\ \A i \in 1..Len(log) : more[i] = log[i]
      /\ more[Len(log) + 1] = e
  BY LenProperties, AppendProperties
<1> HIDE DEF more
<1>2. PICK g : /\ g[0] = RollNoRows /\ RollCut(log) = g[Len(log)]
               /\ \A i \in 1..Len(log) : g[i] = RollRead(g[i - 1], log[i])
  BY <1>1, CutSteps
<1>3. PICK h : /\ h[0] = RollNoRows /\ RollCut(more) = h[Len(more)]
               /\ \A i \in 1..Len(more) : h[i] = RollRead(h[i - 1], more[i])
  BY <1>1, CutSteps
<1> DEFINE T == {i \in 0..Len(log) : h[i] = g[i]}
<1>4. 0 \in T
  BY <1>1, <1>2, <1>3
<1>5. ASSUME NEW i \in 0..(Len(log) - 1), i \in T PROVE i + 1 \in T
  <2> DEFINE k == i + 1
  <2>1. k \in 1..Len(log) /\ k \in 1..Len(more) /\ k \in 0..Len(log) /\ k - 1 = i
    BY <1>1
  <2> HIDE DEF k
  <2>2. h[k] = RollRead(h[i], more[k]) /\ g[k] = RollRead(g[i], log[k]) /\ more[k] = log[k]
    BY <1>1, <1>2, <1>3, <2>1
  <2>3. k \in T
    BY <1>5, <2>1, <2>2
  <2> QED
    BY <2>3 DEF k
<1>6. h[Len(log)] = g[Len(log)]
  <2>1. \A i \in 0..(Len(log) - 1) : i \in T => i + 1 \in T
    BY <1>5
  <2> HIDE DEF T
  <2>2. \A i \in 0..Len(log) : i \in T
    BY <1>1, <1>4, <2>1, UpTo
  <2>3. Len(log) \in T
    BY <1>1, <2>2
  <2> QED
    BY <2>3 DEF T
<1>7. Len(more) \in 1..Len(more) /\ Len(more) - 1 = Len(log)
  BY <1>1
<1>8. h[Len(more)] = RollRead(h[Len(log)], e)
  BY <1>1, <1>3, <1>7
<1>9. RollCut(more) = RollRead(RollCut(log), e)
  BY <1>2, <1>3, <1>6, <1>8
<1> QED
  BY <1>9 DEF more

\* The row an event belongs to, and what becomes of it.
LEMMA ReadIs ==
  ASSUME NEW st, st.open \in [RollActor -> RollRowType \cup {RollNone}], NEW e \in RollEvent,
         \A a \in RollActor : st.open[a] # RollNone => st.open[a].actor = a /\ st.open[a].status = "running",
         e.kind = "finish" => e.status # ""
  PROVE  LET fresh == e.kind = "start" \/ st.open[e.actor] = RollNone
             from == IF fresh THEN e.at ELSE st.open[e.actor].from
             next == RollRead(st, e)
         IN  /\ e.kind = "finish" =>
                  LET row == [actor |-> e.actor, from |-> from, to |-> e.at, status |-> RollOutcome(e.status)]
                  IN  /\ next.open = [st.open EXCEPT ![e.actor] = RollNone]
                      /\ next.closed = Append(st.closed, row) /\ row \in RollRowType
                      /\ row.status # "running"
             /\ e.kind # "finish" =>
                  LET row == [actor |-> e.actor, from |-> from, to |-> e.at, status |-> "running"]
                  IN  /\ next.open = [st.open EXCEPT ![e.actor] = row] /\ next.closed = st.closed
                      /\ row \in RollRowType /\ row # RollNone
<1> DEFINE fresh == e.kind = "start" \/ st.open[e.actor] = RollNone
           from == IF fresh THEN e.at ELSE st.open[e.actor].from
           touched == RollTouched(st, e)
<1>1. /\ e.actor \in RollActor /\ e.at \in Nat
      /\ e.kind \in {"start", "work", "finish"} /\ e.status \in {"", "success", "warning"}
  BY DEF RollEvent
<1>2. ~fresh => /\ st.open[e.actor] \in RollRowType
                /\ st.open[e.actor].actor = e.actor /\ st.open[e.actor].status = "running"
  BY <1>1
<1>3. touched = [actor |-> e.actor, from |-> from, to |-> e.at, status |-> "running"]
  <2>1. CASE fresh
    BY <2>1 DEF RollTouched, RollOpened
  <2>2. CASE ~fresh
    <3> DEFINE row == st.open[e.actor]
    <3>1. row \in RollRowType /\ row.actor = e.actor /\ row.status = "running"
      BY <1>2, <2>2
    <3>2. touched = RollUntil(row, e.at, row.status) /\ from = row.from
      BY <2>2 DEF RollTouched
    <3> HIDE DEF touched, row, from
    <3>3. touched = [actor |-> row.actor, from |-> row.from, to |-> e.at, status |-> row.status]
      BY <3>2 DEF RollUntil
    <3> QED
      BY <3>1, <3>2, <3>3, Zenon
  <2> QED
    BY <2>1, <2>2
<1>4. from \in Nat
  <2>1. ~fresh => st.open[e.actor].from \in Nat
    BY <1>2 DEF RollRowType
  <2> QED
    BY <1>1, <2>1
<1>5. RollRead(st, e) = IF e.kind = "finish"
        THEN [open   |-> [st.open EXCEPT ![e.actor] = RollNone],
              closed |-> Append(st.closed, RollUntil(touched, touched.to, RollOutcome(e.status)))]
        ELSE [open |-> [st.open EXCEPT ![e.actor] = touched], closed |-> st.closed]
  BY DEF RollRead
<1> HIDE DEF touched, from
<1>6. CASE e.kind = "finish"
  <2> DEFINE row == [actor |-> e.actor, from |-> from, to |-> e.at, status |-> RollOutcome(e.status)]
             next == RollRead(st, e)
  <2>1. RollUntil(touched, touched.to, RollOutcome(e.status)) = row
    <3>1. touched.actor = e.actor /\ touched.from = from /\ touched.to = e.at
      BY <1>3
    <3> QED
      BY <3>1 DEF RollUntil
  <2>2. RollOutcome(e.status) \in {"success", "partial"}
    BY <1>1, <1>6 DEF RollOutcome
  <2>3. row \in RollRowType /\ row.status # "running"
    BY <1>1, <1>4, <2>2 DEF RollRowType
  <2> HIDE DEF row
  <2>4. next = [open |-> [st.open EXCEPT ![e.actor] = RollNone], closed |-> Append(st.closed, row)]
    BY <1>5, <1>6, <2>1
  <2> HIDE DEF next
  <2>5. next.open = [st.open EXCEPT ![e.actor] = RollNone] /\ next.closed = Append(st.closed, row)
    BY <2>4
  <2> QED
    BY <1>6, <2>3, <2>5 DEF row, next, from
<1>7. CASE e.kind # "finish"
  <2> DEFINE next == RollRead(st, e)
  <2>1. next = [open |-> [st.open EXCEPT ![e.actor] = touched], closed |-> st.closed]
    BY <1>5, <1>7
  <2>2. touched \in RollRowType
    BY <1>1, <1>3, <1>4 DEF RollRowType
  <2>3. touched # RollNone
    <3>1. touched.status = "running"
      BY <1>3
    <3>2. RollNone.status = "none"
      BY DEF RollNone
    <3> QED
      BY <3>1, <3>2
  <2> HIDE DEF next
  <2>4. next.open = [st.open EXCEPT ![e.actor] = touched] /\ next.closed = st.closed
    BY <2>1
  <2> QED
    BY <1>3, <1>7, <2>2, <2>3, <2>4 DEF next, from
<1> QED
  BY <1>6, <1>7

LEMMA Appended ==
  ASSUME NEW W, NEW list \in Seq(W), NEW x \in W
  PROVE  /\ Len(list) \in Nat /\ Append(list, x) \in Seq(W)
         /\ Len(Append(list, x)) = Len(list) + 1
         /\ 1..Len(Append(list, x)) = 1..Len(list) \cup {Len(list) + 1}
         /\ \A i \in 1..Len(list) : Append(list, x)[i] = list[i]
         /\ Append(list, x)[Len(list) + 1] = x
<1>1. Len(list) \in Nat
  BY LenProperties
<1>2. /\ Append(list, x) \in Seq(W)
      /\ Len(Append(list, x)) = Len(list) + 1
      /\ \A i \in 1..Len(list) : Append(list, x)[i] = list[i]
      /\ Append(list, x)[Len(list) + 1] = x
  BY AppendProperties
<1> QED
  BY <1>1, <1>2

\* Events are in the order of their times.
LEMMA LogKeeps ==
  ASSUME NEW log, RollLogOK(log), NEW e, RollTimely(log, e)
  PROVE  RollLogOK(Append(log, e))
<1> DEFINE more == Append(log, e)
           n == Len(log)
<1>1. log \in Seq(RollEvent) /\ e \in RollEvent
  BY DEF RollLogOK, RollTimely
<1>2. /\ n \in Nat /\ more \in Seq(RollEvent)
      /\ 1..Len(more) = 1..n \cup {n + 1}
      /\ \A i \in 1..n : more[i] = log[i]
      /\ more[n + 1] = e
  BY <1>1, Appended
<1> HIDE DEF more, n
<1>3. /\ e.at \in Nat /\ (e.kind = "finish" => e.status # "")
      /\ e.at <= n + 1 /\ \A i \in 1..n : log[i].at <= e.at
  BY DEF RollEvent, RollTimely, n
<1>4. ASSUME NEW i \in 1..Len(more)
      PROVE  /\ more[i].at <= i /\ \A j \in 1..i : more[j].at <= more[i].at
             /\ more[i].kind = "finish" => more[i].status # ""
  <2>1. CASE i \in 1..n
    <3>1. \A j \in 1..i : j \in 1..n /\ more[j] = log[j]
      BY <1>2, <2>1
    <3>2. more[i] = log[i]
      BY <1>2, <2>1
    <3>3. /\ log[i].at <= i /\ \A j \in 1..i : log[j].at <= log[i].at
          /\ log[i].kind = "finish" => log[i].status # ""
      BY <2>1 DEF RollLogOK, n
    <3> QED
      BY <3>1, <3>2, <3>3
  <2>2. CASE i = n + 1
    <3>1. more[i] = e
      BY <1>2, <2>2
    <3>2. ASSUME NEW j \in 1..i PROVE more[j].at <= e.at
      <4>1. CASE j \in 1..n
        <5>1. more[j] = log[j] /\ log[j].at <= e.at
          BY <1>2, <1>3, <4>1
        <5> QED
          BY <5>1
      <4>2. CASE j = i
        <5>1. more[j] = e
          BY <3>1, <4>2, Zenon
        <5>2. e.at \in Nat
          BY <1>3
        <5> QED
          BY <5>1, <5>2
      <4> QED
        BY <1>2, <2>2, <4>1, <4>2
    <3> QED
      BY <1>3, <2>2, <3>1, <3>2
  <2> QED
    BY <1>2, <2>1, <2>2
<1>5. RollLogOK(more)
  BY <1>2, <1>4 DEF RollLogOK
<1> QED
  BY <1>5 DEF more

\* What reading an event does: `from` is the beginning of its row.
RollReads(st, e, next, log, from) ==
  /\ from <= e.at
  /\ from = e.at \/ \E j \in 1..Len(log) : from = log[j].at
  /\ e.kind # "start" /\ st.open[e.actor] # RollNone => from = st.open[e.actor].from
  /\ e.kind = "start" \/ st.open[e.actor] = RollNone => from = e.at
  /\ e.kind = "finish" =>
       LET row == [actor |-> e.actor, from |-> from, to |-> e.at, status |-> RollOutcome(e.status)]
       IN  /\ next.open = [st.open EXCEPT ![e.actor] = RollNone]
           /\ next.closed = Append(st.closed, row) /\ row \in RollRowType
  /\ e.kind # "finish" =>
       LET row == [actor |-> e.actor, from |-> from, to |-> e.at, status |-> "running"]
       IN  /\ next.open = [st.open EXCEPT ![e.actor] = row]
           /\ next.closed = st.closed
           /\ row \in RollRowType /\ row # RollNone

LEMMA ReadTimely ==
  ASSUME NEW log, NEW st, RollLogOK(log), RollRowsOK(st, log), NEW e, RollTimely(log, e)
  PROVE  \E from \in Nat : RollReads(st, e, RollRead(st, e), log, from)
<1> DEFINE fresh == e.kind = "start" \/ st.open[e.actor] = RollNone
           from == IF fresh THEN e.at ELSE st.open[e.actor].from
<1>1. e \in RollEvent /\ e.actor \in RollActor /\ e.at \in Nat /\ (e.kind = "finish" => e.status # "")
  BY DEF RollEvent, RollTimely
<1>2. st.open \in [RollActor -> RollRowType \cup {RollNone}]
  BY DEF RollRowsOK
<1>3. \A a \in RollActor : st.open[a] # RollNone => st.open[a].actor = a /\ st.open[a].status = "running"
  BY DEF RollRowsOK, RollOpenOK
<1>4. ASSUME ~fresh
      PROVE  /\ st.open[e.actor].from \in Nat /\ st.open[e.actor].from <= e.at
             /\ \E j \in 1..Len(log) : st.open[e.actor].from = log[j].at
  <2>1. st.open[e.actor] \in RollRowType
    BY <1>1, <1>2, <1>4
  <2>2. st.open[e.actor].from \in Nat
    BY <2>1 DEF RollRowType
  <2>3. PICK j \in 1..Len(log) : st.open[e.actor].from = log[j].at
    BY <1>1, <1>4 DEF RollRowsOK, RollOpenOK
  <2>4. log[j].at <= e.at
    BY DEF RollTimely
  <2> QED
    BY <2>2, <2>3, <2>4
<1>5. from \in Nat /\ from <= e.at /\ (from = e.at \/ \E j \in 1..Len(log) : from = log[j].at)
  <2>1. CASE fresh
    <3>1. from = e.at
      BY <2>1
    <3>2. e.at \in Nat
      BY <1>1
    <3> HIDE DEF from
    <3> QED
      BY <3>1, <3>2
  <2>2. CASE ~fresh
    <3>1. from = st.open[e.actor].from
      BY <2>2
    <3> HIDE DEF from
    <3> QED
      BY <1>4, <2>2, <3>1
  <2> QED
    BY <2>1, <2>2
<1>6. /\ e.kind = "finish" =>
          LET row == [actor |-> e.actor, from |-> from, to |-> e.at, status |-> RollOutcome(e.status)]
          IN  /\ RollRead(st, e).open = [st.open EXCEPT ![e.actor] = RollNone]
              /\ RollRead(st, e).closed = Append(st.closed, row) /\ row \in RollRowType
              /\ row.status # "running"
      /\ e.kind # "finish" =>
          LET row == [actor |-> e.actor, from |-> from, to |-> e.at, status |-> "running"]
          IN  /\ RollRead(st, e).open = [st.open EXCEPT ![e.actor] = row] /\ RollRead(st, e).closed = st.closed
              /\ row \in RollRowType /\ row # RollNone
  <2>1. ASSUME NEW f, f \in RollEvent, f.kind = "finish" => f.status # ""
        PROVE  LET fr == f.kind = "start" \/ st.open[f.actor] = RollNone
                   begun == IF fr THEN f.at ELSE st.open[f.actor].from
                   next == RollRead(st, f)
               IN  /\ f.kind = "finish" =>
                        LET row == [actor |-> f.actor, from |-> begun, to |-> f.at, status |-> RollOutcome(f.status)]
                        IN  /\ next.open = [st.open EXCEPT ![f.actor] = RollNone]
                            /\ next.closed = Append(st.closed, row) /\ row \in RollRowType
                            /\ row.status # "running"
                   /\ f.kind # "finish" =>
                        LET row == [actor |-> f.actor, from |-> begun, to |-> f.at, status |-> "running"]
                        IN  /\ next.open = [st.open EXCEPT ![f.actor] = row] /\ next.closed = st.closed
                            /\ row \in RollRowType /\ row # RollNone
    BY <1>2, <1>3, <2>1, ReadIs
  <2> QED
    BY <1>1, <2>1
<1>7. (~fresh => from = st.open[e.actor].from) /\ (fresh => from = e.at)
  OBVIOUS
<1> HIDE DEF from
<1>8. RollReads(st, e, RollRead(st, e), log, from)
  BY <1>5, <1>6, <1>7 DEF RollReads
<1> QED
  BY <1>5, <1>8

\* One event more, and the rows still say what the events say.
LEMMA RowsKeep ==
  ASSUME NEW log, NEW st, RollLogOK(log), RollRowsOK(st, log), NEW e, RollTimely(log, e)
  PROVE  RollRowsOK(RollRead(st, e), Append(log, e))
<1> DEFINE more == Append(log, e)
           n == Len(log)
           m == Len(st.closed)
           next == RollRead(st, e)
           a0 == e.actor
<1>1. st.open \in [RollActor -> RollRowType \cup {RollNone}] /\ st.closed \in Seq(RollRowType)
  BY DEF RollRowsOK
<1>2. log \in Seq(RollEvent) /\ e \in RollEvent /\ a0 \in RollActor /\ e.at \in Nat
  BY DEF RollLogOK, RollEvent, RollTimely
<1>3. /\ n \in Nat /\ 1..Len(more) = 1..n \cup {n + 1}
      /\ \A j \in 1..n : more[j] = log[j]
      /\ more[n + 1] = e
  BY <1>2, Appended
<1>4. \A j \in 1..n : log[j].actor \in RollActor
  <2>1. \A j \in 1..n : log[j] \in RollEvent
    BY <1>2, ElementOfSeq
  <2> QED
    BY <2>1 DEF RollEvent
<1>5. PICK from \in Nat : RollReads(st, e, next, log, from)
  BY ReadTimely
<1>11. from <= e.at /\ (from = e.at \/ \E j \in 1..n : from = log[j].at)
  BY <1>5 DEF RollReads
<1>6. /\ \A row : RollEndOf(row, log) => RollEndOf(row, more)
      /\ \A t : (\E j \in 1..n : t = log[j].at) => \E j \in 1..Len(more) : t = more[j].at
      /\ \E j \in 1..Len(more) : e.at = more[j].at
  <2> HIDE DEF n, more
  <2>1. \A j \in 1..n : j \in 1..Len(more) /\ more[j] = log[j]
    BY <1>3
  <2>2. n + 1 \in 1..Len(more)
    BY <1>3
  <2>3. \A row : RollEndOf(row, log) => RollEndOf(row, more)
    BY <2>1 DEF RollEndOf, n
  <2>4. \A t : (\E j \in 1..n : t = log[j].at) => \E j \in 1..Len(more) : t = more[j].at
    BY <2>1
  <2>5. \E j \in 1..Len(more) : e.at = more[j].at
    BY <1>3, <2>2
  <2> QED
    BY <2>3, <2>4, <2>5
<1>7. \E j \in 1..Len(more) : from = more[j].at
  <2> HIDE DEF n, more
  <2> QED
    BY <1>11, <1>6
<1>8. /\ \A a \in RollActor : st.open[a] # RollNone =>
           /\ st.open[a].actor = a /\ st.open[a].status = "running"
           /\ \E j \in 1..Len(more) : st.open[a].from = more[j].at
      /\ \A i \in 1..m : st.closed[i].from <= st.closed[i].to /\ RollEndOf(st.closed[i], more)
      /\ \A j \in 1..n : RollKnown(st, log[j])
  <2> HIDE DEF more
  <2>1. \A a \in RollActor : st.open[a] # RollNone =>
           /\ st.open[a].actor = a /\ st.open[a].status = "running"
           /\ \E j \in 1..n : st.open[a].from = log[j].at
    BY DEF RollRowsOK, RollOpenOK
  <2>2. \A i \in 1..m : st.closed[i].from <= st.closed[i].to /\ RollEndOf(st.closed[i], log)
    BY DEF RollRowsOK, RollClosedOK
  <2>3. \A j \in 1..n : RollKnown(st, log[j])
    BY DEF RollRowsOK
  <2> HIDE DEF m, n
  <2> QED
    BY <1>6, <2>1, <2>2, <2>3
<1> HIDE DEF next, n, more
<1>9. CASE e.kind = "finish"
  <2> DEFINE row == [actor |-> a0, from |-> from, to |-> e.at, status |-> RollOutcome(e.status)]
  <2>1. /\ next.open = [st.open EXCEPT ![a0] = RollNone]
        /\ next.closed = Append(st.closed, row) /\ row \in RollRowType
    BY <1>5, <1>9 DEF RollReads
  <2>2. row.actor = a0 /\ row.from = from /\ row.to = e.at /\ row.status = RollOutcome(e.status)
    OBVIOUS
  <2> HIDE DEF row
  <2>3. /\ m \in Nat /\ next.closed \in Seq(RollRowType) /\ 1..Len(next.closed) = 1..m \cup {m + 1}
        /\ \A i \in 1..m : next.closed[i] = st.closed[i]
        /\ next.closed[m + 1] = row
    <3>1. \A x : x = next.closed => x = Append(st.closed, row)
      BY <2>1
    <3> QED
      BY <1>1, <2>1, Appended
  <2>4. /\ next.open \in [RollActor -> RollRowType \cup {RollNone}] /\ next.open[a0] = RollNone
        /\ \A a \in RollActor : a # a0 => next.open[a] = st.open[a]
    <3>1. RollNone \in RollRowType \cup {RollNone}
      OBVIOUS
    <3> QED
      BY <1>1, <1>2, <2>1, <3>1
  <2> HIDE DEF m
  <2>5. RollOpenOK(next, more)
    BY <1>8, <2>4 DEF RollOpenOK
  <2>6. RollClosedOK(next, more)
    <3>1. RollEndOf(row, more)
      BY <1>3, <1>9, <2>2 DEF RollEndOf
    <3>2. row.from <= row.to
      BY <1>11, <2>2
    <3>3. ASSUME NEW i \in 1..Len(next.closed)
          PROVE  next.closed[i].from <= next.closed[i].to /\ RollEndOf(next.closed[i], more)
      <4>1. CASE i \in 1..m
        BY <1>8, <2>3, <4>1
      <4>2. CASE i = m + 1
        BY <2>3, <3>1, <3>2, <4>2
      <4> QED
        BY <2>3, <4>1, <4>2
    <3> QED
      BY <3>3 DEF RollClosedOK
  <2>7. ASSUME NEW j \in 1..Len(more) PROVE RollKnown(next, more[j])
    <3>1. \A i \in 1..m : i \in 1..Len(next.closed) /\ next.closed[i] = st.closed[i]
      BY <2>3
    <3>2. m + 1 \in 1..Len(next.closed) /\ next.closed[m + 1].actor = a0
          /\ next.closed[m + 1].status = RollOutcome(e.status)
      BY <2>2, <2>3
    <3>3. CASE j \in 1..n
      <4>1. more[j] = log[j] /\ log[j].actor \in RollActor /\ RollKnown(st, log[j])
        BY <1>3, <1>4, <1>8, <3>3 DEF n
      <4>2. CASE log[j].actor = a0
        BY <3>1, <3>2, <4>1, <4>2 DEF RollKnown, m
      <4>3. CASE log[j].actor # a0
        BY <2>4, <3>1, <4>1, <4>3 DEF RollKnown, m
      <4> QED
        BY <4>2, <4>3
    <3>4. CASE j = n + 1
      <4>1. more[j] = e
        BY <1>3, <3>4
      <4> QED
        BY <3>2, <4>1 DEF RollKnown
    <3> QED
      BY <1>3, <3>3, <3>4
  <2>8. RollRowsOK(next, more)
    BY <2>3, <2>4, <2>5, <2>6, <2>7 DEF RollRowsOK
  <2> QED
    BY <2>8 DEF next, more
<1>10. CASE e.kind # "finish"
  <2> DEFINE row == [actor |-> a0, from |-> from, to |-> e.at, status |-> "running"]
  <2>1. /\ next.open = [st.open EXCEPT ![a0] = row] /\ next.closed = st.closed
        /\ row \in RollRowType /\ row # RollNone
    BY <1>5, <1>10 DEF RollReads
  <2>2. row.actor = a0 /\ row.from = from /\ row.to = e.at /\ row.status = "running"
    OBVIOUS
  <2> HIDE DEF row
  <2>3. /\ next.open \in [RollActor -> RollRowType \cup {RollNone}] /\ next.open[a0] = row
        /\ \A a \in RollActor : a # a0 => next.open[a] = st.open[a]
    BY <1>1, <1>2, <2>1
  <2>4. next.closed \in Seq(RollRowType) /\ Len(next.closed) = m
    BY <1>1, <2>1
  <2> HIDE DEF m
  <2>5. RollOpenOK(next, more)
    <3>1. ASSUME NEW a \in RollActor, next.open[a] # RollNone
          PROVE  /\ next.open[a].actor = a /\ next.open[a].status = "running"
                 /\ \E j \in 1..Len(more) : next.open[a].from = more[j].at
      <4>1. CASE a = a0
        BY <1>7, <2>2, <2>3, <4>1
      <4>2. CASE a # a0
        <5>1. next.open[a] = st.open[a]
          BY <2>3, <4>2
        <5> QED
          BY <1>8, <3>1, <5>1
      <4> QED
        BY <4>1, <4>2
    <3> QED
      BY <3>1 DEF RollOpenOK
  <2>6. RollClosedOK(next, more)
    BY <1>8, <2>1, <2>4 DEF RollClosedOK
  <2>7. ASSUME NEW j \in 1..Len(more) PROVE RollKnown(next, more[j])
    <3>1. CASE j \in 1..n
      <4>1. more[j] = log[j] /\ log[j].actor \in RollActor /\ RollKnown(st, log[j])
        BY <1>3, <1>4, <1>8, <3>1 DEF n
      <4>2. st.open[log[j].actor] # RollNone => next.open[log[j].actor] # RollNone
        BY <2>1, <2>3, <4>1
      <4> QED
        BY <2>1, <4>1, <4>2 DEF RollKnown
    <3>2. CASE j = n + 1
      <4>1. more[j] = e
        BY <1>3, <3>2
      <4> QED
        BY <1>10, <2>1, <2>3, <4>1 DEF RollKnown
    <3> QED
      BY <1>3, <3>1, <3>2
  <2>8. RollRowsOK(next, more)
    BY <2>3, <2>4, <2>5, <2>6, <2>7 DEF RollRowsOK
  <2> QED
    BY <2>8 DEF next, more
<1> QED
  BY <1>9, <1>10

-----------------------------------------------------------------------------
\* Rows lie in the past.
NoEndAt(log, t) == \A j \in 1..Len(log) : log[j].kind = "finish" => log[j].at # t

LEMMA RowsPast ==
  ASSUME NEW log, NEW st, RollLogOK(log), RollRowsOK(st, log), NEW e, RollTimely(log, e)
  PROVE  /\ e.at \in Nat /\ Len(st.closed) \in Nat
         /\ \A i \in 1..Len(st.closed) :
              /\ st.closed[i].from \in Nat /\ st.closed[i].to \in Nat
              /\ st.closed[i].from <= st.closed[i].to /\ st.closed[i].to <= e.at
              /\ NoEndAt(log, e.at) => st.closed[i].to < e.at
         /\ \A a \in RollActor : st.open[a] # RollNone => st.open[a].from \in Nat /\ st.open[a].from <= e.at
<1>1. e.at \in Nat
  BY DEF RollTimely, RollEvent
<1>2. \A j \in 1..Len(log) : log[j].at \in Nat /\ log[j].at <= e.at
  <2>1. \A j \in 1..Len(log) : log[j] \in RollEvent
    BY ElementOfSeq DEF RollLogOK
  <2> QED
    BY <2>1 DEF RollTimely, RollEvent
<1>3. st.closed \in Seq(RollRowType)
  BY DEF RollRowsOK
<1>4. Len(st.closed) \in Nat
  BY <1>3, LenProperties
<1>5. ASSUME NEW i \in 1..Len(st.closed)
      PROVE  /\ st.closed[i].from \in Nat /\ st.closed[i].to \in Nat
             /\ st.closed[i].from <= st.closed[i].to /\ st.closed[i].to <= e.at
             /\ NoEndAt(log, e.at) => st.closed[i].to < e.at
  <2>1. st.closed[i] \in RollRowType
    BY <1>3, ElementOfSeq
  <2>2. st.closed[i].from \in Nat /\ st.closed[i].to \in Nat
    BY <2>1 DEF RollRowType
  <2>3. st.closed[i].from <= st.closed[i].to /\ RollEndOf(st.closed[i], log)
    BY DEF RollRowsOK, RollClosedOK
  <2>4. PICK j \in 1..Len(log) : log[j].kind = "finish" /\ log[j].at = st.closed[i].to
    BY <2>3 DEF RollEndOf
  <2>5. log[j].at <= e.at
    BY <1>2
  <2>6. NoEndAt(log, e.at) => log[j].at # e.at
    BY <2>4 DEF NoEndAt
  <2> QED
    BY <1>1, <2>2, <2>3, <2>4, <2>5, <2>6
<1>6. ASSUME NEW a \in RollActor, st.open[a] # RollNone
      PROVE  st.open[a].from \in Nat /\ st.open[a].from <= e.at
  <2>1. PICK j \in 1..Len(log) : st.open[a].from = log[j].at
    BY <1>6 DEF RollRowsOK, RollOpenOK
  <2> QED
    BY <1>2, <2>1
<1> QED
  BY <1>1, <1>4, <1>5, <1>6

LEMMA CoverCounted ==
  ASSUME NEW st, Len(st.closed) \in Nat, NEW t
  PROVE  /\ IsFiniteSet(RollOver(st, t)) /\ Cardinality(RollOver(st, t)) \in Nat
         /\ IsFiniteSet(RollOn(st, t)) /\ Cardinality(RollOn(st, t)) \in Nat
         /\ RollCover(st, t) \in Nat
<1>1. IsFiniteSet(1..Len(st.closed))
  BY FS_Interval
<1>2. RollOver(st, t) \in SUBSET (1..Len(st.closed)) /\ RollOn(st, t) \in SUBSET RollActor
  BY DEF RollOver, RollOn
<1>3. IsFiniteSet(RollActor)
  BY RollAssumption
<1>4. IsFiniteSet(RollOver(st, t)) /\ IsFiniteSet(RollOn(st, t))
  BY <1>1, <1>2, <1>3, FS_Subset
<1>5. Cardinality(RollOver(st, t)) \in Nat /\ Cardinality(RollOn(st, t)) \in Nat
  BY <1>4, FS_CardinalityType
<1> QED
  BY <1>4, <1>5 DEF RollCover

\* A beginning: from then on all the open rows cover, and before nothing changes.
LEMMA BeginPeaks ==
  ASSUME NEW log, NEW st, RollLogOK(log), RollRowsOK(st, log), NEW e, RollTimely(log, e),
         NEW next, NEW from \in Nat, RollReads(st, e, next, log, from), e.kind = "start",
         st.open[e.actor] = RollNone, NoEndAt(log, e.at),
         NEW peak \in Nat, RollPeaked(st, peak),
         NEW busy \in Nat, busy = Cardinality({a \in RollActor : next.open[a] # RollNone}),
         NEW most, most = IF busy > peak THEN busy ELSE peak
  PROVE  RollPeaked(next, most)
<1> DEFINE a0 == e.actor
           m == Len(st.closed)
           now == e.at
           working == {a \in RollActor : next.open[a] # RollNone}
<1>1. /\ now \in Nat /\ m \in Nat
      /\ \A i \in 1..m : st.closed[i].to \in Nat /\ st.closed[i].to < now
      /\ \A a \in RollActor : st.open[a] # RollNone => st.open[a].from \in Nat /\ st.open[a].from <= now
  BY RowsPast
<1>2. a0 \in RollActor
  BY DEF RollTimely, RollEvent
<1>3. st.open \in [RollActor -> RollRowType \cup {RollNone}]
  BY DEF RollRowsOK
<1>4. /\ next.closed = st.closed
      /\ next.open[a0] # RollNone /\ next.open[a0].from = now
      /\ \A a \in RollActor : a # a0 => next.open[a] = st.open[a]
  <2> DEFINE row == [actor |-> e.actor, from |-> from, to |-> e.at, status |-> "running"]
  <2>1. from = now /\ next.open = [st.open EXCEPT ![a0] = row] /\ next.closed = st.closed /\ row # RollNone
    BY DEF RollReads
  <2>2. row.from = from
    OBVIOUS
  <2> HIDE DEF row
  <2> QED
    BY <1>2, <1>3, <2>1, <2>2
<1>5. Len(next.closed) \in Nat
  BY <1>1, <1>4
<1> HIDE DEF now, a0, working
<1>6. ASSUME NEW t \in Nat, t < now PROVE RollCover(next, t) = RollCover(st, t)
  <2>1. RollOver(next, t) = RollOver(st, t)
    BY <1>4 DEF RollOver
  <2>2. \A a \in RollActor : (next.open[a] # RollNone /\ next.open[a].from <= t)
                               <=> (st.open[a] # RollNone /\ st.open[a].from <= t)
    <3>1. ~(now <= t)
      BY <1>1, <1>6
    <3>2. st.open[a0] = RollNone
      BY DEF a0
    <3> QED
      BY <1>4, <3>1, <3>2
  <2>3. RollOn(next, t) = RollOn(st, t)
    BY <2>2 DEF RollOn
  <2> QED
    BY <2>1, <2>3 DEF RollCover
<1>7. ASSUME NEW t \in Nat, now <= t PROVE RollCover(next, t) = busy
  <2>1. RollOver(next, t) = {}
    <3>1. \A i \in 1..m : ~(t <= st.closed[i].to)
      BY <1>1, <1>7
    <3> QED
      BY <1>4, <3>1 DEF RollOver
  <2>2. RollOn(next, t) = working
    <3>1. \A a \in RollActor : next.open[a] # RollNone => next.open[a].from <= t
      <4>1. ASSUME NEW a \in RollActor, next.open[a] # RollNone PROVE next.open[a].from <= t
        <5>1. CASE a = a0
          BY <1>4, <1>7, <5>1
        <5>2. CASE a # a0
          <6>1. next.open[a] = st.open[a]
            BY <1>4, <5>2
          <6>2. st.open[a].from \in Nat /\ st.open[a].from <= now
            BY <1>1, <4>1, <6>1
          <6> QED
            BY <1>1, <1>7, <6>1, <6>2
        <5> QED
          BY <5>1, <5>2
      <4> QED
        BY <4>1
    <3> QED
      BY <3>1 DEF RollOn, working
  <2>3. Cardinality(RollOver(next, t)) = 0 /\ Cardinality(RollOn(next, t)) = busy
    BY <2>1, <2>2, FS_EmptySet DEF working
  <2> QED
    BY <2>3 DEF RollCover
<1>8. most \in Nat /\ busy <= most /\ peak <= most /\ (most = busy \/ most = peak)
  OBVIOUS
<1>9. ASSUME NEW t \in Nat PROVE RollCover(next, t) <= most
  <2>1. CASE t < now
    <3>1. RollCover(st, t) <= peak
      BY DEF RollPeaked
    <3>2. RollCover(st, t) \in Nat
      BY <1>1, CoverCounted
    <3> QED
      BY <1>6, <1>8, <2>1, <3>1, <3>2
  <2>2. CASE now <= t
    BY <1>7, <1>8, <2>2
  <2> QED
    BY <1>1, <2>1, <2>2
<1>10. ASSUME most # 0 PROVE \E t \in Nat : RollFrom(next, t) /\ RollCover(next, t) = most
  <2>1. CASE most = busy
    <3>1. RollFrom(next, now)
      BY <1>2, <1>4 DEF RollFrom, a0
    <3>2. RollCover(next, now) = most
      BY <1>1, <1>7, <2>1
    <3> QED
      BY <1>1, <3>1, <3>2
  <2>2. CASE most = peak
    <3>1. PICK t \in Nat : RollFrom(st, t) /\ RollCover(st, t) = peak
      BY <1>10, <2>2 DEF RollPeaked
    <3>2. RollFrom(next, t)
      <4>1. st.open[a0] = RollNone
        BY DEF a0
      <4> QED
        BY <1>4, <3>1, <4>1 DEF RollFrom
    <3>3. RollCover(next, t) = most
      <4>1. CASE t < now
        BY <1>6, <2>2, <3>1, <4>1
      <4>2. CASE now <= t
        <5>1. RollOver(next, t) = RollOver(st, t)
          BY <1>4 DEF RollOver
        <5>2. RollOn(st, t) \in SUBSET RollOn(next, t)
          <6>1. st.open[a0] = RollNone
            BY DEF a0
          <6> QED
            BY <1>4, <6>1 DEF RollOn
        <5>3. Cardinality(RollOn(st, t)) <= Cardinality(RollOn(next, t))
          BY <1>5, <5>2, CoverCounted, FS_Subset
        <5>4. RollCover(st, t) <= RollCover(next, t)
          <6>1. /\ Cardinality(RollOn(st, t)) \in Nat /\ Cardinality(RollOver(st, t)) \in Nat
                /\ Cardinality(RollOn(next, t)) \in Nat
            BY <1>1, <1>5, CoverCounted
          <6> QED
            BY <5>1, <5>3, <6>1 DEF RollCover
        <5>5. RollCover(next, t) <= most /\ RollCover(next, t) \in Nat
          BY <1>5, <1>9, CoverCounted
        <5> QED
          BY <1>8, <2>2, <3>1, <5>4, <5>5
      <4> QED
        BY <1>1, <4>1, <4>2
    <3> QED
      BY <3>2, <3>3
  <2> QED
    BY <1>8, <2>1, <2>2
<1> QED
  BY <1>9, <1>10 DEF RollPeaked

\* Work moves the end of an open row, which covers all the same.
LEMMA WorkPeaks ==
  ASSUME NEW log, NEW st, RollRowsOK(st, log), NEW e, RollTimely(log, e),
         NEW next, NEW from \in Nat, RollReads(st, e, next, log, from), e.kind = "work",
         st.open[e.actor] # RollNone, NEW peak, RollPeaked(st, peak)
  PROVE  RollPeaked(next, peak)
<1> DEFINE a0 == e.actor
<1>1. a0 \in RollActor /\ st.open \in [RollActor -> RollRowType \cup {RollNone}]
  BY DEF RollTimely, RollEvent, RollRowsOK
<1>2. /\ next.closed = st.closed
      /\ \A a \in RollActor : /\ next.open[a] # RollNone <=> st.open[a] # RollNone
                              /\ st.open[a] # RollNone => next.open[a].from = st.open[a].from
  <2> DEFINE row == [actor |-> e.actor, from |-> from, to |-> e.at, status |-> "running"]
  <2>1. /\ from = st.open[a0].from /\ next.open = [st.open EXCEPT ![a0] = row]
        /\ next.closed = st.closed /\ row # RollNone
    BY DEF RollReads
  <2>2. row.from = from
    OBVIOUS
  <2> HIDE DEF row
  <2> QED
    BY <1>1, <2>1, <2>2
<1> HIDE DEF a0
<1>3. \A t : RollOver(next, t) = RollOver(st, t) /\ RollOn(next, t) = RollOn(st, t)
  BY <1>2 DEF RollOver, RollOn
<1>4. \A t : RollCover(next, t) = RollCover(st, t)
  BY <1>3 DEF RollCover
<1>5. \A t : RollFrom(st, t) => RollFrom(next, t)
  BY <1>2 DEF RollFrom
<1> QED
  BY <1>4, <1>5 DEF RollPeaked

\* An end closes the row at the present moment: later it covers no more.
LEMMA EndPeaks ==
  ASSUME NEW log, NEW st, RollLogOK(log), RollRowsOK(st, log), NEW e, RollTimely(log, e),
         NEW next, NEW from \in Nat, RollReads(st, e, next, log, from), e.kind = "finish",
         st.open[e.actor] # RollNone, NEW peak \in Nat, RollPeaked(st, peak)
  PROVE  RollPeaked(next, peak)
<1> DEFINE a0 == e.actor
           m == Len(st.closed)
           now == e.at
           row == [actor |-> e.actor, from |-> from, to |-> e.at, status |-> RollOutcome(e.status)]
<1>1. /\ now \in Nat /\ m \in Nat
      /\ \A i \in 1..m : /\ st.closed[i].from \in Nat /\ st.closed[i].to \in Nat
                         /\ st.closed[i].from <= st.closed[i].to /\ st.closed[i].to <= now
      /\ \A a \in RollActor : st.open[a] # RollNone => st.open[a].from \in Nat /\ st.open[a].from <= now
  BY RowsPast
<1>2. a0 \in RollActor /\ st.open \in [RollActor -> RollRowType \cup {RollNone}]
  BY DEF RollTimely, RollEvent, RollRowsOK
<1>3. st.closed \in Seq(RollRowType)
  BY DEF RollRowsOK
<1>4. /\ from = st.open[a0].from /\ next.open = [st.open EXCEPT ![a0] = RollNone]
      /\ next.closed = Append(st.closed, row) /\ row \in RollRowType
  BY DEF RollReads
<1>5. row.from = from /\ row.to = now
  OBVIOUS
<1> HIDE DEF row
<1>6. /\ 1..Len(next.closed) = 1..m \cup {m + 1} /\ Len(next.closed) \in Nat
      /\ \A i \in 1..m : next.closed[i] = st.closed[i]
      /\ next.closed[m + 1] = row
  <2>1. Len(Append(st.closed, row)) = m + 1
    BY <1>3, <1>4, Appended
  <2> QED
    BY <1>1, <1>3, <1>4, <2>1, Appended
<1>7. next.open[a0] = RollNone /\ \A a \in RollActor : a # a0 => next.open[a] = st.open[a]
  BY <1>2, <1>4
<1>8. st.open[a0] # RollNone /\ m + 1 \notin 1..m
  BY <1>1
<1> HIDE DEF a0, m, now
<1>9. ASSUME NEW t \in Nat
      PROVE  /\ RollOn(next, t) = RollOn(st, t) \ {a0}
             /\ a0 \in RollOn(st, t) <=> from <= t
             /\ RollOver(next, t) = IF from <= t /\ t <= now THEN RollOver(st, t) \cup {m + 1} ELSE RollOver(st, t)
             /\ m + 1 \notin RollOver(st, t)
  <2>1. RollOn(next, t) = RollOn(st, t) \ {a0}
    BY <1>7 DEF RollOn
  <2>2. a0 \in RollOn(st, t) <=> from <= t
    BY <1>2, <1>4, <1>8 DEF RollOn
  <2>3. m + 1 \notin RollOver(st, t)
    BY <1>8 DEF RollOver, m
  <2>4. \A i : i \in RollOver(next, t) <=> i \in RollOver(st, t) \/ (i = m + 1 /\ from <= t /\ t <= now)
    <3>1. RollOver(next, t) = {i \in 1..m \cup {m + 1} : next.closed[i].from <= t /\ t <= next.closed[i].to}
      BY <1>6 DEF RollOver
    <3>2. RollOver(st, t) = {i \in 1..m : st.closed[i].from <= t /\ t <= st.closed[i].to}
      BY DEF RollOver, m
    <3>3. \A i \in 1..m : i \in RollOver(next, t) <=> i \in RollOver(st, t)
      BY <1>6, <3>1, <3>2
    <3>4. m + 1 \in RollOver(next, t) <=> from <= t /\ t <= now
      BY <1>5, <1>6, <3>1
    <3>5. \A i \in RollOver(next, t) : i \in 1..m \/ i = m + 1
      BY <3>1
    <3>6. \A i \in RollOver(st, t) : i \in 1..m
      BY <3>2
    <3> QED
      BY <3>3, <3>4, <3>5, <3>6, Zenon
  <2>5. RollOver(next, t) = IF from <= t /\ t <= now THEN RollOver(st, t) \cup {m + 1} ELSE RollOver(st, t)
    BY <2>4
  <2> QED
    BY <2>1, <2>2, <2>3, <2>5
<1>10. ASSUME NEW t \in Nat
       PROVE  /\ RollCover(next, t) \in Nat /\ RollCover(next, t) <= RollCover(st, t) /\ RollCover(st, t) \in Nat
              /\ t <= now => RollCover(next, t) = RollCover(st, t)
  <2> DEFINE over == Cardinality(RollOver(st, t))
             on == Cardinality(RollOn(st, t))
  <2>1. /\ IsFiniteSet(RollOver(st, t)) /\ over \in Nat /\ IsFiniteSet(RollOn(st, t)) /\ on \in Nat
        /\ RollCover(next, t) \in Nat /\ RollCover(st, t) \in Nat
    BY <1>1, <1>6, CoverCounted DEF m
  <2>2. Cardinality(RollOver(st, t) \cup {m + 1}) = over + 1
    BY <1>9, <2>1, FS_AddElement
  <2>3. Cardinality(RollOn(st, t) \ {a0}) = IF a0 \in RollOn(st, t) THEN on - 1 ELSE on
    BY <2>1, FS_RemoveElement
  <2>4. RollCover(st, t) = over + on
    BY DEF RollCover
  <2>5. RollCover(next, t) = Cardinality(RollOver(next, t)) + Cardinality(RollOn(next, t))
    BY DEF RollCover
  <2> HIDE DEF over, on
  <2>6. CASE from <= t /\ t <= now
    <3>1. Cardinality(RollOver(next, t)) = over + 1 /\ Cardinality(RollOn(next, t)) = on - 1
      BY <1>9, <2>2, <2>3, <2>6
    <3> QED
      BY <2>1, <2>4, <2>5, <3>1
  <2>7. CASE ~(from <= t)
    <3>1. Cardinality(RollOver(next, t)) = over /\ Cardinality(RollOn(next, t)) = on
      BY <1>9, <2>3, <2>7 DEF over
    <3> QED
      BY <2>1, <2>4, <2>5, <3>1
  <2>8. CASE from <= t /\ ~(t <= now)
    <3>1. Cardinality(RollOver(next, t)) = over /\ Cardinality(RollOn(next, t)) = on - 1
      BY <1>9, <2>3, <2>8 DEF over
    <3> QED
      BY <2>1, <2>4, <2>5, <2>8, <3>1
  <2> QED
    BY <2>6, <2>7, <2>8
<1>11. ASSUME NEW t \in Nat, RollFrom(st, t) PROVE RollFrom(next, t) /\ t <= now
  <2>1. CASE \E i \in 1..Len(st.closed) : st.closed[i].from = t
    <3>1. PICK i \in 1..m : st.closed[i].from = t
      BY <2>1 DEF m
    <3>2. i \in 1..Len(next.closed) /\ next.closed[i].from = t
      BY <1>6, <3>1
    <3>3. t <= now
      <4>1. st.closed[i].to \in Nat /\ t <= st.closed[i].to /\ st.closed[i].to <= now /\ now \in Nat
        BY <1>1, <3>1
      <4> HIDE DEF now
      <4> QED
        BY <4>1
    <3> QED
      BY <3>2, <3>3 DEF RollFrom
  <2>2. CASE \E a \in RollActor : st.open[a] # RollNone /\ st.open[a].from = t
    <3>1. PICK a \in RollActor : st.open[a] # RollNone /\ st.open[a].from = t
      BY <2>2
    <3>2. t <= now
      BY <1>1, <3>1 DEF now
    <3>3. CASE a = a0
      <4>1. m + 1 \in 1..Len(next.closed) /\ next.closed[m + 1].from = t
        BY <1>4, <1>5, <1>6, <3>1, <3>3
      <4> QED
        BY <3>2, <4>1 DEF RollFrom
    <3>4. CASE a # a0
      <4>1. next.open[a] = st.open[a]
        BY <1>7, <3>4
      <4> QED
        BY <3>1, <3>2, <4>1 DEF RollFrom
    <3> QED
      BY <3>3, <3>4
  <2> QED
    BY <1>11, <2>1, <2>2 DEF RollFrom
<1>12. \A t \in Nat : RollCover(next, t) <= peak
  <2>1. \A t \in Nat : RollCover(st, t) <= peak
    BY DEF RollPeaked
  <2> QED
    BY <1>10, <2>1
<1>13. ASSUME peak # 0 PROVE \E t \in Nat : RollFrom(next, t) /\ RollCover(next, t) = peak
  <2>1. PICK t \in Nat : RollFrom(st, t) /\ RollCover(st, t) = peak
    BY <1>13 DEF RollPeaked
  <2> QED
    BY <1>10, <1>11, <2>1
<1> QED
  BY <1>12, <1>13 DEF RollPeaked

-----------------------------------------------------------------------------
\* The peak of the page, of rows that have all finished.
LEMMA EntryBefore ==
  ASSUME NEW rows, NEW n \in Nat, DOMAIN rows = 1..n,
         \A i \in 1..n : rows[i].from \in Nat /\ rows[i].to \in Nat /\ rows[i].from <= rows[i].to,
         NEW t \in Nat
  PROVE  /\ \A i \in 1..n :
              /\ RollBefore(RollBegun([from |-> t]), RollBegun(rows[i])) <=> t < rows[i].from
              /\ RollBefore(RollBegun([from |-> t]), RollEnded(rows[i])) <=> t <= rows[i].to
              /\ RollBefore(RollEnded([to |-> t]), RollBegun(rows[i])) <=> t < rows[i].from
              /\ RollBefore(RollEnded([to |-> t]), RollEnded(rows[i])) <=> t < rows[i].to
<1> SUFFICES ASSUME NEW i \in 1..n
             PROVE  /\ RollBefore(RollBegun([from |-> t]), RollBegun(rows[i])) <=> t < rows[i].from
                    /\ RollBefore(RollBegun([from |-> t]), RollEnded(rows[i])) <=> t <= rows[i].to
                    /\ RollBefore(RollEnded([to |-> t]), RollBegun(rows[i])) <=> t < rows[i].from
                    /\ RollBefore(RollEnded([to |-> t]), RollEnded(rows[i])) <=> t < rows[i].to
  OBVIOUS
<1>1. rows[i].from \in Nat /\ rows[i].to \in Nat
  OBVIOUS
<1> QED
  BY <1>1 DEF RollBefore, RollBegun, RollEnded

LEMMA ActiveIs ==
  ASSUME NEW st, st.closed \in Seq(RollRowType),
         \A i \in 1..Len(st.closed) : st.closed[i].from <= st.closed[i].to, NEW t \in Nat
  PROVE  /\ RollActive(st.closed, RollBegun([from |-> t])) = Cardinality(RollOver(st, t))
         /\ RollActive(st.closed, RollEnded([to |-> t])) \in Int
         /\ RollActive(st.closed, RollEnded([to |-> t])) <= Cardinality(RollOver(st, t))
<1> DEFINE rows == st.closed
           n == Len(st.closed)
           begun == {i \in 1..n : rows[i].from <= t}
           over == {i \in 1..n : rows[i].to < t}
           finished == {i \in 1..n : rows[i].to <= t}
<1>1. n \in Nat /\ DOMAIN rows = 1..n
  BY LenProperties
<1>2. \A i \in 1..n : rows[i].from \in Nat /\ rows[i].to \in Nat /\ rows[i].from <= rows[i].to
  <2>1. \A i \in 1..n : rows[i] \in RollRowType
    BY ElementOfSeq
  <2> QED
    BY <2>1 DEF RollRowType
<1>3. RollOver(st, t) = {i \in 1..n : rows[i].from <= t /\ t <= rows[i].to}
  BY DEF RollOver
<1>4. IsFiniteSet(1..n)
  BY <1>1, FS_Interval
<1> HIDE DEF rows, n
<1>5. \A i \in 1..n :
              /\ RollBefore(RollBegun([from |-> t]), RollBegun(rows[i])) <=> t < rows[i].from
              /\ RollBefore(RollBegun([from |-> t]), RollEnded(rows[i])) <=> t <= rows[i].to
              /\ RollBefore(RollEnded([to |-> t]), RollBegun(rows[i])) <=> t < rows[i].from
              /\ RollBefore(RollEnded([to |-> t]), RollEnded(rows[i])) <=> t < rows[i].to
  BY <1>1, <1>2, EntryBefore
<1>6. /\ {i \in DOMAIN rows : ~RollBefore(RollBegun([from |-> t]), RollBegun(rows[i]))} = begun
      /\ {i \in DOMAIN rows : ~RollBefore(RollBegun([from |-> t]), RollEnded(rows[i]))} = over
      /\ {i \in DOMAIN rows : ~RollBefore(RollEnded([to |-> t]), RollBegun(rows[i]))} = begun
      /\ {i \in DOMAIN rows : ~RollBefore(RollEnded([to |-> t]), RollEnded(rows[i]))} = finished
  <2>1. \A i \in 1..n : /\ ~(t < rows[i].from) <=> rows[i].from <= t
                        /\ ~(t <= rows[i].to) <=> rows[i].to < t
                        /\ ~(t < rows[i].to) <=> rows[i].to <= t
    BY <1>2
  <2> QED
    BY <1>1, <1>5, <2>1
<1>7. /\ RollActive(rows, RollBegun([from |-> t])) = Cardinality(begun) - Cardinality(over)
      /\ RollActive(rows, RollEnded([to |-> t])) = Cardinality(begun) - Cardinality(finished)
  BY <1>6 DEF RollActive
<1>8. begun \ over = RollOver(st, t) /\ begun \cap over = over
  BY <1>2, <1>3
<1>9. begun \cap finished = finished /\ begun \ finished \subseteq RollOver(st, t)
  BY <1>2, <1>3
<1>10. begun \in SUBSET (1..n) /\ RollOver(st, t) \in SUBSET (1..n) /\ finished \in SUBSET (1..n) /\ over \in SUBSET (1..n)
  BY <1>3
<1> HIDE DEF begun, over, finished
<1>11. IsFiniteSet(begun) /\ IsFiniteSet(over) /\ IsFiniteSet(finished) /\ IsFiniteSet(RollOver(st, t))
  BY <1>4, <1>10, FS_Subset
<1>12. /\ Cardinality(begun) \in Nat /\ Cardinality(over) \in Nat /\ Cardinality(finished) \in Nat
       /\ Cardinality(RollOver(st, t)) \in Nat
  BY <1>11, FS_CardinalityType
<1>13. Cardinality(RollOver(st, t)) = Cardinality(begun) - Cardinality(over)
  BY <1>8, <1>11, FS_Difference
<1>14. Cardinality(begun \ finished) = Cardinality(begun) - Cardinality(finished)
  BY <1>9, <1>11, FS_Difference
<1>15. Cardinality(begun \ finished) <= Cardinality(RollOver(st, t))
  BY <1>9, <1>11, FS_Subset
<1>16. /\ RollActive(rows, RollBegun([from |-> t])) = Cardinality(RollOver(st, t))
       /\ RollActive(rows, RollEnded([to |-> t])) \in Int
       /\ RollActive(rows, RollEnded([to |-> t])) <= Cardinality(RollOver(st, t))
  BY <1>7, <1>12, <1>13, <1>14, <1>15
<1> QED
  BY <1>16 DEF rows

LEMMA PeakFound ==
  ASSUME NEW st, NEW log, RollRowsOK(st, log), \A a \in RollActor : st.open[a] = RollNone,
         NEW peak \in Nat, RollPeaked(st, peak)
  PROVE  RollMax(st.closed) = peak
<1> DEFINE rows == st.closed
           n == Len(st.closed)
           sums == {0} \cup {RollActive(rows, e) : e \in RollTimeLine(rows)}
<1>1. rows \in Seq(RollRowType) /\ \A i \in 1..n : rows[i].from <= rows[i].to
  BY DEF RollRowsOK, RollClosedOK
<1>2. n \in Nat /\ DOMAIN rows = 1..n /\ \A i \in 1..n : rows[i].from \in Nat /\ rows[i].to \in Nat
  <2>1. \A i \in 1..n : rows[i] \in RollRowType
    BY <1>1, ElementOfSeq
  <2>2. n \in Nat /\ DOMAIN rows = 1..n
    BY <1>1, LenProperties
  <2> QED
    BY <2>1, <2>2 DEF RollRowType
<1>3. ASSUME NEW t \in Nat PROVE Cardinality(RollOver(st, t)) = RollCover(st, t) /\ RollCover(st, t) \in Nat
  <2>1. RollOn(st, t) = {}
    BY DEF RollOn
  <2>2. Cardinality(RollOn(st, t)) = 0
    BY <2>1, FS_EmptySet
  <2>3. Cardinality(RollOver(st, t)) \in Nat /\ RollCover(st, t) \in Nat
    BY <1>2, CoverCounted
  <2> QED
    BY <2>2, <2>3 DEF RollCover
<1>4. ASSUME NEW t \in Nat
      PROVE  /\ RollActive(rows, RollBegun([from |-> t])) = RollCover(st, t)
             /\ RollActive(rows, RollEnded([to |-> t])) \in Int
             /\ RollActive(rows, RollEnded([to |-> t])) <= RollCover(st, t)
  BY <1>1, <1>3, ActiveIs
<1>5. ASSUME NEW t \in Nat PROVE RollCover(st, t) <= peak
  BY DEF RollPeaked
<1>6. /\ \A e \in RollTimeLine(rows) :
           \/ \E i \in 1..n : e = RollBegun([from |-> rows[i].from])
           \/ \E i \in 1..n : e = RollEnded([to |-> rows[i].to])
      /\ \A i \in 1..n : RollBegun([from |-> rows[i].from]) \in RollTimeLine(rows)
  <2> HIDE DEF rows, n
  <2>1. \A i \in 1..n : RollBegun([from |-> rows[i].from]) = RollBegun(rows[i])
    BY DEF RollBegun
  <2>2. \A i \in 1..n : RollEnded([to |-> rows[i].to]) = RollEnded(rows[i])
    BY DEF RollEnded
  <2>3. RollTimeLine(rows) = {RollBegun(rows[i]) : i \in 1..n} \cup {RollEnded(rows[i]) : i \in 1..n}
    BY <1>2 DEF RollTimeLine
  <2> QED
    BY <2>1, <2>2, <2>3
<1> HIDE DEF rows, n
<1>7. ASSUME NEW e \in RollTimeLine(rows) PROVE RollActive(rows, e) \in Int /\ RollActive(rows, e) <= peak
  <2>1. CASE \E i \in 1..n : e = RollBegun([from |-> rows[i].from])
    <3>1. PICK t \in Nat : e = RollBegun([from |-> t])
      BY <1>2, <2>1
    <3>2. RollActive(rows, e) = RollCover(st, t) /\ RollCover(st, t) \in Nat /\ RollCover(st, t) <= peak
      BY <1>3, <1>4, <1>5, <3>1
    <3> QED
      BY <3>2
  <2>2. CASE \E i \in 1..n : e = RollEnded([to |-> rows[i].to])
    <3>1. PICK t \in Nat : e = RollEnded([to |-> t])
      BY <1>2, <2>2
    <3>2. /\ RollActive(rows, e) \in Int /\ RollActive(rows, e) <= RollCover(st, t)
          /\ RollCover(st, t) \in Nat /\ RollCover(st, t) <= peak
      BY <1>3, <1>4, <1>5, <3>1
    <3> QED
      BY <3>2
  <2> QED
    BY <1>6, <2>1, <2>2
<1>8. \A x \in sums : x \in Int /\ x <= peak
  BY <1>7
<1>9. peak \in sums
  <2>1. CASE peak # 0
    <3>1. PICK t \in Nat : RollFrom(st, t) /\ RollCover(st, t) = peak
      BY <2>1 DEF RollPeaked
    <3>2. PICK i \in 1..n : rows[i].from = t
      BY <3>1 DEF RollFrom, rows, n
    <3>3. RollBegun([from |-> t]) \in RollTimeLine(rows)
      BY <1>6, <3>2
    <3>4. RollActive(rows, RollBegun([from |-> t])) = peak
      BY <1>4, <3>1
    <3> QED
      BY <3>3, <3>4
  <2> QED
    BY <2>1
<1>10. RollMax(rows) = Max(sums)
  BY DEF RollMax
<1> HIDE DEF sums
<1>11. \E x \in sums : \A y \in sums : x >= y
  BY <1>8, <1>9
<1>12. Max(sums) \in sums /\ \A y \in sums : Max(sums) >= y
  BY <1>11 DEF Max
<1>13. Max(sums) = peak
  <2> DEFINE x == Max(sums)
  <2>1. x \in Int /\ x <= peak
    BY <1>8, <1>12
  <2>2. x >= peak
    BY <1>9, <1>12
  <2> HIDE DEF x
  <2>3. x = peak
    BY <2>1, <2>2
  <2> QED
    BY <2>3 DEF x
<1> QED
  BY <1>10, <1>13 DEF rows

-----------------------------------------------------------------------------
\* The rows of the page: those that have ended and those that are open.
LEMMA ListOfSet ==
  ASSUME NEW S, IsFiniteSet(S)
  PROVE  /\ SetToSeq(S) \in Seq(S) /\ Len(SetToSeq(S)) = Cardinality(S)
         /\ \A x \in S : \E i \in 1..Cardinality(S) : SetToSeq(S)[i] = x
<1> DEFINE n == Cardinality(S)
           list == SetToSeq(S)
<1>1. n \in Nat /\ ExistsBijection(1..n, S)
  BY FS_CardinalityType
<1>2. PICK f \in Bijection(1..n, S) : TRUE
  BY <1>1 DEF ExistsBijection
<1>3. f \in [1..n -> S] /\ IsInjective(f)
  BY <1>2 DEF Bijection, Injection, IsInjective
<1>4. list \in [1..n -> S] /\ IsInjective(list)
  BY <1>3 DEF SetToSeq
<1> HIDE DEF list
<1>5. list \in Injection(1..n, S)
  BY <1>4 DEF Injection, IsInjective
<1>6. IsFiniteSet(1..n) /\ Cardinality(1..n) = n
  BY <1>1, FS_Interval
<1>7. list \in Surjection(1..n, S)
  BY <1>5, <1>6, FS_Injection
<1>8. \A x \in S : \E i \in 1..n : list[i] = x
  BY <1>7 DEF Surjection
<1>9. list \in Seq(S) /\ Len(list) = n
  BY <1>1, <1>4, SeqDef
<1> QED
  BY <1>8, <1>9 DEF list

OpenRows == {RollState.open[a] : a \in {b \in RollActor : RollState.open[b] # RollNone}}

LEMMA OpenRowsFinite == IsFiniteSet(OpenRows)
<1> DEFINE working == {b \in RollActor : RollState.open[b] # RollNone}
           f == [a \in working |-> RollState.open[a]]
<1>1. IsFiniteSet(working)
  BY RollAssumption, FS_Subset
<1>2. f \in Surjection(working, OpenRows)
  BY DEF Surjection, OpenRows
<1> HIDE DEF f, working
<1> QED
  BY <1>1, <1>2, FS_Surjection

LEMMA RowsAre ==
  ASSUME RollRowsOK(RollState, rollLog)
  PROVE  /\ \A i \in DOMAIN RollRows :
              \/ \E j \in 1..Len(RollState.closed) : RollRows[i] = RollState.closed[j]
              \/ \E a \in RollActor : RollState.open[a] # RollNone /\ RollRows[i] = RollState.open[a]
         /\ \A j \in 1..Len(RollState.closed) : \E i \in DOMAIN RollRows : RollRows[i] = RollState.closed[j]
         /\ \A a \in RollActor : RollState.open[a] # RollNone =>
              \E i \in DOMAIN RollRows : RollRows[i] = RollState.open[a]
<1> DEFINE done == RollState.closed
           on == SetToSeq(OpenRows)
           k == Cardinality(OpenRows)
<1>1. done \in Seq(RollRowType) /\ RollState.open \in [RollActor -> RollRowType \cup {RollNone}]
  BY DEF RollRowsOK
<1>2. RollRows = done \o on
  BY DEF RollRows, OpenRows
<1>3. on \in Seq(OpenRows) /\ Len(on) = k /\ \A x \in OpenRows : \E i \in 1..k : on[i] = x
  BY OpenRowsFinite, ListOfSet
<1>4. OpenRows \subseteq RollRowType
  BY <1>1 DEF OpenRows
<1>5. on \in Seq(RollRowType)
  BY <1>3, <1>4, SeqMonotonic
<1>6. k \in Nat /\ Len(done) \in Nat
  BY <1>1, OpenRowsFinite, FS_CardinalityType, LenProperties
<1> HIDE DEF done, on, k
<1>7. /\ DOMAIN RollRows = 1..(Len(done) + k)
      /\ \A i \in 1..(Len(done) + k) : RollRows[i] = IF i <= Len(done) THEN done[i] ELSE on[i - Len(done)]
  <2>1. /\ done \o on \in Seq(RollRowType) /\ Len(done \o on) = Len(done) + Len(on)
        /\ \A i \in 1..(Len(done) + Len(on)) : (done \o on)[i] = IF i <= Len(done) THEN done[i] ELSE on[i - Len(done)]
    BY <1>1, <1>5, ConcatProperties DEF done
  <2>2. DOMAIN (done \o on) = 1..Len(done \o on)
    BY <2>1, LenProperties
  <2> QED
    BY <1>2, <1>3, <2>1, <2>2
<1>8. ASSUME NEW i \in DOMAIN RollRows
      PROVE  \/ \E j \in 1..Len(done) : RollRows[i] = done[j]
             \/ \E a \in RollActor : RollState.open[a] # RollNone /\ RollRows[i] = RollState.open[a]
  <2>1. CASE i <= Len(done)
    BY <1>6, <1>7, <2>1
  <2>2. CASE ~(i <= Len(done))
    <3>1. i - Len(done) \in 1..k /\ RollRows[i] = on[i - Len(done)]
      BY <1>6, <1>7, <2>2
    <3>2. on[i - Len(done)] \in OpenRows
      BY <1>3, <3>1, ElementOfSeq
    <3> QED
      BY <3>1, <3>2 DEF OpenRows
  <2> QED
    BY <2>1, <2>2
<1>9. ASSUME NEW j \in 1..Len(done) PROVE \E i \in DOMAIN RollRows : RollRows[i] = done[j]
  <2>1. j \in 1..(Len(done) + k) /\ j <= Len(done)
    BY <1>6
  <2> QED
    BY <1>7, <2>1
<1>10. ASSUME NEW a \in RollActor, RollState.open[a] # RollNone
       PROVE  \E i \in DOMAIN RollRows : RollRows[i] = RollState.open[a]
  <2>1. RollState.open[a] \in OpenRows
    BY <1>10 DEF OpenRows
  <2>2. PICK i \in 1..k : on[i] = RollState.open[a]
    BY <1>3, <2>1
  <2> DEFINE p == Len(done) + i
  <2>3. p \in 1..(Len(done) + k) /\ ~(p <= Len(done)) /\ p - Len(done) = i
    BY <1>6
  <2> HIDE DEF p
  <2> QED
    BY <1>7, <2>2, <2>3
<1> QED
  BY <1>8, <1>9, <1>10 DEF done

\* The statuses of a stage are those of the actor's ends, and "running" if its
\* row is open.
StatusesOf(a) == {RollRows[i].status : i \in {j \in DOMAIN RollRows : RollRows[j].actor = a}}

LEMMA StageStatuses ==
  ASSUME RollLogOK(rollLog), RollRowsOK(RollState, rollLog), NEW a \in RollActor
  PROVE  /\ "running" \in StatusesOf(a) <=> RollState.open[a] # RollNone
         /\ "partial" \in StatusesOf(a) <=>
              \E j \in 1..Len(rollLog) : /\ rollLog[j].actor = a /\ rollLog[j].kind = "finish"
                                         /\ rollLog[j].status # "success"
         /\ StatusesOf(a) # {} <=>
              RollState.open[a] # RollNone \/ \E j \in 1..Len(rollLog) : rollLog[j].actor = a
<1> DEFINE st == RollState
           Ends(j) == rollLog[j].actor = a /\ rollLog[j].kind = "finish"
<1>1. \A j \in 1..Len(rollLog) : Ends(j) => rollLog[j].status \in {"success", "warning"}
  <2>1. \A j \in 1..Len(rollLog) : rollLog[j] \in RollEvent
    BY ElementOfSeq DEF RollLogOK
  <2>2. \A j \in 1..Len(rollLog) : rollLog[j].kind = "finish" => rollLog[j].status # ""
    BY DEF RollLogOK
  <2> QED
    BY <2>1, <2>2 DEF RollEvent
<1>2. ASSUME NEW s
      PROVE  s \in StatusesOf(a) <=>
               \/ \E j \in 1..Len(st.closed) : st.closed[j].actor = a /\ st.closed[j].status = s
               \/ st.open[a] # RollNone /\ s = "running"
  <2>1. \A b \in RollActor : st.open[b] # RollNone => st.open[b].actor = b /\ st.open[b].status = "running"
    BY DEF RollRowsOK, RollOpenOK
  <2>2. s \in StatusesOf(a) <=> \E i \in DOMAIN RollRows : RollRows[i].actor = a /\ RollRows[i].status = s
    BY DEF StatusesOf
  <2>3. ASSUME NEW i \in DOMAIN RollRows, RollRows[i].actor = a, RollRows[i].status = s
        PROVE  \/ \E j \in 1..Len(st.closed) : st.closed[j].actor = a /\ st.closed[j].status = s
               \/ st.open[a] # RollNone /\ s = "running"
    <3>1. CASE \E j \in 1..Len(st.closed) : RollRows[i] = st.closed[j]
      BY <2>3, <3>1
    <3>2. CASE \E b \in RollActor : st.open[b] # RollNone /\ RollRows[i] = st.open[b]
      BY <2>1, <2>3, <3>2
    <3> QED
      BY <3>1, <3>2, RowsAre
  <2>4. ASSUME NEW j \in 1..Len(st.closed), st.closed[j].actor = a, st.closed[j].status = s
        PROVE  \E i \in DOMAIN RollRows : RollRows[i].actor = a /\ RollRows[i].status = s
    <3>1. PICK i \in DOMAIN RollRows : RollRows[i] = st.closed[j]
      BY RowsAre
    <3> QED
      BY <2>4, <3>1
  <2>5. ASSUME st.open[a] # RollNone, s = "running"
        PROVE  \E i \in DOMAIN RollRows : RollRows[i].actor = a /\ RollRows[i].status = s
    <3>1. PICK i \in DOMAIN RollRows : RollRows[i] = st.open[a]
      BY <2>5, RowsAre
    <3> QED
      BY <2>1, <2>5, <3>1
  <2> QED
    BY <2>2, <2>3, <2>4, <2>5
<1>3. ASSUME NEW j \in 1..Len(st.closed), st.closed[j].actor = a
      PROVE  \E i \in 1..Len(rollLog) : Ends(i) /\ st.closed[j].status = RollOutcome(rollLog[i].status)
  <2>1. RollEndOf(st.closed[j], rollLog)
    BY DEF RollRowsOK, RollClosedOK
  <2> QED
    BY <1>3, <2>1 DEF RollEndOf
<1>4. ASSUME NEW i \in 1..Len(rollLog), Ends(i)
      PROVE  \E j \in 1..Len(st.closed) : st.closed[j].actor = a /\ st.closed[j].status = RollOutcome(rollLog[i].status)
  <2>1. RollKnown(st, rollLog[i])
    BY DEF RollRowsOK
  <2> QED
    BY <1>4, <2>1 DEF RollKnown
<1>5. ASSUME NEW i \in 1..Len(rollLog), rollLog[i].actor = a
      PROVE  st.open[a] # RollNone \/ \E j \in 1..Len(st.closed) : st.closed[j].actor = a
  <2>1. RollKnown(st, rollLog[i])
    BY DEF RollRowsOK
  <2> QED
    BY <1>5, <2>1 DEF RollKnown
<1>6. RollOutcome("success") = "success" /\ RollOutcome("warning") = "partial"
  BY DEF RollOutcome
<1>7. \A j \in 1..Len(st.closed) : st.closed[j].actor = a => st.closed[j].status \in {"success", "partial"}
  BY <1>1, <1>3, <1>6
<1>8. "running" \in StatusesOf(a) <=> st.open[a] # RollNone
  BY <1>2, <1>7
<1>9. "partial" \in StatusesOf(a) <=> \E j \in 1..Len(rollLog) : Ends(j) /\ rollLog[j].status # "success"
  <2>1. ASSUME "partial" \in StatusesOf(a)
        PROVE  \E j \in 1..Len(rollLog) : Ends(j) /\ rollLog[j].status # "success"
    <3>1. PICK j \in 1..Len(st.closed) : st.closed[j].actor = a /\ st.closed[j].status = "partial"
      BY <1>2, <2>1
    <3>2. PICK i \in 1..Len(rollLog) : Ends(i) /\ "partial" = RollOutcome(rollLog[i].status)
      BY <1>3, <3>1
    <3> QED
      BY <1>6, <3>2
  <2>2. ASSUME NEW i \in 1..Len(rollLog), Ends(i), rollLog[i].status # "success"
        PROVE  "partial" \in StatusesOf(a)
    <3>1. rollLog[i].status = "warning"
      BY <1>1, <2>2
    <3> QED
      BY <1>2, <1>4, <1>6, <2>2, <3>1
  <2> QED
    BY <2>1, <2>2
<1>10. StatusesOf(a) # {} <=> st.open[a] # RollNone \/ \E j \in 1..Len(rollLog) : rollLog[j].actor = a
  <2>1. ASSUME NEW s \in StatusesOf(a), st.open[a] = RollNone
        PROVE  \E j \in 1..Len(rollLog) : rollLog[j].actor = a
    BY <1>2, <1>3, <2>1
  <2>2. ASSUME NEW i \in 1..Len(rollLog), rollLog[i].actor = a PROVE StatusesOf(a) # {}
    BY <1>2, <1>5, <2>2
  <2>3. st.open[a] # RollNone => StatusesOf(a) # {}
    BY <1>2
  <2> QED
    BY <2>1, <2>2, <2>3
<1> QED
  BY <1>8, <1>9, <1>10

-----------------------------------------------------------------------------
\* Agents at work are counted one by one.
LEMMA BusyBounded ==
  ASSUME NEW w \in [RollActor -> 0..RollAgents]
  PROVE  RollBusy(w) \in 0..(RollAgents * Cardinality(RollActor))
<1> DEFINE pairs == UNION {{a} \X (1..w[a]) : a \in RollActor}
           all == RollActor \X (1..RollAgents)
<1>1. IsFiniteSet(1..RollAgents) /\ Cardinality(1..RollAgents) = RollAgents
  BY RollAssumption, FS_Interval
<1>2. IsFiniteSet(all) /\ Cardinality(all) = Cardinality(RollActor) * RollAgents
  BY <1>1, RollAssumption, FS_Product
<1>3. \A a \in RollActor : w[a] \in 0..RollAgents
  OBVIOUS
<1>4. pairs \subseteq all
  BY <1>3, RollAssumption
<1>5. IsFiniteSet(pairs) /\ Cardinality(pairs) <= Cardinality(all)
  BY <1>2, <1>4, FS_Subset
<1>6. Cardinality(pairs) \in Nat /\ Cardinality(RollActor) \in Nat
  BY <1>5, RollAssumption, FS_CardinalityType
<1>7. RollBusy(w) = Cardinality(pairs)
  BY DEF RollBusy
<1> HIDE DEF pairs, all
<1> QED
  BY <1>2, <1>5, <1>6, <1>7, RollAssumption

LEMMA BusyNone ==
  ASSUME NEW w \in [RollActor -> 0..RollAgents], RollBusy(w) = 0
  PROVE  \A a \in RollActor : w[a] = 0
<1> DEFINE pairs == UNION {{a} \X (1..w[a]) : a \in RollActor}
           all == RollActor \X (1..RollAgents)
<1>1. IsFiniteSet(1..RollAgents)
  BY RollAssumption, FS_Interval
<1>2. IsFiniteSet(all)
  BY <1>1, RollAssumption, FS_Product
<1>3. \A a \in RollActor : w[a] \in 0..RollAgents
  OBVIOUS
<1>4. pairs \subseteq all
  BY <1>3, RollAssumption
<1>5. IsFiniteSet(pairs)
  BY <1>2, <1>4, FS_Subset
<1>6. Cardinality(pairs) = 0
  BY DEF RollBusy
<1>7. pairs = {}
  <2> HIDE DEF pairs
  <2> QED
    BY <1>5, <1>6, FS_EmptySet
<1>8. ASSUME NEW a \in RollActor, w[a] # 0 PROVE FALSE
  <2>1. 1 \in 1..w[a]
    BY <1>3, <1>8, RollAssumption
  <2>2. <<a, 1>> \in {a} \X (1..w[a])
    BY <2>1
  <2>3. <<a, 1>> \in pairs
    BY <2>2, Zenon
  <2> QED
    BY <1>7, <2>3
<1> QED
  BY <1>8

LEMMA BusyIs ==
  ASSUME NEW w \in [RollActor -> 0..RollAgents], \A a \in RollActor : w[a] \in {0, 1},
         NEW S, S = {a \in RollActor : w[a] = 1}
  PROVE  RollBusy(w) = Cardinality(S)
<1> DEFINE pairs == UNION {{a} \X (1..w[a]) : a \in RollActor}
           f == [a \in S |-> <<a, 1>>]
<1>1. IsFiniteSet(S)
  BY RollAssumption, FS_Subset
<1>2. \A p : p \in pairs <=> \E a \in RollActor : p \in {a} \X (1..w[a])
  BY Zenon
<1>3. ASSUME NEW a \in RollActor, NEW p
      PROVE  p \in {a} \X (1..w[a]) <=> a \in S /\ p = <<a, 1>>
  <2>1. CASE w[a] = 0
    <3>1. 1..w[a] = {} /\ a \notin S
      BY <2>1
    <3> QED
      BY <3>1
  <2>2. CASE w[a] = 1
    <3>1. 1..w[a] = {1} /\ a \in S
      BY <2>2
    <3> QED
      BY <3>1
  <2> QED
    BY <2>1, <2>2
<1>4. \A a \in S : f[a] = <<a, 1>> /\ a \in RollActor
  OBVIOUS
<1> HIDE DEF pairs
<1>5. \A a \in S : <<a, 1>> \in pairs
  BY <1>2, <1>3, <1>4
<1>6. f \in [S -> pairs]
  BY <1>5
<1>7. \A a, b \in S : f[a] = f[b] => a = b
  BY <1>4
<1>8. \A p \in pairs : \E a \in S : f[a] = p
  BY <1>2, <1>3, <1>4
<1> HIDE DEF f
<1>9. f \in Bijection(S, pairs)
  BY <1>6, <1>7, <1>8 DEF Bijection, Injection, Surjection, IsInjective
<1>10. Cardinality(pairs) = Cardinality(S)
  BY <1>1, <1>9, FS_Bijection DEF ExistsBijection
<1> QED
  BY <1>10 DEF RollBusy, pairs

\* The events of the trace, within the bounds.
RollBounded == [actor : RollActor, kind : {"start", "work", "finish"},
                status : {"", "success", "warning"}, at : 0 .. RollEvents]

LEMMA BoundedEvents ==
  /\ \A e \in RollBounded : e \in RollEvent /\ e.at \in Nat /\ e.at <= RollEvents
  /\ \A e \in RollEvent : e.at <= RollEvents => e \in RollBounded
<1> DEFINE T == 0 .. RollEvents
<1>1. \A t : t \in T <=> t \in Nat /\ t <= RollEvents
  BY RollAssumption
<1>2. RollBounded = [actor : RollActor, kind : {"start", "work", "finish"},
                     status : {"", "success", "warning"}, at : T]
  BY DEF RollBounded
<1> HIDE DEF T
<1>3. ASSUME NEW e \in RollBounded PROVE e \in RollEvent /\ e.at \in Nat /\ e.at <= RollEvents
  <2>1. e.at \in T
    BY <1>2
  <2>2. e.at \in Nat /\ e.at <= RollEvents
    BY <1>1, <2>1
  <2> QED
    BY <1>2, <2>2 DEF RollEvent
<1>4. ASSUME NEW e \in RollEvent, e.at <= RollEvents PROVE e \in RollBounded
  <2>1. e.at \in Nat
    BY DEF RollEvent
  <2>2. e.at \in T
    BY <1>1, <1>4, <2>1
  <2> QED
    BY <1>2, <2>2 DEF RollEvent
<1> QED
  BY <1>3, <1>4

LEMMA RollTyped ==
  /\ RollTypeOK <=>
       /\ rollLog \in Seq(RollBounded) /\ rollWorking \in [RollActor -> 0 .. RollAgents]
       /\ rollPeak \in 0..(RollAgents * Cardinality(RollActor))
       /\ rollShared \in BOOLEAN /\ rollFailed \subseteq RollActor
  /\ RollTypeOK => rollPeak \in Nat
<1>1. RollAgents * Cardinality(RollActor) \in Nat
  BY RollAssumption, FS_CardinalityType
<1>2. RollTypeOK <=>
        /\ rollLog \in Seq(RollBounded) /\ rollWorking \in [RollActor -> 0 .. RollAgents]
        /\ rollPeak \in 0..(RollAgents * Cardinality(RollActor))
        /\ rollShared \in BOOLEAN /\ rollFailed \subseteq RollActor
  BY Zenon DEF RollTypeOK, RollBounded
<1>3. RollTypeOK => rollPeak \in Nat
  <2> DEFINE most == RollAgents * Cardinality(RollActor)
  <2>1. \A p \in 0..most : p \in Nat
    BY <1>1
  <2> QED
    BY <1>2, <2>1
<1> QED
  BY <1>2, <1>3

LEMMA TypedNext ==
  ASSUME rollLog' \in Seq(RollBounded), rollWorking' \in [RollActor -> 0 .. RollAgents],
         rollPeak' \in 0..(RollAgents * Cardinality(RollActor)),
         rollShared' \in BOOLEAN, rollFailed' \subseteq RollActor
  PROVE  RollTypeOK'
  BY Zenon DEF RollTypeOK, RollBounded

LEMMA NowIsLast ==
  ASSUME RollLogOK(rollLog)
  PROVE  /\ Len(rollLog) \in Nat /\ RollNow \in Nat /\ RollNow <= Len(rollLog)
         /\ \A i \in 1..Len(rollLog) : rollLog[i].at <= RollNow
<1> DEFINE n == Len(rollLog)
<1>1. rollLog \in Seq(RollEvent) /\ n \in Nat
  BY LenProperties DEF RollLogOK
<1>2. CASE rollLog = <<>>
  <2>1. n = 0 /\ RollNow = 0
    BY <1>2, EmptySeq DEF RollNow
  <2>2. 1..n = {}
    BY <2>1
  <2> QED
    BY <2>1, <2>2
<1>3. CASE rollLog # <<>>
  <2>1. n # 0
    BY <1>1, <1>3, EmptySeq
  <2>2. n \in 1..n
    BY <1>1, <2>1
  <2>3. RollNow = rollLog[n].at
    BY <1>3, Zenon DEF RollNow, Last
  <2>4. rollLog[n].at <= n /\ \A j \in 1..n : rollLog[j].at <= rollLog[n].at
    BY <2>2 DEF RollLogOK
  <2>5. rollLog[n] \in RollEvent
    BY <1>1, <2>2, ElementOfSeq
  <2>6. rollLog[n].at \in Nat
    BY <2>5 DEF RollEvent
  <2> QED
    BY <1>1, <2>3, <2>4, <2>6
<1> QED
  BY <1>2, <1>3

\* What an event that is emitted leaves of the invariant.
RollSaid(a, kind, status) ==
  /\ a \in RollActor /\ kind \in {"start", "work", "finish"} /\ status \in {"", "success", "warning"}
  /\ kind = "finish" => status # ""

RollHeard(e, a, kind) ==
  /\ e.actor = a /\ e.kind = kind
  /\ RollTimely(rollLog, e) /\ rollLog' = Append(rollLog, e) /\ Last(rollLog').at = e.at
  /\ rollLog' \in Seq(RollBounded) /\ RollLogOK(rollLog')
  /\ RollState' = RollRead(RollState, e) /\ RollRowsOK(RollState', rollLog')

LEMMA RollEmitted ==
  ASSUME RollInv, NEW a, NEW kind, NEW status, RollSaid(a, kind, status), RollEmit(a, kind, status)
  PROVE  \E e : RollHeard(e, a, kind)
<1> DEFINE n == Len(rollLog)
<1>1. rollLog \in Seq(RollBounded) /\ RollLogOK(rollLog) /\ RollRowsOK(RollState, rollLog)
  BY DEF RollInv, RollTypeOK, RollBounded
<1>2. /\ n \in Nat /\ RollNow \in Nat /\ RollNow <= n
      /\ \A i \in 1..n : rollLog[i].at <= RollNow
  BY <1>1, NowIsLast
<1>3. n < RollEvents /\ RollEvents \in Nat
  BY RollAssumption DEF RollEmit
<1>4. PICK now \in {RollNow, RollNow + 1} :
        rollLog' = Append(rollLog, [actor |-> a, kind |-> kind, status |-> status, at |-> now])
  BY Zenon DEF RollEmit
<1> DEFINE e == [actor |-> a, kind |-> kind, status |-> status, at |-> now]
<1> HIDE DEF n
<1>5. now \in Nat /\ now <= n + 1 /\ RollNow <= now /\ now <= RollEvents
  BY <1>2, <1>3, <1>4
<1>6. \A i \in 1..n : rollLog[i].at <= now
  <2>1. ASSUME NEW i \in 1..n PROVE rollLog[i].at <= now
    <3>1. rollLog[i] \in RollBounded
      BY <1>1, ElementOfSeq DEF n
    <3>2. rollLog[i].at \in Nat
      BY <3>1, BoundedEvents
    <3>3. rollLog[i].at <= RollNow
      BY <1>2
    <3> QED
      BY <1>2, <1>5, <3>2, <3>3
  <2> QED
    BY <2>1
<1>7. e.actor = a /\ e.kind = kind /\ e.status = status /\ e.at = now
  BY Zenon
<1>8. e \in RollEvent
  BY <1>5 DEF RollSaid, RollEvent
<1>9. e.kind = "finish" => e.status # ""
  BY <1>7, Zenon DEF RollSaid
<1>10. rollLog' = Append(rollLog, e)
  BY <1>4, Zenon
<1> HIDE DEF e
<1>11. RollTimely(rollLog, e)
  BY <1>5, <1>6, <1>7, <1>8, <1>9 DEF RollTimely, n
<1>12. e \in RollBounded
  BY <1>5, <1>7, <1>8, BoundedEvents
<1>13. rollLog' \in Seq(RollBounded) /\ Last(rollLog') = e
  <2>1. /\ Append(rollLog, e) \in Seq(RollBounded)
        /\ Len(Append(rollLog, e)) = n + 1 /\ Append(rollLog, e)[n + 1] = e
    BY <1>1, <1>12, Appended DEF n
  <2> QED
    BY <1>10, <2>1, Zenon DEF Last
<1>14. RollState' = RollRead(RollState, e)
  <2>1. rollLog \in Seq(RollEvent)
    BY <1>1 DEF RollLogOK
  <2>2. RollCut(Append(rollLog, e)) = RollRead(RollCut(rollLog), e)
    BY <1>8, <2>1, CutOneMore
  <2> QED
    BY <1>10, <2>2 DEF RollState
<1>15. RollLogOK(rollLog')
  BY <1>1, <1>10, <1>11, LogKeeps
<1>16. RollRowsOK(RollState', rollLog')
  BY <1>1, <1>10, <1>11, <1>14, RowsKeep
<1>17. RollHeard(e, a, kind)
  BY <1>7, <1>10, <1>11, <1>13, <1>14, <1>15, <1>16, Zenon DEF RollHeard
<1> QED
  BY <1>17

\* Which rows are open after an event.
LEMMA OpenRowsAfter ==
  ASSUME NEW st, st.open \in [RollActor -> RollRowType \cup {RollNone}], NEW e, e.actor \in RollActor,
         NEW next, NEW log, NEW from, RollReads(st, e, next, log, from)
  PROVE  /\ \A b \in RollActor : b # e.actor => next.open[b] = st.open[b]
         /\ e.kind = "finish" => next.open[e.actor] = RollNone
         /\ e.kind # "finish" => next.open[e.actor] # RollNone
<1> DEFINE a == e.actor
<1>1. CASE e.kind = "finish"
  <2>1. next.open = [st.open EXCEPT ![e.actor] = RollNone]
    BY <1>1, Zenon DEF RollReads
  <2> QED
    BY <1>1, <2>1
<1>2. CASE e.kind # "finish"
  <2> DEFINE row == [actor |-> e.actor, from |-> from, to |-> e.at, status |-> "running"]
  <2>1. next.open = [st.open EXCEPT ![e.actor] = row] /\ row # RollNone
    BY <1>2, Zenon DEF RollReads
  <2> HIDE DEF row
  <2> QED
    BY <1>2, <2>1
<1> QED
  BY <1>1, <1>2

-----------------------------------------------------------------------------
\* The invariant in its parts.
LEMMA RollInvParts ==
  RollInv <=>
    /\ RollTypeOK /\ RollLogOK(rollLog) /\ RollRowsOK(RollState, rollLog)
    /\ ~rollShared => RollCounted(RollState, rollWorking, rollFailed)
    /\ ~rollShared /\ rollFailed = {} => RollPeaked(RollState, rollPeak)
  BY DEF RollInv

LEMMA RollStarts == RollInit => RollInv
<1> SUFFICES ASSUME RollInit PROVE RollInv
  OBVIOUS
<1>1. /\ rollLog = <<>> /\ rollWorking = [a \in RollActor |-> 0]
      /\ rollPeak = 0 /\ rollShared = FALSE /\ rollFailed = {}
  BY DEF RollInit
<1>2. RollState = RollNoRows
  BY <1>1, CutNothing DEF RollState
<1>3. RollState.open = [a \in RollActor |-> RollNone] /\ RollState.closed = <<>>
  BY <1>2 DEF RollNoRows
<1>4. Len(rollLog) = 0 /\ Len(RollState.closed) = 0
  BY <1>1, <1>3, EmptySeq
<1>5. RollTypeOK
  <2>1. RollAgents * Cardinality(RollActor) \in Nat
    BY RollAssumption, FS_CardinalityType
  <2>2. rollPeak \in 0..(RollAgents * Cardinality(RollActor))
    BY <1>1, <2>1
  <2>3. rollWorking \in [RollActor -> 0 .. RollAgents]
    BY <1>1, RollAssumption
  <2> QED
    BY <1>1, <2>2, <2>3, EmptySeq, RollTyped
<1>6. RollLogOK(rollLog)
  BY <1>1, <1>4, EmptySeq DEF RollLogOK
<1>7. RollRowsOK(RollState, rollLog)
  <2>1. RollState.closed \in Seq(RollRowType)
    BY <1>3, EmptySeq
  <2>2. RollOpenOK(RollState, rollLog)
    BY <1>3 DEF RollOpenOK
  <2>3. RollClosedOK(RollState, rollLog)
    BY <1>4 DEF RollClosedOK
  <2> QED
    BY <1>3, <1>4, <2>1, <2>2, <2>3 DEF RollRowsOK
<1>8. RollCounted(RollState, rollWorking, rollFailed)
  BY <1>1, <1>3 DEF RollCounted
<1>9. RollPeaked(RollState, rollPeak)
  <2>1. ASSUME NEW t \in Nat PROVE RollCover(RollState, t) = 0
    <3>1. RollOver(RollState, t) = {} /\ RollOn(RollState, t) = {}
      BY <1>3, <1>4 DEF RollOver, RollOn
    <3> QED
      BY <3>1, FS_EmptySet DEF RollCover
  <2> QED
    BY <1>1, <2>1 DEF RollPeaked
<1> QED
  BY <1>5, <1>6, <1>7, <1>8, <1>9, RollInvParts

LEMMA RollBeginKeeps ==
  ASSUME RollInv, NEW a \in RollActor, RollBegin(a)
  PROVE  RollInv'
<1>1. /\ RollTypeOK /\ RollLogOK(rollLog) /\ RollRowsOK(RollState, rollLog)
      /\ ~rollShared => RollCounted(RollState, rollWorking, rollFailed)
      /\ ~rollShared /\ rollFailed = {} => RollPeaked(RollState, rollPeak)
  BY RollInvParts
<1>2. /\ rollWorking[a] < RollAgents
      /\ rollWorking' = [rollWorking EXCEPT ![a] = @ + 1]
      /\ rollPeak' = (IF RollBusy(rollWorking') > rollPeak THEN RollBusy(rollWorking') ELSE rollPeak)
      /\ rollShared' = (rollShared \/ rollWorking[a] > 0 \/ RollEndedAt(Last(rollLog').at))
      /\ rollFailed' = rollFailed
  BY DEF RollBegin
<1>3. PICK e : RollHeard(e, a, "start")
  <2>1. RollEmit(a, "start", "") /\ RollSaid(a, "start", "")
    BY DEF RollBegin, RollSaid
  <2> QED
    BY <2>1, RollEmitted
<1>4. /\ RollTimely(rollLog, e) /\ RollLogOK(rollLog') /\ RollRowsOK(RollState', rollLog')
      /\ rollLog' \in Seq(RollBounded) /\ Last(rollLog').at = e.at /\ e.actor = a /\ e.kind = "start"
      /\ RollState' = RollRead(RollState, e)
  BY <1>3, Zenon DEF RollHeard
<1>5. PICK from \in Nat : RollReads(RollState, e, RollState', rollLog, from)
  BY <1>1, <1>4, ReadTimely
<1>6. /\ rollWorking \in [RollActor -> 0..RollAgents] /\ rollFailed \subseteq RollActor
      /\ rollPeak \in 0..(RollAgents * Cardinality(RollActor))
      /\ rollShared \in BOOLEAN
  BY <1>1 DEF RollTypeOK
<1>7. rollWorking' \in [RollActor -> 0..RollAgents]
  BY <1>2, <1>6, RollAssumption
<1>8. RollBusy(rollWorking') \in 0..(RollAgents * Cardinality(RollActor))
  BY <1>7, BusyBounded
<1>9. RollTypeOK'
  <2>1. rollPeak' \in 0..(RollAgents * Cardinality(RollActor))
    BY <1>2, <1>6, <1>8
  <2>2. rollShared' \in BOOLEAN
    BY <1>2
  <2> QED
    BY <1>2, <1>4, <1>6, <1>7, <2>1, <2>2, RollTyped, TypedNext
<1>10. /\ \A b \in RollActor : b # a => RollState'.open[b] = RollState.open[b]
       /\ RollState'.open[a] # RollNone
  <2>1. RollState.open \in [RollActor -> RollRowType \cup {RollNone}]
    BY <1>1 DEF RollRowsOK
  <2> QED
    BY <1>4, <1>5, <2>1, OpenRowsAfter
<1>11. ASSUME ~rollShared'
       PROVE  /\ ~rollShared /\ rollWorking[a] = 0 /\ NoEndAt(rollLog, e.at)
              /\ RollCounted(RollState', rollWorking', rollFailed')
  <2>1. ~rollShared /\ ~(rollWorking[a] > 0) /\ ~RollEndedAt(e.at)
    BY <1>2, <1>4, <1>11
  <2>2. rollWorking[a] = 0
    BY <1>6, <2>1, RollAssumption
  <2>3. DOMAIN rollLog = 1..Len(rollLog)
    BY <1>1, LenProperties DEF RollLogOK
  <2>4. NoEndAt(rollLog, e.at)
    BY <2>1, <2>3 DEF RollEndedAt, NoEndAt
  <2>5. ASSUME NEW b \in RollActor
        PROVE  /\ rollWorking'[b] \in {0, 1}
               /\ b \notin rollFailed' => (RollState'.open[b] # RollNone <=> rollWorking'[b] = 1)
    <3>1. CASE b = a
      <4>1. rollWorking'[b] = 1
        BY <1>2, <1>6, <2>2, <3>1
      <4> QED
        BY <1>10, <3>1, <4>1
    <3>2. CASE b # a
      <4>1. rollWorking'[b] = rollWorking[b]
        BY <1>2, <1>6, <3>2
      <4> QED
        BY <1>1, <1>2, <1>10, <2>1, <3>2, <4>1 DEF RollCounted
    <3> QED
      BY <3>1, <3>2
  <2> QED
    BY <2>1, <2>2, <2>4, <2>5 DEF RollCounted
<1>12. ASSUME ~rollShared', rollFailed' = {}
       PROVE  RollPeaked(RollState', rollPeak')
  <2>1. /\ ~rollShared /\ rollWorking[a] = 0 /\ NoEndAt(rollLog, e.at)
        /\ RollCounted(RollState', rollWorking', rollFailed')
    BY <1>11, <1>12
  <2>2. RollPeaked(RollState, rollPeak) /\ RollState.open[a] = RollNone
    <3>1. RollCounted(RollState, rollWorking, rollFailed) /\ rollFailed = {}
      BY <1>1, <1>2, <1>12, <2>1
    <3>2. a \notin rollFailed => (RollState.open[a] # RollNone <=> rollWorking[a] = 1)
      BY <3>1 DEF RollCounted
    <3> QED
      BY <1>1, <2>1, <3>1, <3>2
  <2> DEFINE open == {b \in RollActor : RollState'.open[b] # RollNone}
             busy == RollBusy(rollWorking')
  <2>3. open = {b \in RollActor : rollWorking'[b] = 1} /\ \A b \in RollActor : rollWorking'[b] \in {0, 1}
    BY <1>12, <2>1 DEF RollCounted
  <2> HIDE DEF open, busy
  <2>4. busy = Cardinality(open)
    BY <1>7, <2>3, BusyIs DEF busy
  <2>5. busy \in Nat /\ rollPeak \in Nat
    <3>1. RollAgents * Cardinality(RollActor) \in Nat
      BY RollAssumption, FS_CardinalityType
    <3> QED
      BY <1>6, <1>8, <3>1 DEF busy
  <2>6. rollPeak' = IF busy > rollPeak THEN busy ELSE rollPeak
    BY <1>2 DEF busy
  <2>7. RollState.open[e.actor] = RollNone /\ e.kind = "start"
    BY <1>4, <2>2
  <2>8. busy = Cardinality({b \in RollActor : RollState'.open[b] # RollNone})
    BY <2>4 DEF open
  <2> QED
    BY <1>1, <1>4, <1>5, <2>1, <2>2, <2>5, <2>6, <2>7, <2>8, BeginPeaks
<1> QED
  BY <1>4, <1>9, <1>11, <1>12 DEF RollInv

LEMMA RollWorkKeeps ==
  ASSUME RollInv, NEW a \in RollActor, RollWork(a)
  PROVE  RollInv'
<1>1. /\ RollTypeOK /\ RollLogOK(rollLog) /\ RollRowsOK(RollState, rollLog)
      /\ ~rollShared => RollCounted(RollState, rollWorking, rollFailed)
      /\ ~rollShared /\ rollFailed = {} => RollPeaked(RollState, rollPeak)
  BY RollInvParts
<1>2. /\ rollWorking[a] > 0 /\ rollWorking' = rollWorking /\ rollPeak' = rollPeak
      /\ rollShared' = rollShared /\ rollFailed' = rollFailed
  BY DEF RollWork
<1>3. PICK e : RollHeard(e, a, "work")
  <2>1. RollEmit(a, "work", "") /\ RollSaid(a, "work", "")
    BY DEF RollWork, RollSaid
  <2> QED
    BY <2>1, RollEmitted
<1>4. /\ RollTimely(rollLog, e) /\ RollLogOK(rollLog') /\ RollRowsOK(RollState', rollLog')
      /\ rollLog' \in Seq(RollBounded) /\ Last(rollLog').at = e.at /\ e.actor = a /\ e.kind = "work"
      /\ RollState' = RollRead(RollState, e)
  BY <1>3, Zenon DEF RollHeard
<1>5. PICK from \in Nat : RollReads(RollState, e, RollState', rollLog, from)
  BY <1>1, <1>4, ReadTimely
<1>6. RollTypeOK'
  BY <1>1, <1>2, <1>4, RollTyped, TypedNext
<1>7. /\ \A b \in RollActor : b # a => RollState'.open[b] = RollState.open[b]
      /\ RollState'.open[a] # RollNone
  <2>1. RollState.open \in [RollActor -> RollRowType \cup {RollNone}]
    BY <1>1 DEF RollRowsOK
  <2> QED
    BY <1>4, <1>5, <2>1, OpenRowsAfter
<1>8. ASSUME ~rollShared' PROVE RollCounted(RollState', rollWorking', rollFailed')
  <2>1. RollCounted(RollState, rollWorking, rollFailed)
    BY <1>1, <1>2, <1>8
  <2>2. ASSUME NEW b \in RollActor
        PROVE  /\ rollWorking[b] \in {0, 1}
               /\ b \notin rollFailed => (RollState'.open[b] # RollNone <=> rollWorking[b] = 1)
    <3>1. CASE b = a
      <4>1. rollWorking[b] = 1
        BY <1>2, <2>1, <3>1 DEF RollCounted
      <4> QED
        BY <1>7, <3>1, <4>1
    <3>2. CASE b # a
      BY <1>7, <2>1, <3>2 DEF RollCounted
    <3> QED
      BY <3>1, <3>2
  <2> QED
    BY <1>2, <2>2 DEF RollCounted
<1>9. ASSUME ~rollShared', rollFailed' = {} PROVE RollPeaked(RollState', rollPeak')
  <2>1. RollCounted(RollState, rollWorking, rollFailed) /\ RollPeaked(RollState, rollPeak) /\ rollFailed = {}
    BY <1>1, <1>2, <1>9
  <2>2. RollState.open[e.actor] # RollNone
    BY <1>2, <1>4, <2>1 DEF RollCounted
  <2> QED
    BY <1>1, <1>2, <1>4, <1>5, <2>1, <2>2, WorkPeaks
<1> QED
  BY <1>4, <1>6, <1>8, <1>9 DEF RollInv

LEMMA RollEndKeeps ==
  ASSUME RollInv, NEW a \in RollActor, NEW status \in {"success", "warning"}, RollEnd(a, status)
  PROVE  RollInv'
<1>1. /\ RollTypeOK /\ RollLogOK(rollLog) /\ RollRowsOK(RollState, rollLog)
      /\ ~rollShared => RollCounted(RollState, rollWorking, rollFailed)
      /\ ~rollShared /\ rollFailed = {} => RollPeaked(RollState, rollPeak)
  BY RollInvParts
<1>2. /\ rollWorking[a] > 0 /\ rollWorking' = [rollWorking EXCEPT ![a] = @ - 1] /\ rollPeak' = rollPeak
      /\ rollShared' = rollShared /\ rollFailed' = rollFailed
  BY DEF RollEnd
<1>3. PICK e : RollHeard(e, a, "finish")
  <2>1. RollEmit(a, "finish", status) /\ RollSaid(a, "finish", status)
    BY DEF RollEnd, RollSaid
  <2> QED
    BY <2>1, RollEmitted
<1>4. /\ RollTimely(rollLog, e) /\ RollLogOK(rollLog') /\ RollRowsOK(RollState', rollLog')
      /\ rollLog' \in Seq(RollBounded) /\ Last(rollLog').at = e.at /\ e.actor = a /\ e.kind = "finish"
      /\ RollState' = RollRead(RollState, e)
  BY <1>3, Zenon DEF RollHeard
<1>5. PICK from \in Nat : RollReads(RollState, e, RollState', rollLog, from)
  BY <1>1, <1>4, ReadTimely
<1>6. rollWorking \in [RollActor -> 0..RollAgents]
  BY <1>1 DEF RollTypeOK
<1>7. RollTypeOK'
  <2>1. rollWorking' \in [RollActor -> 0..RollAgents]
    BY <1>2, <1>6, RollAssumption
  <2> QED
    BY <1>1, <1>2, <1>4, <2>1, RollTyped, TypedNext
<1>8. /\ \A b \in RollActor : b # a => RollState'.open[b] = RollState.open[b]
      /\ RollState'.open[a] = RollNone
  <2>1. RollState.open \in [RollActor -> RollRowType \cup {RollNone}]
    BY <1>1 DEF RollRowsOK
  <2> QED
    BY <1>4, <1>5, <2>1, OpenRowsAfter
<1>9. ASSUME ~rollShared' PROVE RollCounted(RollState', rollWorking', rollFailed')
  <2>1. RollCounted(RollState, rollWorking, rollFailed)
    BY <1>1, <1>2, <1>9
  <2>2. ASSUME NEW b \in RollActor
        PROVE  /\ rollWorking'[b] \in {0, 1}
               /\ b \notin rollFailed => (RollState'.open[b] # RollNone <=> rollWorking'[b] = 1)
    <3>1. CASE b = a
      <4>1. rollWorking[b] = 1
        BY <1>2, <2>1, <3>1 DEF RollCounted
      <4>2. rollWorking'[b] = 0
        BY <1>2, <1>6, <3>1, <4>1
      <4> QED
        BY <1>8, <3>1, <4>2
    <3>2. CASE b # a
      <4>1. rollWorking'[b] = rollWorking[b]
        BY <1>2, <1>6, <3>2
      <4> QED
        BY <1>8, <2>1, <3>2, <4>1 DEF RollCounted
    <3> QED
      BY <3>1, <3>2
  <2> QED
    BY <1>2, <2>2 DEF RollCounted
<1>10. ASSUME ~rollShared', rollFailed' = {} PROVE RollPeaked(RollState', rollPeak')
  <2>1. RollCounted(RollState, rollWorking, rollFailed) /\ RollPeaked(RollState, rollPeak) /\ rollFailed = {}
    BY <1>1, <1>2, <1>10
  <2>2. RollState.open[e.actor] # RollNone
    BY <1>2, <1>4, <2>1 DEF RollCounted
  <2>3. rollPeak \in Nat
    BY <1>1, RollTyped
  <2> QED
    BY <1>1, <1>2, <1>4, <1>5, <2>1, <2>2, <2>3, EndPeaks
<1> QED
  BY <1>4, <1>7, <1>9, <1>10 DEF RollInv

LEMMA RollRaiseKeeps ==
  ASSUME RollInv, NEW a \in RollActor, RollRaise(a)
  PROVE  RollInv'
<1>1. /\ RollTypeOK /\ RollLogOK(rollLog) /\ RollRowsOK(RollState, rollLog)
      /\ ~rollShared => RollCounted(RollState, rollWorking, rollFailed)
  BY RollInvParts
<1>2. /\ rollWorking[a] > 0 /\ rollWorking' = [rollWorking EXCEPT ![a] = @ - 1]
      /\ rollFailed' = rollFailed \cup {a}
      /\ rollLog' = rollLog /\ rollPeak' = rollPeak /\ rollShared' = rollShared
  BY DEF RollRaise
<1>3. rollWorking \in [RollActor -> 0..RollAgents] /\ rollFailed \subseteq RollActor
  BY <1>1 DEF RollTypeOK
<1>4. RollTypeOK'
  <2>1. rollWorking' \in [RollActor -> 0..RollAgents]
    BY <1>2, <1>3, RollAssumption
  <2> QED
    BY <1>1, <1>2, <1>3, <2>1, RollTyped, TypedNext
<1>5. RollState' = RollState
  BY <1>2 DEF RollState
<1>6. ASSUME ~rollShared' PROVE RollCounted(RollState', rollWorking', rollFailed')
  <2>1. RollCounted(RollState, rollWorking, rollFailed)
    BY <1>1, <1>2, <1>6
  <2>2. ASSUME NEW b \in RollActor
        PROVE  /\ rollWorking'[b] \in {0, 1}
               /\ b \notin rollFailed' => (RollState.open[b] # RollNone <=> rollWorking'[b] = 1)
    <3>1. CASE b = a
      <4>1. rollWorking[b] = 1
        BY <1>2, <2>1, <3>1 DEF RollCounted
      <4>2. rollWorking'[b] = 0
        BY <1>2, <1>3, <3>1, <4>1
      <4> QED
        BY <1>2, <3>1, <4>2
    <3>2. CASE b # a
      <4>1. rollWorking'[b] = rollWorking[b]
        BY <1>2, <1>3, <3>2
      <4> QED
        BY <1>2, <2>1, <3>2, <4>1 DEF RollCounted
    <3> QED
      BY <3>1, <3>2
  <2> QED
    BY <1>5, <2>2 DEF RollCounted
<1>7. rollFailed' # {}
  BY <1>2
<1> QED
  BY <1>1, <1>2, <1>4, <1>5, <1>6, <1>7 DEF RollInv

-----------------------------------------------------------------------------
\* What the page says under the invariant.
LEMMA PeakIsTrue ==
  ASSUME RollInv, ~rollShared, rollFailed = {}, RollBusy(rollWorking) = 0
  PROVE  RollMax(RollRows) = rollPeak
<1>1. /\ RollTypeOK /\ RollRowsOK(RollState, rollLog)
      /\ RollCounted(RollState, rollWorking, rollFailed) /\ RollPeaked(RollState, rollPeak)
  BY RollInvParts
<1>2. \A a \in RollActor : rollWorking[a] = 0
  BY <1>1, BusyNone DEF RollTypeOK
<1>3. \A a \in RollActor : RollState.open[a] = RollNone
  BY <1>1, <1>2 DEF RollCounted
<1>4. OpenRows = {}
  BY <1>3 DEF OpenRows
<1>5. SetToSeq(OpenRows) = <<>>
  <2>1. SetToSeq(OpenRows) \in Seq(OpenRows) /\ Len(SetToSeq(OpenRows)) = 0
    BY <1>4, OpenRowsFinite, ListOfSet, FS_EmptySet
  <2> QED
    BY <2>1, EmptySeq
<1>6. RollState.closed \in Seq(RollRowType)
  BY <1>1 DEF RollRowsOK
<1>7. RollRows = RollState.closed
  <2>1. RollRows = RollState.closed \o SetToSeq(OpenRows)
    BY DEF RollRows, OpenRows
  <2> QED
    BY <1>5, <1>6, <2>1, ConcatEmptySeq
<1>8. rollPeak \in Nat
  BY <1>1, RollTyped
<1> QED
  BY <1>1, <1>3, <1>7, <1>8, PeakFound

LEMMA AggregateIs ==
  ASSUME NEW statuses
  PROVE  /\ RollAggregate(statuses) = "running" <=> "running" \in statuses
         /\ RollAggregate(statuses) = "success" <=>
              statuses # {} /\ "running" \notin statuses /\ "partial" \notin statuses
  BY DEF RollAggregate

LEMMA StageIsTrue ==
  ASSUME RollInv, NEW a \in RollActor, ~rollShared, a \notin rollFailed
  PROVE  /\ RollStage(a) = "running" <=> rollWorking[a] > 0
         /\ RollStage(a) = "success" <=>
              /\ rollWorking[a] = 0 /\ \E i \in DOMAIN rollLog : rollLog[i].actor = a
              /\ \A i \in DOMAIN rollLog :
                   rollLog[i].actor = a /\ rollLog[i].kind = "finish" => rollLog[i].status = "success"
<1>1. /\ RollLogOK(rollLog) /\ RollRowsOK(RollState, rollLog)
      /\ RollCounted(RollState, rollWorking, rollFailed)
  BY RollInvParts
<1>2. rollWorking[a] \in {0, 1} /\ (RollState.open[a] # RollNone <=> rollWorking[a] = 1)
  BY <1>1 DEF RollCounted
<1>3. DOMAIN rollLog = 1..Len(rollLog)
  BY <1>1, LenProperties DEF RollLogOK
<1>4. RollStage(a) = RollAggregate(StatusesOf(a))
  BY DEF RollStage, StatusesOf
<1>5. /\ "running" \in StatusesOf(a) <=> rollWorking[a] = 1
      /\ "partial" \in StatusesOf(a) <=>
           \E j \in 1..Len(rollLog) : /\ rollLog[j].actor = a /\ rollLog[j].kind = "finish"
                                      /\ rollLog[j].status # "success"
      /\ StatusesOf(a) # {} <=> rollWorking[a] = 1 \/ \E j \in 1..Len(rollLog) : rollLog[j].actor = a
  BY <1>1, <1>2, StageStatuses
<1>6. /\ RollStage(a) = "running" <=> rollWorking[a] = 1
      /\ RollStage(a) = "success" <=>
           /\ rollWorking[a] # 1 /\ \E j \in 1..Len(rollLog) : rollLog[j].actor = a
           /\ ~\E j \in 1..Len(rollLog) : /\ rollLog[j].actor = a /\ rollLog[j].kind = "finish"
                                          /\ rollLog[j].status # "success"
  BY <1>4, <1>5, AggregateIs
<1> QED
  BY <1>2, <1>3, <1>6

LEMMA RollInvTells == RollInv => RollupsTell
<1> SUFFICES ASSUME RollInv PROVE RollupsTell
  OBVIOUS
<1>1. PeakTrue
  BY PeakIsTrue DEF PeakTrue
<1>2. StageTells
  BY StageIsTrue DEF StageTells
<1> QED
  BY <1>1, <1>2 DEF RollupsTell, RollInv

\* The page of a run tells how its agents worked: once they have all ended, the
\* peak it computes from their rows (_max_concurrency of
\* storage/ui_repository.py) is the number that worked at the same time, and a
\* stage is running or done exactly when its agents are, for any number of
\* actors and events.
THEOREM RollupsAreTrue == RollSpec => []RollupsTell
<1>1. RollInv /\ [RollNext]_rollVars => RollInv'
  <2> SUFFICES ASSUME RollInv, [RollNext]_rollVars PROVE RollInv'
    OBVIOUS
  <2>1. ASSUME NEW a \in RollActor, RollBegin(a) PROVE RollInv'
    BY <2>1, RollBeginKeeps
  <2>2. ASSUME NEW a \in RollActor, RollWork(a) PROVE RollInv'
    BY <2>2, RollWorkKeeps
  <2>3. ASSUME NEW a \in RollActor, RollRaise(a) PROVE RollInv'
    BY <2>3, RollRaiseKeeps
  <2>4. ASSUME NEW a \in RollActor, NEW status \in {"success", "warning"}, RollEnd(a, status) PROVE RollInv'
    BY <2>4, RollEndKeeps
  <2>5. CASE UNCHANGED rollVars
    <3>1. /\ rollLog' = rollLog /\ rollWorking' = rollWorking /\ rollPeak' = rollPeak
          /\ rollShared' = rollShared /\ rollFailed' = rollFailed
      BY <2>5 DEF rollVars
    <3>2. RollState' = RollState
      BY <3>1 DEF RollState
    <3> QED
      BY <3>1, <3>2 DEF RollInv, RollTypeOK
  <2> QED
    BY <2>1, <2>2, <2>3, <2>4, <2>5 DEF RollNext
<1> QED
  BY <1>1, RollStarts, RollInvTells, PTL DEF RollSpec
=============================================================================
