--------------------------- MODULE RunPoolsProofs ---------------------------
(***************************************************************************)
(* Theorems about RunPools, for every finite set of URLs and every number   *)
(* of workers: a URL has one owner (OneOwnerHolds), the hand-kept counters  *)
(* are exact (AccountingHolds), the state is well typed (TypeCorrect).      *)
(*                                                                          *)
(* OneOwner alone is not inductive.  Own adds what it needs: a worker holds *)
(* a URL exactly while its agent runs, everything queued, running or        *)
(* reported was accepted before (so that seen_urls keeps it out), and       *)
(* live_workers is exact, so that ensure_workers never spawns a worker that *)
(* is still running.                                                        *)
(***************************************************************************)
EXTENDS RunPools, FiniteSetTheorems, SequenceTheorems, FunctionTheorems, TLAPS

(* The URLs in a queue.                                                    *)
ItemsOf(s) == ToSet(s) \ {None}

(* An ordering of a finite set lists exactly its members, each once.        *)
LEMMA Orderings ==
  ASSUME NEW S, IsFiniteSet(S), NEW s \in SetToSeqs(S)
  PROVE  /\ s \in Seq(S)
         /\ ToSet(s) = S
         /\ \A i, j \in DOMAIN s : s[i] = s[j] => i = j
<1> DEFINE n == Cardinality(S)
<1>1. n \in Nat
  BY FS_CardinalityType
<1>2. s \in [1 .. n -> S] /\ \A i, j \in 1 .. n : i # j => s[i] # s[j]
  BY DEF SetToSeqs
<1>3. s \in Injection(1 .. n, S)
  BY <1>2 DEF Injection, IsInjective
<1>4. Cardinality(1 .. n) = n
  BY <1>1, FS_Interval
<1>5. s \in Surjection(1 .. n, S)
  BY <1>3, <1>4, FS_Injection
<1>6. ToSet(s) = S
  BY <1>2, <1>5 DEF ToSet, Surjection
<1> QED
  BY <1>1, <1>2, <1>6

(* Appending a queue keeps its type; the items are those of both parts.     *)
LEMMA ConcatItems ==
  ASSUME NEW s \in Seq(Url \cup {None}), NEW t \in Seq(Url \cup {None})
  PROVE  /\ s \o t \in Seq(Url \cup {None})
         /\ ToSet(s \o t) = ToSet(s) \cup ToSet(t)
<1> DEFINE c == s \o t
<1>1. /\ c \in Seq(Url \cup {None})
      /\ Len(c) = Len(s) + Len(t)
      /\ \A i \in 1 .. Len(s) + Len(t) : c[i] = IF i <= Len(s) THEN s[i] ELSE t[i - Len(s)]
  BY ConcatProperties
<1>2. ASSUME NEW x \in ToSet(c) PROVE x \in ToSet(s) \cup ToSet(t)
  <2>1. PICK i \in 1 .. Len(c) : x = c[i]
    BY <1>1, <1>2 DEF ToSet
  <2> QED
    BY <1>1, <2>1 DEF ToSet
<1>3. ASSUME NEW x \in ToSet(s) PROVE x \in ToSet(c)
  <2>1. PICK i \in 1 .. Len(s) : x = s[i]
    BY <1>3 DEF ToSet
  <2> QED
    BY <1>1, <2>1 DEF ToSet
<1>4. ASSUME NEW x \in ToSet(t) PROVE x \in ToSet(c)
  <2>1. PICK i \in 1 .. Len(t) : x = t[i]
    BY <1>4 DEF ToSet
  <2>2. c[i + Len(s)] = x /\ i + Len(s) \in 1 .. Len(c)
    BY <1>1, <2>1
  <2> QED
    BY <1>1, <2>2 DEF ToSet
<1> HIDE DEF c
<1> QED
  BY <1>1, <1>2, <1>3, <1>4 DEF c

(* Appending URLs that are not queued yet repeats none.                     *)
LEMMA ConcatNoRepeat ==
  ASSUME NEW s \in Seq(Url \cup {None}), NEW t \in Seq(Url \cup {None}),
         NoRepeat(s), NoRepeat(t), ItemsOf(s) \cap ItemsOf(t) = {}
  PROVE  NoRepeat(s \o t)
<1> DEFINE c == s \o t
<1>1. /\ Len(c) = Len(s) + Len(t) /\ DOMAIN c = 1 .. Len(c)
      /\ \A i \in 1 .. Len(s) + Len(t) : c[i] = IF i <= Len(s) THEN s[i] ELSE t[i - Len(s)]
  BY ConcatProperties
<1>2. \A i \in 1 .. Len(s) : s[i] # None => s[i] \in ItemsOf(s)
  BY DEF ItemsOf, ToSet
<1>3. \A i \in 1 .. Len(t) : t[i] # None => t[i] \in ItemsOf(t)
  BY DEF ItemsOf, ToSet
<1> SUFFICES ASSUME NEW i \in 1 .. Len(c), NEW j \in 1 .. Len(c),
                    c[i] = c[j], c[i] # None
             PROVE  i = j
  BY <1>1 DEF NoRepeat
<1> HIDE DEF c
<1>4. CASE i <= Len(s) /\ j <= Len(s)
  BY <1>1, <1>4 DEF NoRepeat
<1>5. CASE ~(i <= Len(s)) /\ ~(j <= Len(s))
  <2>1. i - Len(s) \in 1 .. Len(t) /\ j - Len(s) \in 1 .. Len(t)
    BY <1>1, <1>5
  <2>2. t[i - Len(s)] = t[j - Len(s)] /\ t[i - Len(s)] # None
    BY <1>1, <1>5
  <2>3. i - Len(s) = j - Len(s)
    BY <2>1, <2>2 DEF NoRepeat
  <2> QED
    BY <2>3, <1>1
<1>6. CASE i <= Len(s) /\ ~(j <= Len(s))
  <2>1. j - Len(s) \in 1 .. Len(t)
    BY <1>1, <1>6
  <2> QED
    BY <1>1, <1>2, <1>3, <1>6, <2>1
<1>7. CASE ~(i <= Len(s)) /\ j <= Len(s)
  <2>1. i - Len(s) \in 1 .. Len(t)
    BY <1>1, <1>7
  <2> QED
    BY <1>1, <1>2, <1>3, <1>7, <2>1
<1> QED
  BY <1>4, <1>5, <1>6, <1>7

(* get_nowait takes the head, and only the head, out of a queue.            *)
LEMMA TailItems ==
  ASSUME NEW s \in Seq(Url \cup {None}), s # <<>>, NoRepeat(s)
  PROVE  /\ Tail(s) \in Seq(Url \cup {None})
         /\ Head(s) \in Url \cup {None}
         /\ Head(s) # None => Head(s) \in ItemsOf(s)
         /\ ItemsOf(Tail(s)) = ItemsOf(s) \ {Head(s)}
         /\ NoRepeat(Tail(s))
         /\ None \notin ToSet(s) => None \notin ToSet(Tail(s))
<1> DEFINE t == Tail(s)
<1>1. /\ t \in Seq(Url \cup {None}) /\ Len(t) = Len(s) - 1 /\ Len(s) > 0
      /\ \A i \in 1 .. Len(t) : t[i] = s[i + 1]
      /\ Head(s) = s[1]
  OBVIOUS
<1> HIDE DEF t
<1>2. NoRepeat(t)
  <2> SUFFICES ASSUME NEW i \in 1 .. Len(t), NEW j \in 1 .. Len(t), t[i] = t[j], t[i] # None
               PROVE i = j
    BY <1>1 DEF NoRepeat
  <2>1. i + 1 \in 1 .. Len(s) /\ j + 1 \in 1 .. Len(s)
    BY <1>1
  <2>2. s[i + 1] = s[j + 1] /\ s[i + 1] # None
    BY <1>1
  <2>3. i + 1 = j + 1
    BY <2>1, <2>2 DEF NoRepeat
  <2> QED
    BY <2>3
<1>3. ASSUME NEW x \in ItemsOf(t) PROVE x \in ItemsOf(s) /\ x # Head(s)
  <2>1. PICK i \in 1 .. Len(t) : x = t[i] /\ x # None
    BY <1>1, <1>3 DEF ItemsOf, ToSet
  <2>2. i + 1 \in 1 .. Len(s) /\ x = s[i + 1] /\ 1 \in 1 .. Len(s)
    BY <1>1, <2>1
  <2> QED
    BY <1>1, <2>1, <2>2, SMTT(30) DEF ItemsOf, ToSet, NoRepeat
<1>4. ASSUME NEW x \in ItemsOf(s), x # Head(s) PROVE x \in ItemsOf(t)
  <2>1. PICK i \in 1 .. Len(s) : x = s[i] /\ x # None
    BY <1>1, <1>4 DEF ItemsOf, ToSet
  <2>2. i - 1 \in 1 .. Len(t) /\ t[i - 1] = s[i]
    BY <1>1, <1>4, <2>1
  <2> QED
    BY <1>1, <2>1, <2>2 DEF ItemsOf, ToSet
<1>5. ASSUME None \in ToSet(t) PROVE None \in ToSet(s)
  <2>1. PICK i \in 1 .. Len(t) : None = t[i]
    BY <1>1, <1>5 DEF ToSet
  <2>2. i + 1 \in 1 .. Len(s) /\ None = s[i + 1]
    BY <1>1, <2>1
  <2> QED
    BY <1>1, <2>2 DEF ToSet
<1>6. Head(s) # None => Head(s) \in ItemsOf(s)
  <2>1. 1 \in 1 .. Len(s)
    BY <1>1
  <2> QED
    BY <2>1, <1>1 DEF ItemsOf, ToSet
<1> QED
  BY <1>1, <1>2, <1>3, <1>4, <1>5, <1>6 DEF t

-----------------------------------------------------------------------------
(* The shape of the state.  Counters are integers here; that they are       *)
(* natural numbers follows from Accounting.                                 *)
Typed ==
  /\ seen \in SUBSET Url
  /\ queue \in [Role -> Seq(Url \cup {None})]
  /\ pending \in [Role -> Int] /\ inflight \in [Role -> Int]
  /\ live \in [Role -> Int]
  /\ producersDone \in [Role -> BOOLEAN] /\ drained \in [Role -> BOOLEAN]
  /\ results \in SUBSET Url /\ folded \in SUBSET Url
  /\ buffer \in [Role -> SUBSET Url]
  /\ embeddedEnqueued \in SUBSET Url
  /\ cancelled \in BOOLEAN /\ errors \in BOOLEAN /\ flag \in BOOLEAN
  /\ pc \in [Worker -> WorkerState]
  /\ item \in [Worker -> Url \cup {None}]
  /\ graph \in GraphState /\ awaited \in SUBSET Worker
  /\ hook \in HookState /\ joined \in SUBSET Worker

(* A worker holds a URL exactly while its agent runs.                       *)
HoldsItem == \A w \in Worker : IF pc[w] = "busy" THEN item[w] \in Url
                                                ELSE item[w] = None

(* What has an owner was accepted by enqueue.                               *)
Known ==
  /\ \A r \in Role : Queued(r) \subseteq seen
  /\ Running \subseteq seen
  /\ results \subseteq seen

(* live_workers counts the worker tasks, and who waits for tasks waits for  *)
(* live ones.                                                               *)
LiveCount == \A r \in Role : live[r] = Cardinality(Alive(r))
Tracked   == awaited \cup joined \subseteq {w \in Worker : pc[w] # "off"}

Own == Typed /\ HoldsItem /\ Known /\ OneOwner /\ LiveCount /\ Tracked

(* A set of newly accepted URLs, per role.                                  *)
Fresh(new) ==
  /\ new \in [Role -> SUBSET Url]
  /\ new[Hosting] \cap new[Embedded] = {}
  /\ \A r \in Role : new[r] \cap seen = {}

(* _check_drained answers yes or no.                                        *)
LEMMA CheckDrainedBoolean ==
  ASSUME NEW set, NEW stop, NEW done, NEW items, NEW flying, NEW workers
  PROVE  CheckDrained(set, stop, done, items, flying, workers) \in BOOLEAN
BY DEF CheckDrained

(* What enqueue accepts is new to seen_urls and goes to one role only; a    *)
(* cancelled pool accepts nothing.                                          *)
LEMMA AcceptedFresh ==
  ASSUME Typed, NEW hs \in SUBSET Url, NEW es \in SUBSET Url
  PROVE  Fresh(Accepted(hs, es)) /\ (cancelled => \A r \in Role : Accepted(hs, es)[r] = {})
BY DEF Fresh, Accepted, Typed, Role, Hosting, Embedded

(* The accepted URLs join the queues of their roles and repeat nothing      *)
(* there.                                                                   *)
LEMMA PutAllEffect ==
  ASSUME Own, NEW new, Fresh(new), PutAll(new)
  PROVE  /\ seen' \in SUBSET Url
         /\ seen' = seen \cup new[Hosting] \cup new[Embedded]
         /\ queue' \in [Role -> Seq(Url \cup {None})]
         /\ \A r \in Role : /\ Queued(r)' = Queued(r) \cup new[r]
                            /\ NoRepeat(queue'[r])
                            /\ None \in ToSet(queue'[r]) => None \in ToSet(queue[r])
<1>1. PICK h \in SetToSeqs(new[Hosting]), e \in SetToSeqs(new[Embedded]) :
        queue' = [r \in Role |-> queue[r] \o (IF r = Hosting THEN h ELSE e)]
  BY DEF PutAll
<1> DEFINE put(r) == IF r = Hosting THEN h ELSE e
<1>2. ASSUME NEW r \in Role
      PROVE  /\ put(r) \in Seq(Url \cup {None})
             /\ ToSet(put(r)) = new[r]
             /\ NoRepeat(put(r))
             /\ None \notin ToSet(put(r))
  <2>1. IsFiniteSet(new[r]) /\ new[r] \subseteq Url
    BY FS_Subset, RunPoolsAssumption DEF Fresh
  <2>2. put(r) \in SetToSeqs(new[r])
    BY <1>1 DEF Role, Hosting, Embedded
  <2>3. put(r) \in Seq(new[r]) /\ ToSet(put(r)) = new[r]
        /\ \A i, j \in DOMAIN put(r) : put(r)[i] = put(r)[j] => i = j
    BY <2>1, <2>2, Orderings
  <2> HIDE DEF put
  <2>4. put(r) \in Seq(Url \cup {None})
    BY <2>1, <2>3
  <2> QED
    BY <2>1, <2>3, <2>4, RunPoolsAssumption DEF NoRepeat
<1>3. queue' = [r \in Role |-> queue[r] \o put(r)]
  BY <1>1
<1> HIDE DEF put
<1>4. ASSUME NEW r \in Role
      PROVE  /\ queue'[r] \in Seq(Url \cup {None})
             /\ Queued(r)' = Queued(r) \cup new[r]
             /\ NoRepeat(queue'[r])
             /\ None \in ToSet(queue'[r]) => None \in ToSet(queue[r])
  <2>1. queue'[r] = queue[r] \o put(r) /\ queue[r] \in Seq(Url \cup {None})
    BY <1>3 DEF Own, Typed
  <2>2. ToSet(queue'[r]) = ToSet(queue[r]) \cup new[r] /\ queue'[r] \in Seq(Url \cup {None})
    BY <1>2, <2>1, ConcatItems
  <2>3. ItemsOf(queue[r]) \cap ItemsOf(put(r)) = {}
    BY <1>2 DEF Own, Known, Queued, Fresh, ItemsOf
  <2>4. NoRepeat(queue'[r])
    BY <1>2, <2>1, <2>3, ConcatNoRepeat DEF Own, OneOwner
  <2>5. None \notin new[r]
    BY <1>2
  <2> QED
    BY <2>2, <2>4, <2>5 DEF Queued
<1>5. seen' = seen \cup new[Hosting] \cup new[Embedded] /\ seen' \in SUBSET Url
  BY DEF PutAll, Fresh, Own, Typed, Role
<1> QED
  BY <1>3, <1>4, <1>5

(* The sentinels of request_stop and cancel leave the queued URLs as they   *)
(* are.                                                                     *)
LEMMA SentinelsEffect ==
  ASSUME Own, queue' = WithSentinels
  PROVE  /\ queue' \in [Role -> Seq(Url \cup {None})]
         /\ \A r \in Role : Queued(r)' = Queued(r) /\ NoRepeat(queue'[r])
<1> SUFFICES ASSUME NEW r \in Role
             PROVE  /\ queue'[r] \in Seq(Url \cup {None})
                    /\ Queued(r)' = Queued(r) /\ NoRepeat(queue'[r])
  BY DEF WithSentinels
<1> DEFINE n == IF live[r] > 0 THEN live[r] ELSE 1
           t == [k \in 1 .. n |-> None]
<1>1. n \in Nat /\ n > 0
  BY DEF Own, Typed
<1> HIDE DEF n
<1>2. t \in Seq(Url \cup {None}) /\ ToSet(t) = {None} /\ NoRepeat(t)
  BY <1>1 DEF ToSet, NoRepeat
<1>3. queue'[r] = queue[r] \o t
  BY DEF WithSentinels, n
<1> HIDE DEF t
<1>4. ItemsOf(t) = {} /\ queue[r] \in Seq(Url \cup {None}) /\ NoRepeat(queue[r])
  BY <1>2 DEF ItemsOf, Own, Typed, OneOwner
<1>5. ToSet(queue'[r]) = ToSet(queue[r]) \cup {None} /\ queue'[r] \in Seq(Url \cup {None})
  BY <1>2, <1>3, <1>4, ConcatItems
<1>6. NoRepeat(queue'[r])
  BY <1>2, <1>3, <1>4, ConcatNoRepeat
<1> QED
  BY <1>5, <1>6 DEF Queued

(* Taking the head of one role's queue leaves the other role alone.         *)
LEMMA TailEffect ==
  ASSUME Own, NEW r \in Role, queue[r] # <<>>, queue' = [queue EXCEPT ![r] = Tail(@)]
  PROVE  /\ queue' \in [Role -> Seq(Url \cup {None})]
         /\ Head(queue[r]) \in Url \cup {None}
         /\ Head(queue[r]) # None => Head(queue[r]) \in Queued(r)
         /\ \A q \in Role : /\ Queued(q)' = IF q = r THEN Queued(q) \ {Head(queue[r])}
                                                  ELSE Queued(q)
                            /\ NoRepeat(queue'[q])
                            /\ None \notin ToSet(queue[q]) => None \notin ToSet(queue'[q])
<1>1. queue[r] \in Seq(Url \cup {None}) /\ NoRepeat(queue[r])
  BY DEF Own, Typed, OneOwner
<1>2. /\ Tail(queue[r]) \in Seq(Url \cup {None})
      /\ Head(queue[r]) \in Url \cup {None}
      /\ Head(queue[r]) # None => Head(queue[r]) \in ItemsOf(queue[r])
      /\ ItemsOf(Tail(queue[r])) = ItemsOf(queue[r]) \ {Head(queue[r])}
      /\ NoRepeat(Tail(queue[r]))
      /\ None \notin ToSet(queue[r]) => None \notin ToSet(Tail(queue[r]))
  BY <1>1, TailItems
<1>3. \A q \in Role : queue'[q] = IF q = r THEN Tail(queue[r]) ELSE queue[q]
  BY DEF Own, Typed
<1>4. \A q \in Role : NoRepeat(queue[q])
  BY DEF Own, OneOwner
<1>5. queue' \in [Role -> Seq(Url \cup {None})]
  BY <1>2 DEF Own, Typed
<1> QED
  BY <1>2, <1>3, <1>4, <1>5 DEF Queued, ItemsOf

-----------------------------------------------------------------------------
(* Own is inductive: one lemma per group of actions.                        *)

(* There are finitely many worker tasks, as many per role as slots.         *)
LEMMA WorkersFinite ==
  /\ IsFiniteSet(Worker)
  /\ \A w \in Worker : RoleOf(w) \in Role
  /\ \A r \in Role : /\ IsFiniteSet({w \in Worker : RoleOf(w) = r})
                    /\ Cardinality({w \in Worker : RoleOf(w) = r}) = Cardinality(Slot)
                    /\ IsFiniteSet(Alive(r))
                    /\ IsFiniteSet(Busy(r))
  /\ Cardinality(Slot) \in Nat
  /\ Cardinality(Slot) > 0
<1>1. IsFiniteSet(Role)
  <2>1. Role = {Hosting} \cup {Embedded}
    BY DEF Role
  <2> QED
    BY <2>1, FS_Singleton, FS_Union
<1>2. IsFiniteSet(Worker)
  BY <1>1, FS_Product, RunPoolsAssumption DEF Worker
<1>3. \A w \in Worker : RoleOf(w) \in Role
  BY DEF Worker, RoleOf
<1>4. Cardinality(Slot) \in Nat /\ Cardinality(Slot) > 0
  BY FS_CardinalityType, FS_EmptySet, RunPoolsAssumption
<1>5. ASSUME NEW r \in Role
      PROVE  /\ IsFiniteSet({w \in Worker : RoleOf(w) = r})
             /\ Cardinality({w \in Worker : RoleOf(w) = r}) = Cardinality(Slot)
  <2>1. {w \in Worker : RoleOf(w) = r} = {r} \X Slot
    BY <1>5 DEF Worker, RoleOf
  <2>2. IsFiniteSet({r}) /\ Cardinality({r}) = 1
    BY FS_Singleton
  <2>3. Cardinality({r} \X Slot) = 1 * Cardinality(Slot) /\ IsFiniteSet({r} \X Slot)
    BY <2>2, FS_Product, RunPoolsAssumption
  <2>4. Cardinality({r} \X Slot) = Cardinality(Slot)
    BY <1>4, <2>3
  <2> QED
    BY <2>1, <2>3, <2>4, Zenon
<1>6. ASSUME NEW r \in Role PROVE IsFiniteSet(Alive(r)) /\ IsFiniteSet(Busy(r))
  BY <1>2, FS_Subset DEF Alive, Busy
<1> QED
  BY <1>2, <1>3, <1>4, <1>5, <1>6

(* The live counter after one worker left, and after a role was spawned.    *)
LEMMA LiveExit ==
  ASSUME Own, NEW w \in Worker, pc[w] # "off", pc' = [pc EXCEPT ![w] = "off"],
         live' = [live EXCEPT ![RoleOf(w)] = @ - 1]
  PROVE  LiveCount'
<1> SUFFICES ASSUME NEW r \in Role PROVE live'[r] = Cardinality(Alive(r)')
  BY DEF LiveCount
<1>1. Alive(r)' = IF r = RoleOf(w) THEN Alive(r) \ {w} ELSE Alive(r)
  BY DEF Alive, Own, Typed
<1>2. r = RoleOf(w) => w \in Alive(r)
  BY DEF Alive
<1>3. r = RoleOf(w) => Cardinality(Alive(r) \ {w}) = Cardinality(Alive(r)) - 1
  BY <1>2, WorkersFinite, FS_RemoveElement
<1> QED
  BY <1>1, <1>3 DEF Own, LiveCount, Typed

(* live_workers stays exact when ensure_workers spawns the worker sets of   *)
(* idle roles.                                                              *)
LEMMA LiveSpawn ==
  ASSUME Own, NEW new,
         live' = [r \in Role |-> live[r] + SpawnCount(new, r)],
         \A v \in Worker : (pc'[v] # "off") <=> (pc[v] # "off" \/ v \in Spawned(new))
  PROVE  LiveCount' /\ live' \in [Role -> Int] /\ \A v \in Spawned(new) : pc[v] = "off"
<1>1. ASSUME NEW v \in Spawned(new) PROVE pc[v] = "off"
  <2>1. v \in Worker /\ live[RoleOf(v)] = 0 /\ RoleOf(v) \in Role
    BY WorkersFinite DEF Spawned
  <2>2. Alive(RoleOf(v)) = {}
    BY <2>1, WorkersFinite, FS_EmptySet DEF Own, LiveCount
  <2> QED
    BY <2>1, <2>2 DEF Alive
<1>2. ASSUME NEW r \in Role PROVE live'[r] = Cardinality(Alive(r)') /\ live'[r] \in Int
  <2>1. CASE new[r] # {} /\ live[r] = 0
    <3>1. Alive(r)' = {w \in Worker : RoleOf(w) = r}
      BY <2>1 DEF Alive, Spawned
    <3> QED
      BY <2>1, <3>1, WorkersFinite DEF SpawnCount
  <2>2. CASE ~(new[r] # {} /\ live[r] = 0)
    <3>1. Alive(r)' = Alive(r)
      BY <2>2 DEF Alive, Spawned
    <3> QED
      BY <2>2, <3>1 DEF SpawnCount, Own, Typed, LiveCount
  <2> QED
    BY <2>1, <2>2
<1> QED
  BY <1>1, <1>2 DEF LiveCount

(* The pools of a run start out without owners.                             *)
LEMMA OwnInit == Init => Own
<1> SUFFICES ASSUME Init PROVE Own
  OBVIOUS
<1> USE DEF Init
<1>1. Typed
  <2>1. /\ queue \in [Role -> Seq(Url \cup {None})] /\ buffer \in [Role -> SUBSET Url]
        /\ pending \in [Role -> Int] /\ inflight \in [Role -> Int] /\ live \in [Role -> Int]
    OBVIOUS
  <2>2. producersDone \in [Role -> BOOLEAN] /\ drained \in [Role -> BOOLEAN]
    OBVIOUS
  <2>3. pc \in [Worker -> WorkerState] /\ item \in [Worker -> Url \cup {None}]
    BY DEF WorkerState
  <2>4. graph \in GraphState /\ hook \in HookState
    BY DEF GraphState, HookState
  <2> QED
    BY <2>1, <2>2, <2>3, <2>4 DEF Typed
<1>2. \A r \in Role : Queued(r) = {} /\ NoRepeat(queue[r])
  BY DEF Queued, ToSet, NoRepeat
<1>3. Running = {} /\ \A r \in Role : Alive(r) = {}
  BY DEF Running, Alive
<1>4. HoldsItem /\ Tracked
  BY DEF HoldsItem, Tracked
<1>5. LiveCount
  BY <1>3, FS_EmptySet DEF LiveCount
<1>6. Known /\ OneOwner
  BY <1>2, <1>3 DEF Known, OneOwner, Role
<1> QED
  BY <1>1, <1>4, <1>5, <1>6 DEF Own

(* A worker that leaves, takes a sentinel or blocks: its item, if it had    *)
(* one, has no owner afterwards.                                            *)
LEMMA OwnExit ==
  ASSUME Own, NEW w \in Worker,
         AbortAtTop(w) \/ TakeSentinel(w) \/ AgentCancelled(w) \/ Kill(w) \/ Block(w)
  PROVE  Own'
<1>1. RoleOf(w) \in Role
  BY DEF Worker, RoleOf
<1>2. /\ queue' \in [Role -> Seq(Url \cup {None})]
      /\ \A r \in Role : Queued(r)' = Queued(r) /\ NoRepeat(queue'[r])
  <2>1. CASE TakeSentinel(w)
    BY <1>1, <2>1, TailEffect DEF TakeSentinel, CanGet, Queued
  <2>2. CASE UNCHANGED queue
    BY <2>2 DEF Own, Typed, OneOwner, Queued
  <2> QED
    BY <2>1, <2>2 DEF AbortAtTop, AgentCancelled, Kill, Block, poolVars
<1>3. /\ seen' = seen /\ results' = results /\ folded' = folded /\ buffer' = buffer
      /\ embeddedEnqueued' = embeddedEnqueued
      /\ pc' \in [Worker -> WorkerState] /\ item' \in [Worker -> Url \cup {None}]
      /\ \A v \in Worker : v # w => pc'[v] = pc[v] /\ item'[v] = item[v]
      /\ pc'[w] # "busy" /\ item'[w] = None
  BY DEF Own, Typed, HoldsItem, AbortAtTop, TakeSentinel, AgentCancelled, Kill, Block, Exit,
         resultVars, poolVars, WorkerState
<1>4. Typed'
  <2>1. /\ pending' \in [Role -> Int] /\ inflight' \in [Role -> Int] /\ live' \in [Role -> Int]
        /\ drained' \in [Role -> BOOLEAN]
    <3>1. CASE AbortAtTop(w)
      BY <1>1, <3>1 DEF Own, Typed, AbortAtTop, Exit, MarkCancelled
    <3>2. CASE TakeSentinel(w)
      BY <1>1, <3>2, CheckDrainedBoolean DEF Own, Typed, TakeSentinel, Exit
    <3>3. CASE AgentCancelled(w)
      BY <1>1, <3>3 DEF Own, Typed, AgentCancelled, Exit, MarkCancelled
    <3>4. CASE Kill(w)
      BY <1>1, <3>4, CheckDrainedBoolean DEF Own, Typed, Kill, Exit
    <3>5. CASE Block(w)
      BY <3>5 DEF Own, Typed, Block, poolVars
    <3> QED
      BY <3>1, <3>2, <3>3, <3>4, <3>5
  <2>3. /\ producersDone' \in [Role -> BOOLEAN]
        /\ cancelled' \in BOOLEAN /\ errors' \in BOOLEAN /\ flag' \in BOOLEAN
    BY DEF Own, Typed, AbortAtTop, TakeSentinel, AgentCancelled, Kill, Block,
           MarkCancelled, stopVars, poolVars
  <2>2. graph' \in GraphState /\ awaited' \in SUBSET Worker /\ hook' \in HookState
        /\ joined' \in SUBSET Worker
    BY DEF Own, Typed, AbortAtTop, TakeSentinel, AgentCancelled, Kill, Block, Exit, callerVars
  <2> QED
    BY <1>2, <1>3, <2>1, <2>2, <2>3 DEF Own, Typed
<1>5. Running' \subseteq Running
  BY <1>3 DEF Running
<1>6. HoldsItem' /\ Known'
  BY <1>2, <1>3, <1>5 DEF Own, HoldsItem, Known
<1>7. OneOwner'
  <2>1. \A v, x \in Worker : pc'[v] = "busy" /\ pc'[x] = "busy" /\ item'[v] = item'[x] => v = x
    BY <1>3 DEF Own, OneOwner
  <2>2. Queued(Hosting)' \cap Queued(Embedded)' = {}
    BY <1>2 DEF Own, OneOwner, Role
  <2>3. Running' \cap results' = {} /\ \A q \in Role : Queued(q)' \cap (Running' \cup results') = {}
    BY <1>2, <1>3, <1>5 DEF Own, OneOwner
  <2> QED
    BY <1>2, <2>1, <2>2, <2>3 DEF OneOwner
<1>8. LiveCount' /\ Tracked'
  <2>1. CASE Block(w)
    <3>1. \A r \in Role : Alive(r)' = Alive(r)
      BY <2>1 DEF Block, Alive, Own, Typed
    <3> QED
      BY <2>1, <3>1 DEF Block, LiveCount, Tracked, Own, Typed, poolVars, callerVars
  <2>2. CASE AbortAtTop(w) \/ TakeSentinel(w) \/ AgentCancelled(w) \/ Kill(w)
    <3>1. pc[w] # "off"
      BY <2>2 DEF AbortAtTop, TakeSentinel, CanGet, AgentCancelled, Kill, Own, Tracked
    <3>2. Exit(w)
      BY <2>2 DEF AbortAtTop, TakeSentinel, AgentCancelled, Kill
    <3>3. LiveCount'
      BY <3>1, <3>2, LiveExit DEF Exit
    <3>4. Tracked'
      BY <3>2 DEF Exit, Tracked, Own, Typed
    <3> QED
      BY <3>3, <3>4
  <2> QED
    BY <2>1, <2>2
<1> QED
  BY <1>4, <1>6, <1>7, <1>8 DEF Own

(* A worker that takes a URL from the queue becomes its only owner.         *)
LEMMA OwnTakeItem ==
  ASSUME Own, NEW w \in Worker, TakeItem(w)
  PROVE  Own'
<1> DEFINE r == RoleOf(w)
           u == Head(queue[r])
<1>1. r \in Role
  BY DEF Worker, RoleOf
<1>2. /\ queue' \in [Role -> Seq(Url \cup {None})]
      /\ u \in Url /\ u \in Queued(r)
      /\ \A q \in Role : /\ Queued(q)' = IF q = r THEN Queued(q) \ {u} ELSE Queued(q)
                         /\ NoRepeat(queue'[q])
  BY <1>1, TailEffect DEF TakeItem, CanGet
<1>3. /\ pc' \in [Worker -> WorkerState] /\ item' \in [Worker -> Url \cup {None}]
      /\ \A v \in Worker : v # w => pc'[v] = pc[v] /\ item'[v] = item[v]
      /\ pc'[w] = "busy" /\ item'[w] = u
      /\ pc[w] # "busy"
  BY <1>2 DEF Own, Typed, TakeItem, CanGet, WorkerState
<1>4. Typed'
  BY <1>1, <1>2, <1>3 DEF Own, Typed, TakeItem, resultVars, stopVars, callerVars
<1> HIDE DEF u
<1>5. Running' = Running \cup {u}
  BY <1>3 DEF Running
<1>6. seen' = seen /\ results' = results
  BY DEF TakeItem, resultVars
<1>7. \A q \in Role : u \notin Queued(q)'
  BY <1>1, <1>2 DEF Own, OneOwner, Role, Hosting, Embedded
<1>8. u \notin Running /\ u \notin results /\ u \in seen
  BY <1>1, <1>2 DEF Own, OneOwner, Known
<1>9. \A v \in Worker : pc[v] = "busy" => item[v] # u
  BY <1>8 DEF Running
<1>10. OneOwner'
  <2>1. \A v, x \in Worker : pc'[v] = "busy" /\ pc'[x] = "busy" /\ item'[v] = item'[x] => v = x
    BY <1>3, <1>9 DEF Own, OneOwner
  <2>2. Queued(Hosting)' \cap Queued(Embedded)' = {}
    BY <1>2 DEF Own, OneOwner, Role
  <2>3. \A q \in Role : Queued(q)' \cap (Running' \cup results') = {}
    BY <1>2, <1>5, <1>6, <1>7 DEF Own, OneOwner
  <2>4. Running' \cap results' = {}
    BY <1>5, <1>6, <1>8 DEF Own, OneOwner
  <2> QED
    BY <1>2, <2>1, <2>2, <2>3, <2>4 DEF OneOwner
<1>11. LiveCount' /\ Tracked'
  <2>1. \A q \in Role : Alive(q)' = Alive(q)
    BY <1>3 DEF TakeItem, CanGet, Alive
  <2> QED
    BY <1>3, <2>1 DEF TakeItem, CanGet, LiveCount, Tracked, Own, Typed, callerVars
<1> QED
  BY <1>2, <1>3, <1>4, <1>5, <1>6, <1>8, <1>10, <1>11 DEF Own, HoldsItem, Known

(* An agent that ended: its URL moves from the worker to the results, and   *)
(* what it discovered, until then unseen, to the queues.                    *)
LEMMA OwnReport ==
  ASSUME Own, NEW w \in Worker, NEW hs \in SUBSET Url, NEW es \in SUBSET Url,
         FinishItem(w, hs, es) \/ Crash(w, hs)
  PROVE  Own'
<1> DEFINE r == RoleOf(w)
           u == item[w]
<1>1. r \in Role /\ pc[w] = "busy" /\ u \in Url /\ u \in Running
  BY DEF Worker, RoleOf, FinishItem, Crash, Own, HoldsItem, Running
<1>2. PICK new : /\ Fresh(new) /\ PutAll(new)
                 /\ \A v \in Worker : v # w => item'[v] = item[v] /\ (pc'[v] = "busy" <=> pc[v] = "busy")
                 /\ pc'[w] # "busy" /\ item'[w] = None
                 /\ pc' \in [Worker -> WorkerState] /\ item' \in [Worker -> Url \cup {None}]
                 /\ pending' = PendingAfter(w, new)
                 /\ live' \in [Role -> Int] /\ LiveCount' /\ Tracked'
                 /\ embeddedEnqueued' \in SUBSET Url
  <2>1. CASE FinishItem(w, hs, es)
    <3> DEFINE new == Accepted(hs, es)
    <3>1. Fresh(new)
      BY AcceptedFresh DEF Own
    <3> HIDE DEF new
    <3>2. /\ live' = [q \in Role |-> live[q] + SpawnCount(new, q)]
          /\ pc' = [v \in Worker |-> IF v = w \/ v \in Spawned(new) THEN "top" ELSE pc[v]]
          /\ item' = [item EXCEPT ![w] = None]
          /\ PutAll(new) /\ pending' = PendingAfter(w, new)
          /\ embeddedEnqueued' = embeddedEnqueued \cup new[Embedded]
          /\ awaited' = awaited /\ joined' = joined
      BY <2>1 DEF FinishItem, new, callerVars
    <3>3. \A v \in Worker : (pc'[v] # "off") <=> (pc[v] # "off" \/ v \in Spawned(new))
      BY <1>1, <3>2
    <3>4. LiveCount' /\ live' \in [Role -> Int] /\ \A v \in Spawned(new) : pc[v] = "off"
      BY <3>2, <3>3, LiveSpawn
    <3>5. Tracked'
      BY <3>2, <3>3 DEF Own, Tracked
    <3>6. \A v \in Worker : v # w => item'[v] = item[v] /\ (pc'[v] = "busy" <=> pc[v] = "busy")
      BY <3>2, <3>4 DEF Own, Typed
    <3>7. pc' \in [Worker -> WorkerState] /\ item' \in [Worker -> Url \cup {None}]
          /\ pc'[w] # "busy" /\ item'[w] = None
      BY <3>2 DEF Own, Typed, WorkerState
    <3>8. embeddedEnqueued' \in SUBSET Url
      BY <3>1, <3>2 DEF Own, Typed, Fresh, Role
    <3> QED
      BY <3>1, <3>2, <3>4, <3>5, <3>6, <3>7, <3>8
  <2>2. CASE Crash(w, hs)
    <3> DEFINE new == Accepted(hs, {})
    <3>1. Fresh(new)
      BY AcceptedFresh DEF Own
    <3> HIDE DEF new
    <3>2. Exit(w) /\ PutAll(new) /\ pending' = PendingAfter(w, new)
          /\ embeddedEnqueued' = embeddedEnqueued
      BY <2>2 DEF Crash, new
    <3>3. LiveCount'
      BY <1>1, <3>2, LiveExit DEF Exit
    <3>4. live' \in [Role -> Int]
      BY <1>1, <3>2 DEF Exit, Own, Typed
    <3>5. Tracked' /\ pc' \in [Worker -> WorkerState] /\ item' \in [Worker -> Url \cup {None}]
          /\ pc'[w] # "busy" /\ item'[w] = None
          /\ \A v \in Worker : v # w => item'[v] = item[v] /\ (pc'[v] = "busy" <=> pc[v] = "busy")
      BY <3>2 DEF Exit, Own, Typed, Tracked, WorkerState
    <3> QED
      BY <3>1, <3>2, <3>3, <3>4, <3>5 DEF Own, Typed
  <2> QED
    BY <2>1, <2>2
<1>3. /\ seen' \in SUBSET Url /\ seen' = seen \cup new[Hosting] \cup new[Embedded]
      /\ queue' \in [Role -> Seq(Url \cup {None})]
      /\ \A q \in Role : Queued(q)' = Queued(q) \cup new[q] /\ NoRepeat(queue'[q])
  BY <1>2, PutAllEffect
<1>4. /\ results' = results \cup {u} /\ folded' = folded
      /\ buffer' = [buffer EXCEPT ![r] = @ \cup {u}]
  BY DEF FinishItem, Crash, Report
<1>5. Typed'
  <2>1. pending' \in [Role -> Int]
    <3>1. \A q \in Role : Cardinality(new[q]) \in Int
      BY <1>2, FS_Subset, FS_CardinalityType, RunPoolsAssumption DEF Fresh
    <3> QED
      BY <1>2, <3>1 DEF PendingAfter, Own, Typed
  <2>2. inflight' \in [Role -> Int] /\ drained' \in [Role -> BOOLEAN]
    <3>1. CASE FinishItem(w, hs, es)
      BY <1>1, <3>1, CheckDrainedBoolean DEF FinishItem, Own, Typed
    <3>2. CASE Crash(w, hs)
      BY <1>1, <3>2 DEF Crash, Exit, Own, Typed
    <3> QED
      BY <3>1, <3>2
  <2>3. /\ producersDone' \in [Role -> BOOLEAN] /\ cancelled' \in BOOLEAN
        /\ errors' \in BOOLEAN /\ flag' \in BOOLEAN /\ graph' \in GraphState
        /\ hook' \in HookState /\ awaited' \in SUBSET Worker /\ joined' \in SUBSET Worker
    BY DEF FinishItem, Crash, Exit, Own, Typed, stopVars, callerVars
  <2> QED
    BY <1>1, <1>2, <1>3, <1>4, <2>1, <2>2, <2>3 DEF Own, Typed
<1>6. \A v \in Worker : v # w /\ pc[v] = "busy" => item[v] # u
  BY <1>1 DEF Own, OneOwner
<1> HIDE DEF u
<1>7. Running' = Running \ {u}
  <2>1. \A v \in Worker : v # w => item'[v] = item[v] /\ (pc'[v] = "busy" <=> pc[v] = "busy")
    BY <1>2
  <2>2. pc'[w] # "busy" /\ pc[w] = "busy" /\ item[w] = u
    BY <1>1, <1>2 DEF u
  <2> QED
    BY <1>6, <2>1, <2>2 DEF Running
<1>8. new[Hosting] \cap (Running \cup results) = {} /\ new[Embedded] \cap (Running \cup results) = {}
  BY <1>2 DEF Fresh, Own, Known, Role
<1>9. u \notin Queued(Hosting) /\ u \notin Queued(Embedded) /\ u \notin new[Hosting]
      /\ u \notin new[Embedded] /\ u \in seen
  BY <1>1, <1>8 DEF Own, Known, OneOwner, Role
<1>12. /\ \A v \in Worker : v # w => item'[v] = item[v] /\ (pc'[v] = "busy" <=> pc[v] = "busy")
       /\ pc'[w] # "busy" /\ item'[w] = None
  BY <1>2
<1>10. HoldsItem' /\ Known'
  <2>1. HoldsItem'
    BY <1>12 DEF Own, HoldsItem
  <2>2. Known'
    BY <1>3, <1>4, <1>7, <1>9 DEF Own, Known, Role
  <2> QED
    BY <2>1, <2>2
<1>11. OneOwner'
  <2>1. \A v, x \in Worker : pc'[v] = "busy" /\ pc'[x] = "busy" /\ item'[v] = item'[x] => v = x
    BY <1>12 DEF Own, OneOwner
  <2>2. Queued(Hosting)' \cap Queued(Embedded)' = {}
    BY <1>2, <1>3 DEF Own, OneOwner, Known, Fresh, Role
  <2>3. \A q \in Role : Queued(q)' \cap (Running' \cup results') = {}
    BY <1>3, <1>4, <1>7, <1>8, <1>9 DEF Own, OneOwner, Role
  <2>4. Running' \cap results' = {}
    BY <1>4, <1>7 DEF Own, OneOwner
  <2> QED
    BY <1>3, <2>1, <2>2, <2>3, <2>4 DEF OneOwner
<1> QED
  BY <1>2, <1>5, <1>10, <1>11 DEF Own

(* A node of the graph puts URLs and spawns workers.                        *)
LEMMA OwnPut ==
  ASSUME Own,
         (\E us \in SUBSET Url : Produce(us)) \/ (\E r \in Role, us \in SUBSET Url : BeginDrain(r, us))
  PROVE  Own'
<1>1. PICK new : /\ Fresh(new) /\ PutAll(new)
                 /\ pending' = [r \in Role |-> pending[r] + Cardinality(new[r])]
                 /\ live' = [r \in Role |-> live[r] + SpawnCount(new, r)]
                 /\ pc' = [w \in Worker |-> IF w \in Spawned(new) THEN "top" ELSE pc[w]]
                 /\ UNCHANGED <<inflight, resultVars, stopVars, item, awaited, hook, joined>>
                 /\ producersDone' \in [Role -> BOOLEAN] /\ drained' \in [Role -> BOOLEAN]
                 /\ graph' \in GraphState
  <2>1. CASE \E us \in SUBSET Url : Produce(us)
    <3>1. PICK us \in SUBSET Url : Produce(us)
      BY <2>1
    <3>2. Fresh(Accepted(us, {}))
      BY AcceptedFresh DEF Own
    <3> QED
      BY <3>1, <3>2 DEF Produce, callerVars, Own, Typed
  <2>2. CASE \E r \in Role, us \in SUBSET Url : BeginDrain(r, us)
    <3>1. PICK r \in Role, us \in SUBSET Url : BeginDrain(r, us)
      BY <2>2
    <3> DEFINE new == IF r = Hosting THEN Accepted(us, {}) ELSE Accepted({}, us)
    <3>2. Fresh(new)
      BY AcceptedFresh DEF Own
    <3> HIDE DEF new
    <3>3. /\ PutAll(new)
          /\ pending' = [q \in Role |-> pending[q] + Cardinality(new[q])]
          /\ live' = [q \in Role |-> live[q] + SpawnCount(new, q)]
          /\ pc' = [w \in Worker |-> IF w \in Spawned(new) THEN "top" ELSE pc[w]]
          /\ UNCHANGED <<inflight, resultVars, stopVars, item, awaited, hook, joined>>
      BY <3>1 DEF BeginDrain, StartDrain, new
    <3>4. producersDone' \in [Role -> BOOLEAN] /\ drained' \in [Role -> BOOLEAN]
      BY <3>1, CheckDrainedBoolean DEF BeginDrain, StartDrain, Own, Typed
    <3>5. graph' \in GraphState
      BY <3>1 DEF BeginDrain, StartDrain, GraphState
    <3> QED
      BY <3>2, <3>3, <3>4, <3>5
  <2> QED
    BY <2>1, <2>2
<1>2. /\ seen' \in SUBSET Url /\ seen' = seen \cup new[Hosting] \cup new[Embedded]
      /\ queue' \in [Role -> Seq(Url \cup {None})]
      /\ \A q \in Role : Queued(q)' = Queued(q) \cup new[q] /\ NoRepeat(queue'[q])
  BY <1>1, PutAllEffect
<1>3. \A v \in Worker : (pc'[v] # "off") <=> (pc[v] # "off" \/ v \in Spawned(new))
  BY <1>1
<1>4. LiveCount' /\ live' \in [Role -> Int] /\ \A v \in Spawned(new) : pc[v] = "off"
  BY <1>1, <1>3, LiveSpawn
<1>5. \A v \in Worker : item'[v] = item[v] /\ (pc'[v] = "busy" <=> pc[v] = "busy")
  BY <1>1, <1>4
<1>6. Typed'
  <2>1. \A q \in Role : Cardinality(new[q]) \in Int
    BY <1>1, FS_Subset, FS_CardinalityType, RunPoolsAssumption DEF Fresh
  <2>2. pending' \in [Role -> Int]
    BY <1>1, <2>1 DEF Own, Typed
  <2>3. pc' \in [Worker -> WorkerState]
    BY <1>1 DEF Own, Typed, WorkerState
  <2> QED
    BY <1>1, <1>2, <1>4, <2>2, <2>3 DEF Own, Typed, resultVars, stopVars
<1>7. Running' = Running /\ results' = results
  BY <1>1, <1>5 DEF Running, resultVars
<1>8. HoldsItem' /\ Known'
  BY <1>1, <1>2, <1>5, <1>7 DEF Own, HoldsItem, Known, Role
<1>9. Tracked'
  BY <1>1, <1>3 DEF Own, Tracked
<1>10. OneOwner'
  <2>1. \A v, x \in Worker : pc'[v] = "busy" /\ pc'[x] = "busy" /\ item'[v] = item'[x] => v = x
    BY <1>5 DEF Own, OneOwner
  <2>2. Queued(Hosting)' \cap Queued(Embedded)' = {}
    BY <1>1, <1>2 DEF Own, OneOwner, Known, Fresh, Role
  <2>3. \A q \in Role : Queued(q)' \cap (Running' \cup results') = {}
    BY <1>1, <1>2, <1>7 DEF Own, OneOwner, Known, Fresh
  <2>4. Running' \cap results' = {}
    BY <1>7 DEF Own, OneOwner
  <2> QED
    BY <1>2, <2>1, <2>2, <2>3, <2>4 DEF OneOwner
<1> QED
  BY <1>4, <1>6, <1>8, <1>9, <1>10 DEF Own

(* Every other step leaves the tasks and the owners alone.                  *)
LEMMA OwnOther ==
  ASSUME Own,
         \/ \E r \in Role : EndDrain(r) \/ FailDrain(r)
         \/ LeaveGraph \/ BeginClose \/ Reap \/ ControlStep \/ UNCHANGED vars
  PROVE  Own'
<1>1. UNCHANGED <<seen, pending, inflight, live, producersDone, results, embeddedEnqueued, errors, workerVars>>
  BY DEF EndDrain, Consume, FailDrain, LeaveGraph, BeginClose, Reap, ControlStep, RequestCancel,
         HookCancel, HookTimeout, HookDone, CancelTask, vars, poolVars, resultVars, stopVars
<1>2. UNCHANGED queue \/ queue' = WithSentinels
  BY DEF EndDrain, FailDrain, LeaveGraph, BeginClose, Reap, ControlStep, RequestCancel,
         HookCancel, HookTimeout, HookDone, CancelTask, vars, poolVars
<1>3. /\ queue' \in [Role -> Seq(Url \cup {None})]
      /\ \A r \in Role : Queued(r)' = Queued(r) /\ NoRepeat(queue'[r])
  BY <1>2, SentinelsEffect DEF Own, Typed, OneOwner, Queued
<1>4. /\ Running' = Running
      /\ \A r \in Role : Alive(r)' = Alive(r)
  BY <1>1 DEF Running, Alive, workerVars
<1>5. /\ awaited' \in {awaited, LiveTasks}
      /\ joined' \in {joined, LiveTasks}
  BY DEF EndDrain, FailDrain, LeaveGraph, BeginClose, Reap, ControlStep, RequestCancel,
         HookCancel, HookTimeout, HookDone, CancelTask, vars, callerVars
<1>6. LiveTasks \subseteq {w \in Worker : pc[w] # "off"}
  BY DEF LiveTasks, Alive
<1>7. Tracked' /\ awaited' \in SUBSET Worker /\ joined' \in SUBSET Worker
  BY <1>1, <1>5, <1>6 DEF Own, Typed, Tracked, workerVars
<1>8. cancelled' \in BOOLEAN /\ flag' \in BOOLEAN /\ graph' \in GraphState /\ hook' \in HookState
  <2>1. CASE \/ \E r \in Role : EndDrain(r) \/ FailDrain(r)
             \/ LeaveGraph \/ BeginClose \/ Reap
    BY <2>1 DEF EndDrain, FailDrain, LeaveGraph, BeginClose, Reap, stopVars, Own, Typed, GraphState
  <2>2. CASE ControlStep
    BY <2>2 DEF ControlStep, RequestCancel, HookCancel, HookTimeout, HookDone, CancelTask, callerVars,
                stopVars, Own, Typed, GraphState, HookState
  <2>3. CASE UNCHANGED vars
    BY <2>3 DEF vars, callerVars, stopVars, Own, Typed
  <2> QED
    BY <2>1, <2>2, <2>3
<1>9. drained' \in [Role -> BOOLEAN]
  <2>1. drained' = drained \/ drained' = [r \in Role |-> TRUE]
    BY DEF EndDrain, FailDrain, LeaveGraph, BeginClose, Reap, ControlStep, RequestCancel,
           HookCancel, HookTimeout, HookDone, CancelTask, vars, poolVars
  <2> QED
    BY <2>1 DEF Own, Typed
<1>10. folded' \in SUBSET Url /\ buffer' \in [Role -> SUBSET Url]
  <2>1. CASE \E r \in Role : EndDrain(r)
    BY <2>1 DEF EndDrain, Consume, Own, Typed
  <2>2. CASE folded' = folded /\ buffer' = buffer
    BY <2>2 DEF Own, Typed
  <2> QED
    BY <2>1, <2>2 DEF FailDrain, LeaveGraph, BeginClose, Reap, ControlStep, RequestCancel,
           HookCancel, HookTimeout, HookDone, CancelTask, vars, resultVars
<1>11. Typed'
  BY <1>1, <1>3, <1>7, <1>8, <1>9, <1>10 DEF Own, Typed, workerVars
<1>12. HoldsItem' /\ Known' /\ OneOwner'
  BY <1>1, <1>3, <1>4 DEF Own, HoldsItem, Known, OneOwner, Role, workerVars
<1>13. LiveCount'
  BY <1>1, <1>4 DEF Own, LiveCount
<1> QED
  BY <1>7, <1>11, <1>12, <1>13 DEF Own

(* No step of a worker, of the graph or of the control room breaks Own.     *)
LEMMA OwnNext == Own /\ [Next]_vars => Own'
<1> SUFFICES ASSUME Own, [Next]_vars PROVE Own'
  OBVIOUS
<1>1. ASSUME NEW w \in Worker, WorkerStep(w) PROVE Own'
  BY <1>1, OwnExit, OwnTakeItem, OwnReport DEF WorkerStep
<1>2. CASE GraphStep
  BY <1>2, OwnPut, OwnOther DEF GraphStep
<1>3. CASE ControlStep \/ Finished \/ UNCHANGED vars
  BY <1>3, OwnOther DEF Finished
<1> QED
  BY <1>1, <1>2, <1>3 DEF Next

(* Own is an invariant of the pools.                                        *)
LEMMA OwnInvariant == Spec => []Own
<1> QED
  BY OwnInit, OwnNext, PTL DEF Spec

(* No URL is ever in two places at once: no page agent runs twice on a URL, *)
(* and no worker takes a URL that has its result (enqueue, _worker_loop).   *)
THEOREM OneOwnerHolds == Spec => []OneOwner
<1>1. Own => OneOwner
  BY DEF Own
<1> QED
  BY <1>1, OwnInvariant, PTL

-----------------------------------------------------------------------------
(* The counters.                                                            *)

(* The size of a set after some members left and others joined.             *)
LEMMA Replace ==
  ASSUME NEW S, IsFiniteSet(S), NEW gone, gone \subseteq S,
         NEW new, IsFiniteSet(new), new \cap S = {}
  PROVE  Cardinality((S \ gone) \cup new) = Cardinality(S) - Cardinality(gone) + Cardinality(new)
<1> DEFINE rest == S \ gone
<1>1. S \cap gone = gone /\ IsFiniteSet(gone) /\ IsFiniteSet(rest)
  BY FS_Subset
<1>2. Cardinality(rest) = Cardinality(S) - Cardinality(gone)
  BY <1>1, FS_Difference
<1>3. rest \cap new = {}
  OBVIOUS
<1>4. Cardinality(rest) \in Nat /\ Cardinality(new) \in Nat /\ Cardinality(S) \in Nat /\ Cardinality(gone) \in Nat
  BY <1>1, FS_CardinalityType
<1> HIDE DEF rest
<1>5. Cardinality(rest \cup new) = Cardinality(rest) + Cardinality(new) - Cardinality(rest \cap new)
  BY <1>1, FS_Union
<1>6. Cardinality(rest \cap new) = 0
  BY <1>3, FS_EmptySet
<1>7. Cardinality(rest \cup new) = Cardinality(S) - Cardinality(gone) + Cardinality(new)
  BY <1>2, <1>4, <1>5, <1>6
<1> QED
  BY <1>7 DEF rest

(* The outstanding URLs of a role are finitely many and were all accepted.  *)
LEMMA OutstandingFinite ==
  ASSUME Own, NEW r \in Role
  PROVE  /\ IsFiniteSet(Outstanding(r)) /\ IsFiniteSet(Busy(r))
         /\ Outstanding(r) \subseteq seen
         /\ \A w \in Busy(r) : item[w] \in Outstanding(r)
<1>1. Outstanding(r) \subseteq seen /\ seen \in SUBSET Url
  BY DEF Own, Known, Typed, Outstanding, Running, Busy
<1>2. IsFiniteSet(Outstanding(r))
  BY <1>1, FS_Subset, RunPoolsAssumption
<1> QED
  BY <1>1, <1>2, WorkersFinite DEF Outstanding

(* A role without live workers has no worker task at all.                   *)
LEMMA NoneAlive ==
  ASSUME Own, NEW v \in Worker, live[RoleOf(v)] = 0
  PROVE  pc[v] = "off"
<1>1. RoleOf(v) \in Role /\ IsFiniteSet(Alive(RoleOf(v)))
  BY WorkersFinite
<1>2. Alive(RoleOf(v)) = {}
  BY <1>1, FS_EmptySet DEF Own, LiveCount
<1> QED
  BY <1>2 DEF Alive

(* A worker that ends or reports: its URL is no longer outstanding, what it *)
(* discovered now is.                                                       *)
LEMMA AccountLeave ==
  ASSUME Own, Accounting, NEW w \in Worker, NEW new, Fresh(new),
         \A q \in Role : Queued(q)' = Queued(q) \cup new[q],
         pc'[w] # "busy",
         \A v \in Worker : v # w => item'[v] = item[v] /\ (pc'[v] = "busy" <=> pc[v] = "busy"),
         \A q \in Role :
           LET held == IF pc[w] = "busy" /\ RoleOf(w) = q THEN 1 ELSE 0
           IN  pending'[q] = pending[q] + Cardinality(new[q]) - held /\ inflight'[q] = inflight[q] - held
  PROVE  \A q \in Role : pending'[q] = Cardinality(Outstanding(q)') /\ inflight'[q] = Cardinality(Busy(q)')
<1> SUFFICES ASSUME NEW q \in Role
             PROVE  pending'[q] = Cardinality(Outstanding(q)') /\ inflight'[q] = Cardinality(Busy(q)')
  OBVIOUS
<1> DEFINE left == {v \in {w} : pc[v] = "busy" /\ RoleOf(v) = q}
           gone == {item[v] : v \in left}
           held == IF pc[w] = "busy" /\ RoleOf(w) = q THEN 1 ELSE 0
<1>1. pending'[q] = pending[q] + Cardinality(new[q]) - held /\ inflight'[q] = inflight[q] - held
  OBVIOUS
<1>2. Busy(q)' = (Busy(q) \ left) \cup {}
  BY DEF Busy
<1>3. Outstanding(q)' = (Outstanding(q) \ gone) \cup new[q]
  <2>1. {item'[v] : v \in Busy(q)'} = {item[v] : v \in Busy(q)} \ gone
    BY <1>2 DEF Busy, Own, OneOwner
  <2>2. \A u \in gone : u \notin Queued(q) /\ u \notin new[q]
    BY DEF Own, OneOwner, Known, Fresh, Running
  <2> HIDE DEF gone
  <2> QED
    BY <2>1, <2>2 DEF Outstanding
<1>4. left \subseteq Busy(q) /\ gone \subseteq Outstanding(q)
  BY DEF Busy, Outstanding
<1>5. Cardinality(left) = held /\ Cardinality(gone) = held
  <2>1. CASE pc[w] = "busy" /\ RoleOf(w) = q
    <3>1. left = {w} /\ gone = {item[w]} /\ held = 1
      BY <2>1
    <3> HIDE DEF left, gone, held
    <3> QED
      BY <3>1, FS_Singleton
  <2>2. CASE ~(pc[w] = "busy" /\ RoleOf(w) = q)
    <3>1. left = {} /\ gone = {} /\ held = 0
      BY <2>2
    <3> HIDE DEF left, gone, held
    <3> QED
      BY <3>1, FS_EmptySet
  <2> QED
    BY <2>1, <2>2
<1>6. IsFiniteSet(new[q]) /\ new[q] \cap Outstanding(q) = {}
  BY OutstandingFinite, FS_Subset, RunPoolsAssumption DEF Fresh
<1> HIDE DEF left, gone, held
<1>7. Cardinality(Outstanding(q)') = Cardinality(Outstanding(q)) - held + Cardinality(new[q])
  BY <1>3, <1>4, <1>5, <1>6, OutstandingFinite, Replace
<1>8. Cardinality(Busy(q)') = Cardinality(Busy(q)) - held
  <2>1. Cardinality({}) = 0 /\ IsFiniteSet({})
    BY FS_EmptySet
  <2>2. Cardinality(Busy(q)') = Cardinality(Busy(q)) - held + 0
    BY <1>2, <1>4, <1>5, <2>1, OutstandingFinite, Replace
  <2>3. Cardinality(Busy(q)) \in Int /\ held \in Int
    BY OutstandingFinite, FS_CardinalityType DEF held
  <2> QED
    BY <2>2, <2>3
<1>9. Cardinality(Outstanding(q)) \in Int /\ held \in Int /\ Cardinality(new[q]) \in Int
  BY OutstandingFinite, <1>6, FS_CardinalityType DEF held
<1> QED
  BY <1>1, <1>7, <1>8, <1>9 DEF Accounting

(* All counters start at zero, and so does what they count.                 *)
LEMMA AccountingInit == Init => Accounting
<1> SUFFICES ASSUME Init PROVE Accounting
  OBVIOUS
<1>1. \A r \in Role : Busy(r) = {} /\ Alive(r) = {} /\ Queued(r) = {}
  BY DEF Init, Busy, Alive, Queued, ToSet
<1>2. \A r \in Role : Outstanding(r) = {}
  BY <1>1 DEF Outstanding
<1> QED
  BY <1>1, <1>2, FS_EmptySet DEF Init, Accounting

(* The counters stay exact through every step of a worker, its failures and *)
(* teardown included.                                                       *)
LEMMA AccountingWorker ==
  ASSUME Own, Own', Accounting, NEW w \in Worker, WorkerStep(w)
  PROVE  Accounting'
<1> DEFINE Right == \A q \in Role : pending'[q] = Cardinality(Outstanding(q)')
                                    /\ inflight'[q] = Cardinality(Busy(q)')
           none == [q \in Role |-> {}]
<1> SUFFICES Right
  BY DEF Accounting, Own, LiveCount
<1>1. RoleOf(w) \in Role
  BY DEF Worker, RoleOf
<1>2. Fresh(none) /\ \A q \in Role : Cardinality(none[q]) = 0
  BY FS_EmptySet DEF Fresh, Role
<1>3. ASSUME Exit(w), \A q \in Role : Queued(q)' = Queued(q),
             \A q \in Role : pending'[q] = pending[q] - (IF pc[w] = "busy" /\ RoleOf(w) = q THEN 1 ELSE 0)
      PROVE  Right
  <2>1. pc'[w] # "busy" /\ \A v \in Worker : v # w => item'[v] = item[v] /\ (pc'[v] = "busy" <=> pc[v] = "busy")
    BY <1>3 DEF Exit, Own, Typed
  <2>2. \A q \in Role : inflight'[q] = inflight[q] - (IF pc[w] = "busy" /\ RoleOf(w) = q THEN 1 ELSE 0)
    BY <1>1, <1>3 DEF Exit, Own, Typed
  <2>3. \A q \in Role : Queued(q)' = Queued(q) \cup none[q]
    BY <1>3
  <2>4. \A q \in Role : pending[q] \in Int /\ pending[q] + Cardinality(none[q]) = pending[q]
    BY <1>2 DEF Own, Typed
  <2> HIDE DEF none
  <2> QED
    BY <1>2, <1>3, <2>1, <2>2, <2>3, <2>4, AccountLeave
<1>4. CASE AbortAtTop(w)
  <2>1. \A q \in Role : Queued(q)' = Queued(q)
    BY <1>4 DEF AbortAtTop, Queued
  <2> QED
    BY <1>3, <1>4, <2>1 DEF AbortAtTop, Own, Typed
<1>5. CASE TakeSentinel(w)
  <2>1. \A q \in Role : Queued(q)' = Queued(q)
    BY <1>1, <1>5, TailEffect DEF TakeSentinel, CanGet, Queued
  <2> QED
    BY <1>3, <1>5, <2>1, SMTT(30) DEF TakeSentinel, CanGet, Own, Typed
<1>6. CASE AgentCancelled(w)
  <2>1. \A q \in Role : Queued(q)' = Queued(q)
    BY <1>6 DEF AgentCancelled, Queued
  <2>2. \A q \in Role : pending'[q] = pending[q] - (IF pc[w] = "busy" /\ RoleOf(w) = q THEN 1 ELSE 0)
    BY <1>1, <1>6 DEF AgentCancelled, Own, Typed
  <2> QED
    BY <1>3, <1>6, <2>1, <2>2 DEF AgentCancelled
<1>7. CASE Kill(w)
  <2>1. \A q \in Role : Queued(q)' = Queued(q)
    BY <1>7 DEF Kill, Queued
  <2>2. \A q \in Role : pending'[q] = pending[q] - (IF pc[w] = "busy" /\ RoleOf(w) = q THEN 1 ELSE 0)
    BY <1>1, <1>7 DEF Kill, Own, Typed
  <2> QED
    BY <1>3, <1>7, <2>1, <2>2 DEF Kill
<1>8. CASE TakeItem(w)
  <2> DEFINE r == RoleOf(w)
             u == Head(queue[r])
  <2>1. u \in Url /\ u \in Queued(r)
        /\ \A q \in Role : Queued(q)' = IF q = r THEN Queued(q) \ {u} ELSE Queued(q)
    BY <1>1, <1>8, TailEffect DEF TakeItem, CanGet
  <2>2. /\ \A v \in Worker : v # w => pc'[v] = pc[v] /\ item'[v] = item[v]
        /\ pc'[w] = "busy" /\ item'[w] = u /\ pc[w] # "busy"
    BY <1>8 DEF TakeItem, CanGet, Own, Typed
  <2> HIDE DEF u
  <2>3. \A q \in Role : Busy(q)' = IF q = r THEN Busy(q) \cup {w} ELSE Busy(q)
    BY <2>2 DEF Busy
  <2>4. \A q \in Role : Outstanding(q)' = Outstanding(q)
    BY <2>1, <2>2, <2>3 DEF Outstanding, Busy
  <2>5. w \notin Busy(r)
    BY <2>2 DEF Busy
  <2>6. \A q \in Role : Cardinality(Busy(q)') = IF q = r THEN Cardinality(Busy(q)) + 1 ELSE Cardinality(Busy(q))
    BY <2>3, <2>5, FS_AddElement, OutstandingFinite
  <2>7. \A q \in Role : inflight'[q] = IF q = r THEN inflight[q] + 1 ELSE inflight[q]
    BY <1>1, <1>8 DEF TakeItem, Own, Typed
  <2> QED
    BY <1>8, <2>4, <2>6, <2>7 DEF Accounting, TakeItem
<1>9. CASE Block(w)
  <2>1. \A q \in Role : Queued(q)' = Queued(q) /\ Busy(q)' = Busy(q)
    BY <1>9 DEF Block, poolVars, Queued, Busy, Own, Typed
  <2>2. \A q \in Role : Outstanding(q)' = Outstanding(q)
    BY <1>9, <2>1 DEF Outstanding, Block
  <2> QED
    BY <1>9, <2>1, <2>2 DEF Accounting, Block, poolVars
<1>10. ASSUME NEW hs \in SUBSET Url, NEW es \in SUBSET Url, FinishItem(w, hs, es) \/ Crash(w, hs)
       PROVE  Right
  <2>1. PICK new : Fresh(new) /\ PutAll(new) /\ pending' = PendingAfter(w, new)
    BY <1>10, AcceptedFresh DEF FinishItem, Crash, Own
  <2>2. \A q \in Role : Queued(q)' = Queued(q) \cup new[q]
    BY <2>1, PutAllEffect
  <2>3. pc[w] = "busy" /\ \A v \in Spawned(Accepted(hs, es)) : pc[v] = "off"
    <3>1. \A v \in Worker : live[RoleOf(v)] = 0 => pc[v] = "off"
      BY NoneAlive
    <3> QED
      BY <1>10, <3>1 DEF FinishItem, Crash, Spawned
  <2>4. pc'[w] # "busy" /\ \A v \in Worker : v # w => item'[v] = item[v] /\ (pc'[v] = "busy" <=> pc[v] = "busy")
    <3>1. CASE FinishItem(w, hs, es)
      BY <2>3, <3>1 DEF FinishItem, Own, Typed
    <3>2. CASE Crash(w, hs)
      BY <3>2 DEF Crash, Exit, Own, Typed
    <3> QED
      BY <1>10, <3>1, <3>2
  <2>5. \A q \in Role : inflight'[q] = inflight[q] - (IF RoleOf(w) = q THEN 1 ELSE 0)
    <3>1. inflight' = [inflight EXCEPT ![RoleOf(w)] = @ - 1]
      <4>1. CASE FinishItem(w, hs, es)
        BY <4>1 DEF FinishItem
      <4>2. CASE Crash(w, hs)
        BY <2>3, <4>2 DEF Crash, Exit
      <4> QED
        BY <1>10, <4>1, <4>2
    <3>2. inflight \in [Role -> Int] /\ \A q \in Role : inflight[q] \in Int
      BY DEF Own, Typed
    <3> QED
      BY <1>1, <3>1, <3>2
  <2>6. \A q \in Role : pending'[q] = pending[q] + Cardinality(new[q]) - (IF RoleOf(w) = q THEN 1 ELSE 0)
    BY <2>1 DEF PendingAfter
  <2> QED
    BY <2>1, <2>2, <2>3, <2>4, <2>5, <2>6, AccountLeave
<1> QED
  BY <1>4, <1>5, <1>6, <1>7, <1>8, <1>9, <1>10 DEF WorkerStep

(* They stay exact when a graph node enqueues URLs.                         *)
LEMMA AccountingPut ==
  ASSUME Own, Own', Accounting,
         (\E us \in SUBSET Url : Produce(us)) \/ (\E r \in Role, us \in SUBSET Url : BeginDrain(r, us))
  PROVE  Accounting'
<1>1. PICK new : /\ Fresh(new) /\ PutAll(new)
                 /\ pending' = [q \in Role |-> pending[q] + Cardinality(new[q])]
                 /\ UNCHANGED <<inflight, item>>
                 /\ pc' = [w \in Worker |-> IF w \in Spawned(new) THEN "top" ELSE pc[w]]
  <2>1. ASSUME NEW us \in SUBSET Url PROVE Fresh(Accepted(us, {})) /\ Fresh(Accepted({}, us))
    BY AcceptedFresh DEF Own
  <2>2. ASSUME NEW us \in SUBSET Url, Produce(us)
        PROVE  LET new == Accepted(us, {}) IN
                 /\ Fresh(new) /\ PutAll(new)
                 /\ pending' = [q \in Role |-> pending[q] + Cardinality(new[q])]
                 /\ UNCHANGED <<inflight, item>>
                 /\ pc' = [w \in Worker |-> IF w \in Spawned(new) THEN "top" ELSE pc[w]]
    BY <2>1, <2>2 DEF Produce
  <2>3. ASSUME NEW r \in Role, NEW us \in SUBSET Url, BeginDrain(r, us)
        PROVE  LET new == IF r = Hosting THEN Accepted(us, {}) ELSE Accepted({}, us) IN
                 /\ Fresh(new) /\ PutAll(new)
                 /\ pending' = [q \in Role |-> pending[q] + Cardinality(new[q])]
                 /\ UNCHANGED <<inflight, item>>
                 /\ pc' = [w \in Worker |-> IF w \in Spawned(new) THEN "top" ELSE pc[w]]
    BY <2>1, <2>3 DEF BeginDrain, StartDrain
  <2>4. CASE \E us \in SUBSET Url : Produce(us)
    BY <2>2, <2>4
  <2>5. CASE \E r \in Role, us \in SUBSET Url : BeginDrain(r, us)
    BY <2>3, <2>5
  <2> QED
    BY <2>4, <2>5
<1>2. \A q \in Role : Queued(q)' = Queued(q) \cup new[q]
  BY <1>1, PutAllEffect
<1>3. \A v \in Spawned(new) : pc[v] = "off"
  BY NoneAlive DEF Spawned
<1>4. \A q \in Role : Busy(q)' = Busy(q)
  BY <1>1, <1>3 DEF Busy
<1>5. \A q \in Role : Outstanding(q)' = (Outstanding(q) \ {}) \cup new[q]
  BY <1>1, <1>2, <1>4 DEF Outstanding
<1>6. \A q \in Role : IsFiniteSet(new[q]) /\ new[q] \cap Outstanding(q) = {}
  BY <1>1, OutstandingFinite, FS_Subset, RunPoolsAssumption DEF Fresh
<1>7. ASSUME NEW q \in Role PROVE pending'[q] = Cardinality(Outstanding(q)')
  <2>1. Cardinality(Outstanding(q)') = Cardinality(Outstanding(q)) - Cardinality({}) + Cardinality(new[q])
    BY <1>5, <1>6, OutstandingFinite, Replace
  <2>2. Cardinality(Outstanding(q)) \in Int /\ Cardinality({}) = 0
    BY OutstandingFinite, FS_CardinalityType, FS_EmptySet
  <2>3. pending'[q] = pending[q] + Cardinality(new[q])
    BY <1>1
  <2> QED
    BY <2>1, <2>2, <2>3 DEF Accounting
<1> QED
  BY <1>1, <1>4, <1>7 DEF Accounting, Own, LiveCount

(* They are left alone by every other step, and so is what they count.      *)
LEMMA AccountingOther ==
  ASSUME Own, Own', Accounting,
         \/ \E r \in Role : EndDrain(r) \/ FailDrain(r)
         \/ LeaveGraph \/ BeginClose \/ Reap \/ ControlStep \/ UNCHANGED vars
  PROVE  Accounting'
<1>1. UNCHANGED <<pending, inflight, live, workerVars>>
  BY DEF EndDrain, FailDrain, LeaveGraph, BeginClose, Reap, ControlStep, RequestCancel,
         HookCancel, HookTimeout, HookDone, CancelTask, vars, poolVars
<1>2. UNCHANGED queue \/ queue' = WithSentinels
  BY DEF EndDrain, FailDrain, LeaveGraph, BeginClose, Reap, ControlStep, RequestCancel,
         HookCancel, HookTimeout, HookDone, CancelTask, vars, poolVars
<1>3. \A r \in Role : Queued(r)' = Queued(r) /\ Busy(r)' = Busy(r) /\ Alive(r)' = Alive(r)
  BY <1>1, <1>2, SentinelsEffect DEF Queued, Busy, Alive, workerVars
<1>4. \A r \in Role : Outstanding(r)' = Outstanding(r)
  BY <1>1, <1>3 DEF Outstanding, workerVars
<1> QED
  BY <1>1, <1>3, <1>4 DEF Accounting

(* The counters _check_drained and ensure_workers decide from are exact     *)
(* after every step, failures and cancellations included.                   *)
THEOREM AccountingHolds == Spec => []Accounting
<1>1. Own /\ Own' /\ Accounting /\ [Next]_vars => Accounting'
  <2> SUFFICES ASSUME Own, Own', Accounting, [Next]_vars PROVE Accounting'
    OBVIOUS
  <2> QED
    BY AccountingWorker, AccountingPut, AccountingOther DEF Next, GraphStep, Finished
<1> QED
  BY <1>1, AccountingInit, OwnInvariant, PTL DEF Spec

(* Type correctness; the counters are natural numbers because they count.   *)
THEOREM TypeCorrect == Spec => []TypeOK
<1>1. Own /\ Accounting => TypeOK
  <2> SUFFICES ASSUME Own, Accounting PROVE TypeOK
    OBVIOUS
  <2>1. \A r \in Role : pending[r] \in Nat /\ inflight[r] \in Nat /\ live[r] \in Nat
    BY OutstandingFinite, WorkersFinite, FS_CardinalityType DEF Accounting
  <2>2. pending \in [Role -> Nat] /\ inflight \in [Role -> Nat] /\ live \in [Role -> Nat]
    BY <2>1 DEF Own, Typed
  <2> QED
    BY <2>2 DEF Own, Typed, TypeOK
<1> QED
  BY <1>1, OwnInvariant, AccountingHolds, PTL

(* What _check_drained and ensure_workers decide from is the truth, and no  *)
(* counter ever goes below zero.                                            *)
THEOREM CountersAreTrue == Spec => []CountersTrue
<1>1. TypeOK /\ Accounting => CountersTrue
  BY DEF CountersTrue
<1> QED
  BY <1>1, TypeCorrect, AccountingHolds, PTL

-----------------------------------------------------------------------------
(***************************************************************************)
(* On top of Own and Accounting: what the pools accepted is not lost and    *)
(* each result is read once (ResultsExact), a drain that returns has left   *)
(* no work behind (DrainSound), who waits is waiting for somebody           *)
(* (NoneWaitsForEver), a cancellation is final.                             *)
(***************************************************************************)

(* The hook acts on pools that are cancelled.                              *)
HookAfter == hook # "idle" => cancelled

ResultInv == HookAfter /\ NothingLost /\ ConsumedOnce

(* The counters stay exact.                                                *)
LEMMA AccountingNext == Own /\ Own' /\ Accounting /\ [Next]_vars => Accounting'
<1> SUFFICES ASSUME Own, Own', Accounting, [Next]_vars PROVE Accounting'
  OBVIOUS
<1> QED
  BY AccountingWorker, AccountingPut, AccountingOther DEF Next, GraphStep, Finished

(* What a worker that reports does to the URLs and the results.            *)
LEMMA ReportEffect ==
  ASSUME Own, NEW w \in Worker, NEW hs \in SUBSET Url, NEW es \in SUBSET Url,
         FinishItem(w, hs, es) \/ Crash(w, hs)
  PROVE  /\ item[w] \in Running
         /\ results' = results \cup {item[w]} /\ folded' = folded
         /\ buffer' = [buffer EXCEPT ![RoleOf(w)] = @ \cup {item[w]}]
         /\ Running' = Running \ {item[w]}
         /\ \E new : /\ Fresh(new) /\ seen' = seen \cup new[Hosting] \cup new[Embedded]
                     /\ \A q \in Role : Queued(q)' = Queued(q) \cup new[q]
<1>1. pc[w] = "busy" /\ item[w] \in Running /\ RoleOf(w) \in Role
  BY DEF FinishItem, Crash, Running, Worker, RoleOf
<1>2. /\ results' = results \cup {item[w]} /\ folded' = folded
      /\ buffer' = [buffer EXCEPT ![RoleOf(w)] = @ \cup {item[w]}]
  BY DEF FinishItem, Crash, Report
<1>3. PICK new : Fresh(new) /\ PutAll(new)
  BY AcceptedFresh DEF FinishItem, Crash, Own
<1>4. /\ seen' = seen \cup new[Hosting] \cup new[Embedded]
      /\ \A q \in Role : Queued(q)' = Queued(q) \cup new[q]
  BY <1>3, PutAllEffect
<1>5. pc'[w] # "busy" /\ \A v \in Worker : v # w => item'[v] = item[v] /\ (pc'[v] = "busy" <=> pc[v] = "busy")
  <2>1. \A v \in Worker : live[RoleOf(v)] = 0 => pc[v] = "off"
    BY NoneAlive
  <2>2. CASE FinishItem(w, hs, es)
    BY <2>1, <2>2 DEF FinishItem, Spawned, Own, Typed
  <2>3. CASE Crash(w, hs)
    BY <2>3 DEF Crash, Exit, Own, Typed
  <2> QED
    BY <2>2, <2>3
<1>6. \A v \in Worker : v # w /\ pc[v] = "busy" => item[v] # item[w]
  BY <1>1 DEF Own, OneOwner
<1>7. Running' = Running \ {item[w]}
  BY <1>1, <1>5, <1>6 DEF Running
<1> QED
  BY <1>1, <1>2, <1>3, <1>4, <1>7

(* A node that puts URLs changes nothing else about them.                  *)
LEMMA PutEffect ==
  ASSUME Own, NEW us \in SUBSET Url, NEW r \in Role, Produce(us) \/ StartDrain(r, us)
  PROVE  /\ results' = results /\ folded' = folded /\ buffer' = buffer
         /\ Running' = Running
         /\ \E new : /\ Fresh(new) /\ seen' = seen \cup new[Hosting] \cup new[Embedded]
                     /\ \A q \in Role : Queued(q)' = Queued(q) \cup new[q]
<1>1. PICK new : /\ Fresh(new) /\ PutAll(new) /\ item' = item
                 /\ pc' = [w \in Worker |-> IF w \in Spawned(new) THEN "top" ELSE pc[w]]
  <2>1. Fresh(Accepted(us, {})) /\ Fresh(Accepted({}, us))
    BY AcceptedFresh DEF Own
  <2>2. CASE Produce(us)
    BY <2>1, <2>2 DEF Produce
  <2>3. CASE StartDrain(r, us)
    BY <2>1, <2>3 DEF StartDrain
  <2> QED
    BY <2>2, <2>3
<1>2. /\ seen' = seen \cup new[Hosting] \cup new[Embedded]
      /\ \A q \in Role : Queued(q)' = Queued(q) \cup new[q]
  BY <1>1, PutAllEffect
<1>3. \A v \in Spawned(new) : pc[v] = "off"
  BY NoneAlive DEF Spawned
<1>4. Running' = Running
  BY <1>1, <1>3 DEF Running
<1>5. results' = results /\ folded' = folded /\ buffer' = buffer
  BY DEF Produce, StartDrain, resultVars
<1> QED
  BY <1>1, <1>2, <1>4, <1>5

(* A worker that takes a URL; one that takes a sentinel, blocks or leaves. *)
LEMMA TakeEffect ==
  ASSUME Own, NEW w \in Worker, TakeItem(w)
  PROVE  /\ seen' = seen /\ results' = results /\ folded' = folded /\ buffer' = buffer
         /\ Queued(Hosting)' \cup Queued(Embedded)' \cup Running'
               = Queued(Hosting) \cup Queued(Embedded) \cup Running
<1> DEFINE r == RoleOf(w)
           u == Head(queue[r])
<1>1. r \in Role
  BY DEF Worker, RoleOf
<1>2. u \in Queued(r) /\ \A q \in Role : Queued(q)' = IF q = r THEN Queued(q) \ {u} ELSE Queued(q)
  BY <1>1, TailEffect DEF TakeItem, CanGet
<1>3. /\ \A v \in Worker : v # w => pc'[v] = pc[v] /\ item'[v] = item[v]
      /\ pc'[w] = "busy" /\ item'[w] = u /\ pc[w] # "busy"
  BY DEF Own, Typed, TakeItem, CanGet
<1>4. seen' = seen /\ results' = results /\ folded' = folded /\ buffer' = buffer
  BY DEF TakeItem, resultVars
<1> HIDE DEF u
<1>5. Running' = Running \cup {u}
  BY <1>3 DEF Running
<1>6. Hosting \in Role /\ Embedded \in Role /\ (r = Hosting \/ r = Embedded)
  BY <1>1 DEF Role
<1> QED
  BY <1>2, <1>4, <1>5, <1>6

(* A step that moves no URL.                                               *)
Quiet ==
  \/ \E w \in Worker : Block(w) \/ TakeSentinel(w)
  \/ \E r \in Role : FailDrain(r)
  \/ LeaveGraph \/ BeginClose \/ Reap \/ ControlStep \/ UNCHANGED vars

(* Quiet steps leave the queued, running and reported URLs as they are.    *)
LEMMA QuietEffect ==
  ASSUME Own, Quiet
  PROVE  /\ seen' = seen /\ results' = results /\ folded' = folded /\ buffer' = buffer
         /\ pending' = pending
         /\ \A q \in Role : Queued(q)' = Queued(q)
         /\ Running' = Running
<1>1. ASSUME NEW w \in Worker, TakeSentinel(w)
      PROVE  /\ \A q \in Role : Queued(q)' = Queued(q)
             /\ \A v \in Worker : (pc'[v] = "busy" <=> pc[v] = "busy") /\ (pc[v] = "busy" => item'[v] = item[v])
  <2>1. RoleOf(w) \in Role
    BY DEF Worker, RoleOf
  <2>2. \A q \in Role : Queued(q)' = Queued(q)
    BY <1>1, <2>1, TailEffect DEF TakeSentinel, CanGet, Queued
  <2> QED
    BY <1>1, <2>2 DEF TakeSentinel, CanGet, Exit, Own, Typed
<1>2. ASSUME NEW w \in Worker, Block(w)
      PROVE  /\ \A q \in Role : Queued(q)' = Queued(q)
             /\ \A v \in Worker : (pc'[v] = "busy" <=> pc[v] = "busy") /\ (pc[v] = "busy" => item'[v] = item[v])
  BY <1>2 DEF Block, poolVars, Queued, Own, Typed
<1>3. ASSUME \/ \E r \in Role : FailDrain(r)
             \/ LeaveGraph \/ BeginClose \/ Reap \/ ControlStep \/ UNCHANGED vars
      PROVE  /\ \A q \in Role : Queued(q)' = Queued(q)
             /\ pc' = pc /\ item' = item
  <2>1. UNCHANGED queue \/ queue' = WithSentinels
    BY <1>3 DEF FailDrain, LeaveGraph, BeginClose, Reap, ControlStep, RequestCancel,
           HookCancel, HookTimeout, HookDone, CancelTask, vars, poolVars
  <2>2. pc' = pc /\ item' = item
    BY <1>3 DEF FailDrain, LeaveGraph, BeginClose, Reap, ControlStep, RequestCancel,
           HookCancel, HookTimeout, HookDone, CancelTask, vars, workerVars
  <2> QED
    BY <2>1, <2>2, SentinelsEffect DEF Queued
<1>4. \A q \in Role : Queued(q)' = Queued(q)
  BY <1>1, <1>2, <1>3 DEF Quiet
<1>5. \A v \in Worker : (pc'[v] = "busy" <=> pc[v] = "busy") /\ (pc[v] = "busy" => item'[v] = item[v])
  BY <1>1, <1>2, <1>3 DEF Quiet
<1>6. Running' = Running
  BY <1>5 DEF Running
<1>7. seen' = seen /\ results' = results /\ folded' = folded /\ buffer' = buffer /\ pending' = pending
  BY DEF Quiet, Block, TakeSentinel, FailDrain, LeaveGraph, BeginClose, Reap, ControlStep, RequestCancel,
         HookCancel, HookTimeout, HookDone, CancelTask, vars, poolVars, resultVars
<1> QED
  BY <1>4, <1>6, <1>7

(* A worker that leaves with its item.                                     *)
Gives(w) == AbortAtTop(w) \/ AgentCancelled(w) \/ Kill(w)

(* It leaves only in a run that is cancelled.                              *)
LEMMA GivesCancelled ==
  ASSUME Own, HookAfter, NEW w \in Worker, Gives(w)
  PROVE  /\ cancelled' = TRUE
         /\ results' = results /\ folded' = folded /\ buffer' = buffer
         /\ seen' = seen /\ hook' = hook /\ graph' = graph /\ errors' = errors
         /\ producersDone' = producersDone /\ queue' = queue
BY DEF Gives, AbortAtTop, AgentCancelled, Kill, MarkCancelled, Exit, HookAfter, resultVars, stopVars,
       Own, Typed

(* Every step is one of these.                                             *)
LEMMA StepKinds ==
  ASSUME [Next]_vars
  PROVE  \/ Quiet
         \/ \E w \in Worker : \/ Gives(w)
                              \/ TakeItem(w)
                              \/ \E hs, es \in SUBSET Url : FinishItem(w, hs, es)
                              \/ \E hs \in SUBSET Url : Crash(w, hs)
         \/ \E us \in SUBSET Url : Produce(us)
         \/ \E r \in Role, us \in SUBSET Url : BeginDrain(r, us)
         \/ \E r \in Role : EndDrain(r)
BY DEF Next, WorkerStep, GraphStep, Finished, Quiet, Gives

(* A cancelled pool stays cancelled, and the hook waits for it.            *)
LEMMA HookStep == Own /\ HookAfter /\ [Next]_vars => HookAfter' /\ (cancelled => cancelled')
<1> SUFFICES ASSUME Own, HookAfter, [Next]_vars PROVE HookAfter' /\ (cancelled => cancelled')
  OBVIOUS
<1>1. ASSUME NEW w \in Worker, Gives(w) PROVE HookAfter' /\ cancelled'
  BY <1>1, GivesCancelled DEF HookAfter
<1>2. ASSUME NEW w \in Worker,
             \/ TakeItem(w) \/ TakeSentinel(w) \/ Block(w)
             \/ \E hs, es \in SUBSET Url : FinishItem(w, hs, es)
             \/ \E hs \in SUBSET Url : Crash(w, hs)
      PROVE  hook' = hook /\ cancelled' = cancelled
  BY <1>2 DEF TakeItem, TakeSentinel, Block, FinishItem, Crash, Exit, stopVars, callerVars
<1>3. ASSUME GraphStep PROVE hook' = hook /\ cancelled' = cancelled
  BY <1>3 DEF GraphStep, Produce, BeginDrain, StartDrain, EndDrain, FailDrain, LeaveGraph, BeginClose,
         Reap, stopVars, callerVars
<1>4. ASSUME ControlStep PROVE HookAfter' /\ (cancelled => cancelled')
  BY <1>4 DEF ControlStep, RequestCancel, HookCancel, HookTimeout, HookDone, CancelTask, HookAfter,
         stopVars, callerVars
<1>5. ASSUME UNCHANGED vars PROVE hook' = hook /\ cancelled' = cancelled
  BY <1>5 DEF vars, stopVars, callerVars
<1>6. ASSUME NEW w \in Worker, WorkerStep(w) PROVE HookAfter' /\ (cancelled => cancelled')
  BY <1>1, <1>2, <1>6 DEF WorkerStep, Gives, HookAfter
<1> QED
  BY <1>3, <1>4, <1>5, <1>6 DEF Next, Finished, HookAfter

(* NothingLost and ConsumedOnce are kept by every step.                    *)
LEMMA ResultStep == Own /\ ResultInv /\ [Next]_vars => ResultInv'
<1> SUFFICES ASSUME Own, ResultInv, [Next]_vars PROVE ResultInv'
  OBVIOUS
<1>1. HookAfter' /\ (cancelled => cancelled')
  BY HookStep DEF ResultInv
<1>2. /\ cancelled \in BOOLEAN /\ cancelled' \in BOOLEAN
      /\ buffer \in [Role -> SUBSET Url]
      /\ Hosting \in Role /\ Embedded \in Role /\ Hosting # Embedded
  BY OwnNext DEF Own, Typed, Role, Hosting, Embedded
<1>3. /\ ~cancelled => seen = Queued(Hosting) \cup Queued(Embedded) \cup Running \cup results
      /\ results = folded \cup buffer[Hosting] \cup buffer[Embedded]
      /\ buffer[Hosting] \cap buffer[Embedded] = {}
      /\ folded \cap (buffer[Hosting] \cup buffer[Embedded]) = {}
  BY DEF ResultInv, NothingLost, ConsumedOnce
<1>4. Running \cap results = {}
  BY DEF Own, OneOwner
<1> SUFFICES NothingLost' /\ ConsumedOnce'
  BY <1>1 DEF ResultInv
<1>5. CASE Quiet
  <2>1. /\ seen' = seen /\ results' = results /\ folded' = folded /\ buffer' = buffer
        /\ Queued(Hosting)' = Queued(Hosting) /\ Queued(Embedded)' = Queued(Embedded)
        /\ Running' = Running
    BY <1>2, <1>5, QuietEffect
  <2> QED
    BY <1>1, <1>3, <2>1 DEF NothingLost, ConsumedOnce
<1>6. ASSUME NEW w \in Worker, Gives(w) PROVE NothingLost' /\ ConsumedOnce'
  <2>1. cancelled' /\ results' = results /\ folded' = folded /\ buffer' = buffer
    BY <1>6, GivesCancelled DEF ResultInv
  <2> QED
    BY <1>3, <2>1 DEF NothingLost, ConsumedOnce
<1>7. ASSUME NEW w \in Worker, TakeItem(w) PROVE NothingLost' /\ ConsumedOnce'
  <2>1. /\ seen' = seen /\ results' = results /\ folded' = folded /\ buffer' = buffer
        /\ Queued(Hosting)' \cup Queued(Embedded)' \cup Running'
               = Queued(Hosting) \cup Queued(Embedded) \cup Running
    BY <1>7, TakeEffect
  <2> QED
    BY <1>1, <1>3, <2>1 DEF NothingLost, ConsumedOnce
<1>8. ASSUME NEW w \in Worker, NEW hs \in SUBSET Url, NEW es \in SUBSET Url,
             FinishItem(w, hs, es) \/ Crash(w, hs)
      PROVE  NothingLost' /\ ConsumedOnce'
  <2> DEFINE u == item[w]
  <2>1. /\ u \in Running /\ RoleOf(w) \in Role
        /\ results' = results \cup {u} /\ folded' = folded
        /\ buffer' = [buffer EXCEPT ![RoleOf(w)] = @ \cup {u}]
        /\ Running' = Running \ {u}
    BY <1>8, ReportEffect DEF Worker, RoleOf
  <2>2. PICK new : /\ seen' = seen \cup new[Hosting] \cup new[Embedded]
                   /\ \A q \in Role : Queued(q)' = Queued(q) \cup new[q]
    BY <1>8, ReportEffect
  <2> HIDE DEF u
  <2>3. Queued(Hosting)' = Queued(Hosting) \cup new[Hosting] /\ Queued(Embedded)' = Queued(Embedded) \cup new[Embedded]
    BY <1>2, <2>2
  <2>4. NothingLost'
    BY <1>1, <1>3, <2>1, <2>2, <2>3 DEF NothingLost
  <2>5. \/ buffer'[Hosting] = buffer[Hosting] \cup {u} /\ buffer'[Embedded] = buffer[Embedded]
        \/ buffer'[Embedded] = buffer[Embedded] \cup {u} /\ buffer'[Hosting] = buffer[Hosting]
    BY <1>2, <2>1 DEF Role
  <2>6. u \notin results
    BY <1>4, <2>1
  <2> QED
    BY <1>3, <2>1, <2>4, <2>5, <2>6 DEF ConsumedOnce
<1>9. ASSUME NEW us \in SUBSET Url, NEW r \in Role, Produce(us) \/ StartDrain(r, us)
      PROVE  NothingLost' /\ ConsumedOnce'
  <2>1. results' = results /\ folded' = folded /\ buffer' = buffer /\ Running' = Running
    BY <1>9, PutEffect
  <2>2. PICK new : /\ seen' = seen \cup new[Hosting] \cup new[Embedded]
                   /\ \A q \in Role : Queued(q)' = Queued(q) \cup new[q]
    BY <1>9, PutEffect
  <2>3. Queued(Hosting)' = Queued(Hosting) \cup new[Hosting] /\ Queued(Embedded)' = Queued(Embedded) \cup new[Embedded]
    BY <1>2, <2>2
  <2> QED
    BY <1>1, <1>3, <2>1, <2>2, <2>3 DEF NothingLost, ConsumedOnce
<1>10. ASSUME NEW r \in Role, EndDrain(r) PROVE NothingLost' /\ ConsumedOnce'
  <2>1. /\ seen' = seen /\ results' = results /\ queue' = queue /\ pc' = pc /\ item' = item
        /\ cancelled' = cancelled
        /\ folded' = folded \cup buffer[r] /\ buffer' = [buffer EXCEPT ![r] = {}]
    BY <1>10 DEF EndDrain, Consume, poolVars, stopVars, workerVars
  <2>2. Running' = Running /\ \A q \in Role : Queued(q)' = Queued(q)
    BY <2>1 DEF Running, Queued
  <2>3. \/ r = Hosting /\ buffer'[Hosting] = {} /\ buffer'[Embedded] = buffer[Embedded]
        \/ r = Embedded /\ buffer'[Embedded] = {} /\ buffer'[Hosting] = buffer[Hosting]
    BY <1>2, <2>1 DEF Role
  <2>4. NothingLost'
    BY <1>2, <1>3, <2>1, <2>2 DEF NothingLost
  <2> QED
    BY <1>3, <2>1, <2>3, <2>4 DEF ConsumedOnce
<1>11. {} \in SUBSET Url
  OBVIOUS
<1> QED
  BY <1>2, <1>5, <1>6, <1>7, <1>8, <1>9, <1>10, <1>11, StepKinds DEF BeginDrain

(* What was accepted is queued, running or reported, and what is reported  *)
(* is read once: through crashes, sentinels and overlapping drains.        *)
THEOREM ResultsAreExact == Spec => []ResultsExact
<1>1. Init => ResultInv
  <2> SUFFICES ASSUME Init PROVE ResultInv
    OBVIOUS
  <2>1. Running = {} /\ \A r \in Role : Queued(r) = {} /\ buffer[r] = {}
    BY DEF Init, Running, Queued, ToSet
  <2> QED
    BY <2>1 DEF Init, ResultInv, HookAfter, NothingLost, ConsumedOnce, Role
<1>2. ResultInv => ResultsExact
  BY DEF ResultInv, ResultsExact
<1> QED
  BY <1>1, <1>2, ResultStep, OwnInvariant, PTL DEF Spec

-----------------------------------------------------------------------------
(* Cancellation.                                                           *)

(* What a cancelled pool accepts is nothing, and so it starts nobody.      *)
LEMMA NothingAccepted ==
  ASSUME Own, cancelled, NEW hs \in SUBSET Url, NEW es \in SUBSET Url, PutAll(Accepted(hs, es))
  PROVE  seen' = seen /\ Spawned(Accepted(hs, es)) = {}
<1>1. \A r \in Role : Accepted(hs, es)[r] = {}
  BY AcceptedFresh DEF Own
<1>2. Hosting \in Role /\ Embedded \in Role /\ \A w \in Worker : RoleOf(w) \in Role
  BY DEF Role, Worker, RoleOf
<1> QED
  BY <1>1, <1>2 DEF PutAll, Spawned

(* Once cancelled, the pools take no URL and start no worker, whoever      *)
(* cancelled them (enqueue, ensure_workers).                               *)
THEOREM CancelStays == Spec => CancelIsFinal
<1> DEFINE Final == cancelled => seen' = seen /\ \A w \in Worker : pc[w] = "off" => pc'[w] = "off"
<1>1. Own /\ [Next]_vars => [Final]_vars
  <2> SUFFICES ASSUME Own, Next, cancelled PROVE seen' = seen /\ \A w \in Worker : pc[w] = "off" => pc'[w] = "off"
    OBVIOUS
  <2>1. pc \in [Worker -> WorkerState] /\ {} \in SUBSET Url
    BY DEF Own, Typed
  <2>2. ASSUME NEW v \in Worker, WorkerStep(v), ~\E hs, es \in SUBSET Url : FinishItem(v, hs, es),
               ~\E hs \in SUBSET Url : Crash(v, hs)
        PROVE  seen' = seen /\ pc[v] # "off" /\ \A w \in Worker : w # v => pc'[w] = pc[w]
    <3>1. pc[v] # "off"
      BY <2>2 DEF WorkerStep, AbortAtTop, Block, TakeItem, TakeSentinel, CanGet, AgentCancelled, Kill, Own, Tracked
    <3>2. seen' = seen
      BY <2>2 DEF WorkerStep, AbortAtTop, Block, TakeItem, TakeSentinel, AgentCancelled, Kill, poolVars
    <3>3. \A w \in Worker : w # v => pc'[w] = pc[w]
      BY <2>1, <2>2 DEF WorkerStep, AbortAtTop, Block, TakeItem, TakeSentinel, AgentCancelled, Kill, Exit
    <3> QED
      BY <3>1, <3>2, <3>3
  <2>3. ASSUME NEW v \in Worker, NEW hs \in SUBSET Url, NEW es \in SUBSET Url, FinishItem(v, hs, es)
        PROVE  seen' = seen /\ \A w \in Worker : pc[w] = "off" => pc'[w] = "off"
    <3>1. seen' = seen /\ Spawned(Accepted(hs, es)) = {}
      BY <2>3, NothingAccepted DEF FinishItem
    <3> QED
      BY <2>1, <2>3, <3>1 DEF FinishItem
  <2>4. ASSUME NEW v \in Worker, NEW hs \in SUBSET Url, Crash(v, hs)
        PROVE  seen' = seen /\ \A w \in Worker : pc[w] = "off" => pc'[w] = "off"
    <3>1. seen' = seen
      BY <2>1, <2>4, NothingAccepted DEF Crash
    <3> QED
      BY <2>1, <2>4, <3>1 DEF Crash, Exit
  <2>5. ASSUME NEW us \in SUBSET Url, NEW r \in Role, Produce(us) \/ StartDrain(r, us)
        PROVE  seen' = seen /\ \A w \in Worker : pc[w] = "off" => pc'[w] = "off"
    <3>1. PICK new \in {Accepted(us, {}), Accepted({}, us)} :
             PutAll(new) /\ pc' = [w \in Worker |-> IF w \in Spawned(new) THEN "top" ELSE pc[w]]
      BY <2>5 DEF Produce, StartDrain
    <3>2. seen' = seen /\ Spawned(new) = {}
      BY <2>1, <3>1, NothingAccepted
    <3> QED
      BY <3>1, <3>2
  <2>6. ASSUME \/ \E r \in Role : EndDrain(r) \/ FailDrain(r)
               \/ LeaveGraph \/ BeginClose \/ Reap \/ ControlStep \/ Finished
        PROVE  seen' = seen /\ pc' = pc
    BY <2>6 DEF EndDrain, FailDrain, LeaveGraph, BeginClose, Reap, ControlStep, RequestCancel,
         HookCancel, HookTimeout, HookDone, CancelTask, Finished, vars, poolVars, workerVars
  <2>7. ASSUME NEW v \in Worker, WorkerStep(v)
        PROVE  seen' = seen /\ \A w \in Worker : pc[w] = "off" => pc'[w] = "off"
    BY <2>2, <2>3, <2>4, <2>7
  <2>8. ASSUME GraphStep PROVE seen' = seen /\ \A w \in Worker : pc[w] = "off" => pc'[w] = "off"
    <3>1. Hosting \in Role
      BY DEF Role
    <3> QED
      BY <2>5, <2>6, <2>8, <3>1 DEF GraphStep, BeginDrain
  <2> QED
    BY <2>6, <2>7, <2>8 DEF Next
<1> QED
  BY <1>1, OwnInvariant, PTL DEF Spec, CancelIsFinal

-----------------------------------------------------------------------------
(* Drains.                                                                 *)

Unended == graph \notin {"closing", "closed"}

(* Sentinels are put by aclose or by a cancellation; a role with work has  *)
(* workers until then, unless one of them crashed.                         *)
NoSentinel == Unended /\ ~cancelled => \A r \in Role : None \notin ToSet(queue[r])
Manned     == Unended /\ ~cancelled /\ ~errors => \A r \in Role : pending[r] > 0 => live[r] > 0

(* While the embedded pool is drained its producer has nothing to do.      *)
HostingQuiet == graph = Embedded => pending[Hosting] = 0

CycleOpen == \A r \in Role : graph = r => producersDone[r]

(* The event of the cycle was set by work that is done.                    *)
EventTrue == \A r \in Role : graph = r /\ drained[r] /\ ~cancelled /\ ~errors => pending[r] = 0

DrainInv == /\ HookAfter /\ NoSentinel /\ Manned /\ HostingQuiet /\ CycleOpen
            /\ EventTrue /\ CancelWakesDrainers /\ NoLostWakeup

(* What the counters say of the queues and the workers.                    *)
CountFacts ==
  /\ \A r \in Role : pending[r] \in Nat /\ inflight[r] \in Nat /\ live[r] \in Nat
  /\ \A r \in Role : pending[r] = 0 => Outstanding(r) = {} /\ Busy(r) = {} /\ inflight[r] = 0
  /\ \A r \in Role : Outstanding(r) = {} => pending[r] = 0
  /\ \A w \in Worker : pc[w] # "off" => live[RoleOf(w)] > 0
  /\ \A w \in Worker : pc[w] = "busy" => pending[RoleOf(w)] > 0

(* The counters count.                                                     *)
LEMMA Counts == Own /\ Accounting => CountFacts
<1> SUFFICES ASSUME Own, Accounting PROVE CountFacts
  OBVIOUS
<1>1. \A r \in Role : /\ IsFiniteSet(Outstanding(r)) /\ IsFiniteSet(Busy(r)) /\ IsFiniteSet(Alive(r))
                      /\ pending[r] = Cardinality(Outstanding(r))
                      /\ inflight[r] = Cardinality(Busy(r)) /\ live[r] = Cardinality(Alive(r))
  BY OutstandingFinite, WorkersFinite DEF Accounting
<1>2. \A r \in Role : pending[r] \in Nat /\ inflight[r] \in Nat /\ live[r] \in Nat
  BY <1>1, FS_CardinalityType
<1>3. ASSUME NEW r \in Role
      PROVE  /\ pending[r] = 0 <=> Outstanding(r) = {}
             /\ inflight[r] = 0 <=> Busy(r) = {}
             /\ live[r] = 0 <=> Alive(r) = {}
  <2>1. /\ Cardinality(Outstanding(r)) = 0 <=> Outstanding(r) = {}
        /\ Cardinality(Busy(r)) = 0 <=> Busy(r) = {}
        /\ Cardinality(Alive(r)) = 0 <=> Alive(r) = {}
    BY <1>1, FS_EmptySet
  <2> QED
    BY <1>1, <2>1
<1>4. \A r \in Role : Outstanding(r) = {} => Busy(r) = {}
  BY DEF Outstanding
<1>5. \A w \in Worker : /\ RoleOf(w) \in Role
                        /\ pc[w] # "off" => w \in Alive(RoleOf(w))
                        /\ pc[w] = "busy" => w \in Busy(RoleOf(w))
  BY DEF Alive, Busy, Worker, RoleOf
<1>6. ASSUME NEW w \in Worker
      PROVE  /\ pc[w] # "off" => live[RoleOf(w)] > 0
             /\ pc[w] = "busy" => pending[RoleOf(w)] > 0
  <2>1. live[RoleOf(w)] \in Nat /\ pending[RoleOf(w)] \in Nat
    BY <1>2, <1>5
  <2>2. /\ pc[w] # "off" => live[RoleOf(w)] # 0
        /\ pc[w] = "busy" => pending[RoleOf(w)] # 0
    BY <1>3, <1>4, <1>5
  <2> QED
    BY <2>1, <2>2
<1>7. /\ \A r \in Role : pending[r] = 0 => Outstanding(r) = {} /\ Busy(r) = {} /\ inflight[r] = 0
      /\ \A r \in Role : Outstanding(r) = {} => pending[r] = 0
  BY <1>3, <1>4
<1> QED
  BY <1>2, <1>6, <1>7 DEF CountFacts

(* They do so in the next state as well.                                   *)
LEMMA CountsNext == (Own /\ Accounting => CountFacts)'
BY Counts, PTL

(* Work brings workers: what enqueue and ensure_workers do to a role.      *)
LEMMA PutMans ==
  ASSUME Own, Accounting, NEW new, Fresh(new), NEW q \in Role, NEW p \in Int,
         p > 0, new[q] = {} => (p <= pending[q] /\ (pending[q] > 0 => live[q] > 0))
  PROVE  live[q] + SpawnCount(new, q) > 0
<1>1. live[q] \in Nat /\ Cardinality(Slot) \in Nat /\ Cardinality(Slot) > 0 /\ pending[q] \in Nat
  BY Counts, WorkersFinite DEF CountFacts
<1> QED
  BY <1>1 DEF SpawnCount

(* Spawning never lowers a counter, nor does enqueueing.                   *)
LEMMA PutCounts ==
  ASSUME Own, Accounting, NEW new, Fresh(new), NEW q \in Role
  PROVE  /\ Cardinality(new[q]) \in Nat /\ SpawnCount(new, q) \in Nat
         /\ Cardinality(new[q]) = 0 <=> new[q] = {}
<1>1. IsFiniteSet(new[q])
  BY FS_Subset, RunPoolsAssumption DEF Fresh
<1>2. Cardinality(Slot) \in Nat
  BY WorkersFinite
<1> QED
  BY <1>1, <1>2, FS_CardinalityType, FS_EmptySet DEF SpawnCount

(* What the steps of the drain cycle have to work with.                    *)
DrainFacts ==
  /\ Own /\ Accounting /\ DrainInv /\ CountFacts
  /\ drained \in [Role -> BOOLEAN] /\ producersDone \in [Role -> BOOLEAN]
  /\ cancelled \in BOOLEAN /\ errors \in BOOLEAN
  /\ Hosting \in Role /\ Embedded \in Role /\ Hosting # Embedded

(* The last item of a cycle sets the event, whatever it hands on.          *)
LEMMA DrainFinish ==
  ASSUME DrainFacts, CountFacts', NEW w \in Worker, NEW hs \in SUBSET Url, NEW es \in SUBSET Url,
         FinishItem(w, hs, es)
  PROVE  DrainInv'
<1> DEFINE r == RoleOf(w)
           new == Accepted(hs, es)
<1>1. /\ r \in Role /\ pc[w] = "busy"
      /\ Fresh(new) /\ PutAll(new)
      /\ pending' = PendingAfter(w, new)
      /\ live' = [q \in Role |-> live[q] + SpawnCount(new, q)]
      /\ graph' = graph /\ hook' = hook /\ cancelled' = cancelled /\ errors' = errors
      /\ producersDone' = producersDone
      /\ drained' = [drained EXCEPT ![r] =
             CheckDrained(@, cancelled, producersDone[r], pending'[r], inflight'[r], live[r])]
  BY AcceptedFresh DEF FinishItem, callerVars, stopVars, Worker, RoleOf, DrainFacts, Own
<1>2. r = Embedded => new[Hosting] = {} /\ new[Embedded] = {}
  BY DEF FinishItem, Discoveries, Accepted, DrainFacts
<1> HIDE DEF new
<1>3. \A q \in Role : /\ Cardinality(new[q]) \in Nat /\ SpawnCount(new, q) \in Nat
                      /\ Cardinality(new[q]) = 0 <=> new[q] = {}
  BY <1>1, PutCounts DEF DrainFacts
<1>4. \A q \in Role : /\ pending'[q] = pending[q] + Cardinality(new[q]) - (IF q = r THEN 1 ELSE 0)
                      /\ live'[q] = live[q] + SpawnCount(new, q)
                      /\ live'[q] >= live[q]
                      /\ pending[q] \in Nat /\ live[q] \in Nat /\ pending'[q] \in Nat
  <2> SUFFICES ASSUME NEW q \in Role
               PROVE  /\ pending'[q] = pending[q] + Cardinality(new[q]) - (IF q = r THEN 1 ELSE 0)
                      /\ live'[q] = live[q] + SpawnCount(new, q)
                      /\ live'[q] >= live[q]
                      /\ pending[q] \in Nat /\ live[q] \in Nat /\ pending'[q] \in Nat
    OBVIOUS
  <2>1. pending'[q] = pending[q] + Cardinality(new[q]) - (IF q = r THEN 1 ELSE 0)
    BY <1>1 DEF PendingAfter
  <2>2. live'[q] = live[q] + SpawnCount(new, q)
    BY <1>1
  <2>3. pending[q] \in Nat /\ live[q] \in Nat /\ pending'[q] \in Nat
    BY DEF DrainFacts, CountFacts
  <2>4. live'[q] >= live[q]
    BY <1>3, <2>2, <2>3
  <2> QED
    BY <2>1, <2>2, <2>3, <2>4
<1>5. live[r] > 0 /\ pending[r] > 0
  BY <1>1 DEF DrainFacts, CountFacts
<1>6. \A q \in Role : q # r => drained'[q] = drained[q] /\ pending'[q] >= pending[q]
  <2>1. \A q \in Role : q # r => drained'[q] = drained[q]
    BY <1>1 DEF DrainFacts
  <2>2. ASSUME NEW q \in Role, q # r PROVE pending'[q] >= pending[q]
    <3>1. pending'[q] = pending[q] + Cardinality(new[q]) - 0
      BY <1>4, <2>2
    <3>2. pending[q] \in Nat /\ Cardinality(new[q]) \in Nat
      BY <1>3, <1>4
    <3> QED
      BY <3>1, <3>2
  <2> QED
    BY <2>1, <2>2
<1>7. drained'[r] = CheckDrained(drained[r], cancelled, producersDone[r], pending'[r], inflight'[r], live[r])
  BY <1>1 DEF DrainFacts
<1>8. pending'[r] = 0 => inflight'[r] = 0
  BY <1>1 DEF CountFacts
<1>9. Hosting \in Role /\ Embedded \in Role /\ Hosting # Embedded /\ (r = Hosting \/ r = Embedded)
  BY <1>1 DEF DrainFacts, Role
<1>10. HookAfter' /\ CycleOpen'
  BY <1>1 DEF DrainFacts, DrainInv, HookAfter, CycleOpen
<1>11. NoSentinel'
  BY <1>1, PutAllEffect DEF DrainFacts, DrainInv, NoSentinel, Unended
<1>12. Manned'
  <2> SUFFICES ASSUME Unended, ~cancelled, ~errors, NEW q \in Role, pending'[q] > 0
               PROVE  live'[q] > 0
    BY <1>1 DEF Manned, Unended
  <2>1. CASE q = r
    <3>1. live'[r] >= live[r] /\ live[r] \in Nat /\ live'[r] = live[r] + SpawnCount(new, r)
          /\ SpawnCount(new, r) \in Nat
      BY <1>1, <1>3, <1>4
    <3> QED
      BY <1>5, <2>1, <3>1
  <2>2. CASE q # r
    <3>1. pending[q] > 0 => live[q] > 0
      BY DEF DrainFacts, DrainInv, Manned
    <3>2. new[q] = {} => pending'[q] <= pending[q]
      BY <1>3, <1>4, <2>2
    <3>3. live[q] + SpawnCount(new, q) > 0
      BY <1>1, <1>4, <3>1, <3>2, PutMans DEF DrainFacts
    <3> QED
      BY <1>4, <3>3
  <2> QED
    BY <2>1, <2>2
<1>13. HostingQuiet'
  <2> SUFFICES ASSUME graph = Embedded PROVE pending'[Hosting] = 0
    BY <1>1 DEF HostingQuiet
  <2>1. pending[Hosting] = 0
    BY DEF DrainFacts, DrainInv, HostingQuiet
  <2>2. r # Hosting
    <3>1. r = Hosting => pending[Hosting] > 0
      BY <1>5
    <3> QED
      BY <2>1, <3>1
  <2>3. Cardinality(new[Hosting]) = 0
    BY <1>2, <1>3, <1>9, <2>2
  <2>4. pending'[Hosting] = pending[Hosting] + Cardinality(new[Hosting]) - 0
    BY <1>4, <1>9, <2>2
  <2> QED
    BY <2>1, <2>3, <2>4
<1>14. CancelWakesDrainers'
  BY <1>1, <1>6, <1>7 DEF CancelWakesDrainers, CheckDrained, DrainFacts, DrainInv
<1>15. NoLostWakeup'
  <2> SUFFICES ASSUME NEW q \in Role, graph = q, ~drained'[q] PROVE pending'[q] > 0 /\ live'[q] > 0
    BY <1>1 DEF NoLostWakeup
  <2>1. CASE q # r
    <3>1. pending[q] > 0 /\ live[q] > 0
      BY <1>6, <2>1 DEF DrainFacts, DrainInv, NoLostWakeup
    <3>2. pending'[q] >= pending[q] /\ live'[q] >= live[q]
      BY <1>4, <1>6, <2>1
    <3>3. pending[q] \in Nat /\ live[q] \in Nat /\ pending'[q] \in Nat /\ live'[q] \in Nat
      BY <1>4 DEF CountFacts
    <3> QED
      BY <3>1, <3>2, <3>3
  <2>2. CASE q = r
    <3>1. producersDone[r]
      BY <2>2 DEF DrainFacts, DrainInv, CycleOpen
    <3>2. pending'[r] # 0
      BY <1>7, <1>8, <2>2, <3>1 DEF CheckDrained
    <3>3. /\ pending'[r] \in Nat /\ live[r] \in Nat /\ live'[r] \in Nat /\ live'[r] >= live[r]
      BY <1>1, <1>4 DEF CountFacts
    <3> QED
      BY <1>5, <2>2, <3>2, <3>3
  <2> QED
    BY <2>1, <2>2
<1>16. EventTrue'
  <2> SUFFICES ASSUME NEW q \in Role, graph = q, drained'[q], ~cancelled, ~errors PROVE pending'[q] = 0
    BY <1>1 DEF EventTrue
  <2>1. drained[q] => pending[q] = 0
    BY DEF DrainFacts, DrainInv, EventTrue
  <2>2. CASE q # r
    <3>1. pending[q] = 0
      BY <1>6, <2>1, <2>2
    <3>2. q = Hosting
      <4>1. q = Embedded => pending[Hosting] = 0
        BY DEF DrainFacts, DrainInv, HostingQuiet
      <4> QED
        BY <1>5, <1>9, <2>2, <4>1 DEF Role
    <3>3. Cardinality(new[q]) = 0
      BY <1>2, <1>3, <1>9, <2>2, <3>2
    <3>4. pending'[q] = pending[q] + Cardinality(new[q]) - 0
      BY <1>4, <2>2
    <3> QED
      BY <3>1, <3>3, <3>4
  <2>3. CASE q = r
    <3>1. pending[r] # 0 /\ live[r] # 0
      BY <1>5
    <3>2. ~drained[r] /\ drained'[r]
      BY <2>1, <2>3, <3>1
    <3>3. drained[r] \/ cancelled \/ pending'[r] = 0 \/ live[r] = 0
      BY <1>7, <3>2 DEF CheckDrained
    <3> QED
      BY <2>3, <3>1, <3>2, <3>3
  <2> QED
    BY <2>2, <2>3
<1> QED
  BY <1>10, <1>11, <1>12, <1>13, <1>14, <1>15, <1>16 DEF DrainInv

(* A worker that crashes wakes its drainer to raise.                       *)
LEMMA DrainCrash ==
  ASSUME DrainFacts, CountFacts', NEW w \in Worker, NEW hs \in SUBSET Url, Crash(w, hs)
  PROVE  DrainInv'
<1> DEFINE r == RoleOf(w)
           new == Accepted(hs, {})
<1>1. /\ r \in Role /\ pc[w] = "busy"
      /\ Fresh(new) /\ PutAll(new)
      /\ pending' = PendingAfter(w, new)
      /\ live' = [live EXCEPT ![r] = @ - 1]
      /\ graph' = graph /\ hook' = hook /\ cancelled' = cancelled /\ errors' = TRUE
      /\ producersDone' = producersDone /\ drained' = [drained EXCEPT ![r] = TRUE]
  BY AcceptedFresh DEF Crash, Exit, Worker, RoleOf, DrainFacts, Own
<1>2. r = Embedded => new[Hosting] = {}
  BY DEF Crash, Discoveries, Accepted, DrainFacts
<1> HIDE DEF new
<1>3. \A q \in Role : /\ Cardinality(new[q]) \in Nat /\ (new[q] = {} => Cardinality(new[q]) = 0)
  BY <1>1, PutCounts DEF DrainFacts
<1>4. \A q \in Role : /\ pending'[q] = pending[q] + Cardinality(new[q]) - (IF q = r THEN 1 ELSE 0)
                      /\ q # r => live'[q] = live[q]
                      /\ pending[q] \in Nat /\ live[q] \in Nat
  <2>1. \A q \in Role : pending'[q] = pending[q] + Cardinality(new[q]) - (IF q = r THEN 1 ELSE 0)
    BY <1>1 DEF PendingAfter
  <2>2. \A q \in Role : q # r => live'[q] = live[q]
    BY <1>1 DEF DrainFacts, Own, Typed
  <2>3. \A q \in Role : pending[q] \in Nat /\ live[q] \in Nat
    BY DEF DrainFacts, CountFacts
  <2> QED
    BY <2>1, <2>2, <2>3
<1>5. pending[r] > 0
  BY <1>1 DEF DrainFacts, CountFacts
<1>6. drained'[r] = TRUE /\ \A q \in Role : q # r => drained'[q] = drained[q] /\ pending'[q] >= pending[q]
  <2>1. drained'[r] = TRUE /\ \A q \in Role : q # r => drained'[q] = drained[q]
    BY <1>1 DEF DrainFacts
  <2>2. ASSUME NEW q \in Role, q # r PROVE pending'[q] >= pending[q]
    <3>1. pending'[q] = pending[q] + Cardinality(new[q]) - 0
      BY <1>4, <2>2
    <3>2. pending[q] \in Nat /\ Cardinality(new[q]) \in Nat
      BY <1>3, <1>4
    <3> QED
      BY <3>1, <3>2
  <2> QED
    BY <2>1, <2>2
<1>7. HookAfter' /\ CycleOpen' /\ Manned' /\ EventTrue'
  BY <1>1 DEF DrainFacts, DrainInv, HookAfter, CycleOpen, Manned, EventTrue
<1>8. NoSentinel'
  BY <1>1, PutAllEffect DEF DrainFacts, DrainInv, NoSentinel, Unended
<1>9. HostingQuiet'
  <2> SUFFICES ASSUME graph = Embedded PROVE pending'[Hosting] = 0
    BY <1>1 DEF HostingQuiet
  <2>1. pending[Hosting] = 0 /\ Hosting \in Role
    BY DEF DrainFacts, DrainInv, HostingQuiet
  <2>2. r # Hosting
    <3>1. r = Hosting => pending[Hosting] > 0
      BY <1>5
    <3> QED
      BY <2>1, <3>1
  <2>3. Cardinality(new[Hosting]) = 0
    BY <1>1, <1>2, <1>3, <2>1, <2>2 DEF Role
  <2>4. pending'[Hosting] = pending[Hosting] + Cardinality(new[Hosting]) - 0
    BY <1>4, <2>1, <2>2
  <2> QED
    BY <2>1, <2>3, <2>4
<1>10. CancelWakesDrainers'
  BY <1>1, <1>6 DEF CancelWakesDrainers, DrainFacts, DrainInv
<1>11. NoLostWakeup'
  <2> SUFFICES ASSUME NEW q \in Role, graph = q, ~drained'[q] PROVE pending'[q] > 0 /\ live'[q] > 0
    BY <1>1 DEF NoLostWakeup
  <2>1. q # r /\ ~drained[q]
    BY <1>6
  <2>2. pending[q] > 0 /\ live[q] > 0
    BY <2>1 DEF DrainFacts, DrainInv, NoLostWakeup
  <2>3. /\ live'[q] = live[q] /\ pending'[q] >= pending[q]
        /\ pending[q] \in Nat /\ pending'[q] \in Nat
    BY <1>4, <1>6, <2>1 DEF CountFacts
  <2> QED
    BY <2>2, <2>3
<1> QED
  BY <1>7, <1>8, <1>9, <1>10, <1>11 DEF DrainInv

(* A worker that leaves does so in a cancelled run, whose drainers are     *)
(* awake.                                                                  *)
LEMMA DrainGives ==
  ASSUME DrainFacts, CountFacts', NEW w \in Worker, Gives(w)
  PROVE  DrainInv'
<1>1. cancelled' = TRUE /\ hook' = hook /\ graph' = graph /\ producersDone' = producersDone
  BY GivesCancelled DEF DrainFacts, DrainInv
<1>2. \A q \in Role : drained'[q]
  <2>1. CASE Kill(w)
    BY <2>1 DEF Kill, CheckDrained, DrainFacts, DrainInv, HookAfter, CancelWakesDrainers
  <2>2. CASE AbortAtTop(w) \/ AgentCancelled(w)
    BY <2>2 DEF AbortAtTop, AgentCancelled, MarkCancelled
  <2> QED
    BY <2>1, <2>2 DEF Gives
<1>3. \A q \in Role : pending[q] \in Nat /\ pending'[q] \in Nat /\ pending'[q] <= pending[q]
  <2>1. pending' = pending \/ pending' = [pending EXCEPT ![RoleOf(w)] = @ - (IF pc[w] = "busy" THEN 1 ELSE 0)]
    BY DEF Gives, AbortAtTop, AgentCancelled, Kill
  <2>2. \A q \in Role : pending[q] \in Nat /\ pending'[q] \in Nat
    BY DEF DrainFacts, CountFacts
  <2>3. pending \in [Role -> Int] /\ RoleOf(w) \in Role
    BY DEF DrainFacts, Own, Typed, Worker, RoleOf
  <2> QED
    BY <2>1, <2>2, <2>3
<1>4. HostingQuiet'
  <2> SUFFICES ASSUME graph = Embedded PROVE pending'[Hosting] = 0
    BY <1>1 DEF HostingQuiet
  <2>1. pending[Hosting] = 0 /\ Hosting \in Role
    BY DEF DrainFacts, DrainInv, HostingQuiet
  <2> QED
    BY <1>3, <2>1
<1> QED
  BY <1>1, <1>2, <1>4 DEF DrainFacts, DrainInv, HookAfter, NoSentinel, Manned, CycleOpen, EventTrue,
     CancelWakesDrainers, NoLostWakeup

(* A worker that takes a URL, or goes to sleep.                            *)
LEMMA DrainTake ==
  ASSUME DrainFacts, NEW w \in Worker, TakeItem(w) \/ Block(w)
  PROVE  DrainInv'
<1>1. /\ graph' = graph /\ hook' = hook /\ cancelled' = cancelled /\ errors' = errors
      /\ pending' = pending /\ live' = live /\ drained' = drained /\ producersDone' = producersDone
  BY DEF TakeItem, Block, poolVars, stopVars, callerVars
<1>2. \A q \in Role : None \notin ToSet(queue[q]) => None \notin ToSet(queue'[q])
  <2>1. CASE TakeItem(w)
    <3>1. RoleOf(w) \in Role
      BY DEF Worker, RoleOf
    <3> QED
      BY <2>1, <3>1, TailEffect DEF TakeItem, CanGet, DrainFacts
  <2>2. CASE Block(w)
    BY <2>2 DEF Block, poolVars
  <2> QED
    BY <2>1, <2>2
<1> QED
  BY <1>1, <1>2 DEF DrainFacts, DrainInv, HookAfter, NoSentinel, Unended, Manned, HostingQuiet, CycleOpen,
     EventTrue, CancelWakesDrainers, NoLostWakeup

(* A sentinel is taken only when nobody waits for the pool any more, or    *)
(* when the run is cancelled.                                              *)
LEMMA DrainSentinel ==
  ASSUME DrainFacts, NEW w \in Worker, TakeSentinel(w)
  PROVE  DrainInv'
<1> DEFINE r == RoleOf(w)
<1>1. /\ r \in Role /\ queue[r] # <<>> /\ Head(queue[r]) = None
      /\ graph' = graph /\ hook' = hook /\ cancelled' = cancelled /\ errors' = errors
      /\ pending' = pending /\ producersDone' = producersDone
      /\ drained' = [drained EXCEPT ![r] =
            CheckDrained(@, cancelled, producersDone[r], pending[r], inflight[r], live[r] - 1)]
  BY DEF TakeSentinel, CanGet, Exit, stopVars, Worker, RoleOf
<1>2. None \in ToSet(queue[r])
  <2>1. queue[r] \in Seq(Url \cup {None})
    BY <1>1 DEF DrainFacts, Own, Typed
  <2>2. Len(queue[r]) > 0 /\ Head(queue[r]) = queue[r][1] /\ DOMAIN queue[r] = 1 .. Len(queue[r])
        /\ Len(queue[r]) \in Nat
    BY <1>1, <2>1
  <2> QED
    BY <1>1, <2>2 DEF ToSet
<1>3. cancelled \/ ~Unended
  BY <1>1, <1>2 DEF DrainFacts, DrainInv, NoSentinel
<1>4. \A q \in Role : drained[q] => drained'[q]
  BY <1>1 DEF CheckDrained, DrainFacts
<1>5. graph \in Role => Unended
  BY DEF Role, Hosting, Embedded, Unended
<1>6. \A q \in Role : cancelled => drained'[q]
  BY <1>4 DEF DrainFacts, DrainInv, CancelWakesDrainers
<1> QED
  BY <1>1, <1>3, <1>5, <1>6 DEF DrainFacts, DrainInv, HookAfter, NoSentinel, Unended, Manned, HostingQuiet,
     CycleOpen, EventTrue, CancelWakesDrainers, NoLostWakeup

(* A node that enqueues, and one that goes on to drain.                    *)
LEMMA DrainProduce ==
  ASSUME DrainFacts, NEW us \in SUBSET Url, Produce(us)
  PROVE  DrainInv'
<1> DEFINE new == Accepted(us, {})
<1>1. /\ Fresh(new) /\ PutAll(new) /\ graph = "producing"
      /\ pending' = [q \in Role |-> pending[q] + Cardinality(new[q])]
      /\ live' = [q \in Role |-> live[q] + SpawnCount(new, q)]
      /\ graph' = graph /\ hook' = hook /\ cancelled' = cancelled /\ errors' = errors
      /\ drained' = drained /\ producersDone' = producersDone
  BY AcceptedFresh DEF Produce, callerVars, stopVars, DrainFacts, Own
<1> HIDE DEF new
<1>2. NoSentinel'
  BY <1>1, PutAllEffect DEF DrainFacts, DrainInv, NoSentinel, Unended
<1>3. Manned'
  <2> SUFFICES ASSUME ~cancelled, ~errors, NEW q \in Role, pending'[q] > 0 PROVE live'[q] > 0
    BY <1>1 DEF Manned
  <2>1. pending[q] > 0 => live[q] > 0
    BY <1>1 DEF DrainFacts, DrainInv, Manned, Unended
  <2>2. /\ Cardinality(new[q]) \in Nat /\ (new[q] = {} => Cardinality(new[q]) = 0)
        /\ pending[q] \in Nat
    BY <1>1, PutCounts DEF DrainFacts, CountFacts
  <2>3. pending'[q] \in Int /\ (new[q] = {} => pending'[q] <= pending[q])
    BY <1>1, <2>2
  <2>4. live[q] + SpawnCount(new, q) > 0
    BY <1>1, <2>1, <2>3, PutMans DEF DrainFacts
  <2> QED
    BY <1>1, <2>4
<1>4. "producing" \notin Role
  BY DEF Role, Hosting, Embedded
<1> QED
  BY <1>1, <1>2, <1>3, <1>4 DEF DrainFacts, DrainInv, HookAfter, HostingQuiet, CycleOpen,
     EventTrue, CancelWakesDrainers, NoLostWakeup

(* A drain begins: the event is clear if there is work, and then there are *)
(* workers.                                                                *)
LEMMA DrainBegins ==
  ASSUME DrainFacts, CountFacts', NEW r \in Role, NEW us \in SUBSET Url, BeginDrain(r, us)
  PROVE  DrainInv'
<1> DEFINE new == IF r = Hosting THEN Accepted(us, {}) ELSE Accepted({}, us)
<1>1. /\ Fresh(new) /\ PutAll(new) /\ graph = "producing" /\ graph' = r
      /\ pending' = [q \in Role |-> pending[q] + Cardinality(new[q])]
      /\ live' = [q \in Role |-> live[q] + SpawnCount(new, q)]
      /\ inflight' = inflight
      /\ hook' = hook /\ cancelled' = cancelled /\ errors' = errors
      /\ producersDone' = [producersDone EXCEPT ![r] = TRUE]
      /\ drained' = [drained EXCEPT ![r] =
            CheckDrained(FALSE, cancelled, TRUE, pending'[r], inflight[r], live'[r])]
      /\ r = Embedded => pending[Hosting] = 0
  BY AcceptedFresh DEF BeginDrain, CanDrain, StartDrain, Reopened, stopVars, DrainFacts, Own
<1>2. r = Embedded => new[Hosting] = {}
  BY DEF Accepted, DrainFacts
<1> HIDE DEF new
<1>3. NoSentinel'
  BY <1>1, PutAllEffect DEF DrainFacts, DrainInv, NoSentinel, Unended
<1>4. \A q \in Role : /\ Cardinality(new[q]) \in Nat /\ (new[q] = {} => Cardinality(new[q]) = 0)
                      /\ pending[q] \in Nat /\ pending'[q] \in Nat
                      /\ pending'[q] = pending[q] + Cardinality(new[q])
                      /\ live'[q] = live[q] + SpawnCount(new, q) /\ live'[q] \in Nat
  BY <1>1, PutCounts DEF DrainFacts, CountFacts
<1>5. ASSUME ~cancelled, ~errors, NEW q \in Role, pending'[q] > 0 PROVE live'[q] > 0
  <2>1. pending[q] > 0 => live[q] > 0
    BY <1>1, <1>5 DEF DrainFacts, DrainInv, Manned, Unended
  <2>2. pending'[q] \in Int /\ (new[q] = {} => pending'[q] <= pending[q])
    BY <1>4
  <2>3. live[q] + SpawnCount(new, q) > 0
    BY <1>1, <1>5, <2>1, <2>2, PutMans DEF DrainFacts
  <2> QED
    BY <1>4, <2>3
<1>6. Manned'
  BY <1>1, <1>5 DEF Manned
<1>7. HostingQuiet'
  BY <1>1, <1>2, <1>4 DEF HostingQuiet, DrainFacts
<1>8. drained'[r] = CheckDrained(FALSE, cancelled, TRUE, pending'[r], inflight[r], live'[r])
  BY <1>1 DEF DrainFacts
<1>9. pending'[r] = 0 => inflight[r] = 0
  BY <1>1 DEF CountFacts
<1>10. CancelWakesDrainers'
  BY <1>1, <1>8 DEF CancelWakesDrainers, CheckDrained, DrainFacts, DrainInv
<1>11. HookAfter' /\ CycleOpen'
  BY <1>1 DEF DrainFacts, DrainInv, HookAfter, CycleOpen
<1>12. NoLostWakeup'
  <2> SUFFICES ASSUME ~drained'[r] PROVE pending'[r] > 0 /\ live'[r] > 0
    BY <1>1 DEF NoLostWakeup
  <2>1. pending'[r] # 0 /\ ~(pending'[r] > 0 /\ live'[r] = 0)
    BY <1>8, <1>9 DEF CheckDrained
  <2> QED
    BY <1>4, <2>1
<1>13. EventTrue'
  <2> SUFFICES ASSUME drained'[r], ~cancelled, ~errors PROVE pending'[r] = 0
    BY <1>1 DEF EventTrue
  <2>1. pending'[r] = 0 \/ (pending'[r] > 0 /\ live'[r] = 0)
    BY <1>8 DEF CheckDrained
  <2>2. pending'[r] > 0 => live'[r] > 0
    BY <1>5
  <2> QED
    BY <1>4, <2>1, <2>2
<1> QED
  BY <1>3, <1>6, <1>7, <1>10, <1>11, <1>12, <1>13 DEF DrainInv

(* The other steps change the counters of no pool.                         *)
LEMMA DrainOther ==
  ASSUME DrainFacts,
         \/ \E r \in Role : EndDrain(r) \/ FailDrain(r)
         \/ LeaveGraph \/ BeginClose \/ Reap \/ ControlStep \/ UNCHANGED vars
  PROVE  DrainInv'
<1>1. /\ pending' = pending /\ live' = live /\ errors' = errors /\ producersDone' = producersDone
  BY DEF EndDrain, FailDrain, LeaveGraph, BeginClose, Reap, ControlStep, RequestCancel,
         HookCancel, HookTimeout, HookDone, CancelTask, vars, poolVars, stopVars
<1>2. graph \in Role => graph # "producing" /\ Unended
  BY DEF Role, Hosting, Embedded, Unended
<1>3. ASSUME (\E r \in Role : EndDrain(r) \/ FailDrain(r)) \/ LeaveGraph \/ CancelTask PROVE DrainInv'
  <2>1. /\ graph \in {"producing"} \cup Role /\ graph' \in {"producing", "unwinding"}
        /\ queue' = queue /\ drained' = drained
        /\ hook' = hook /\ cancelled' = cancelled
    BY <1>3 DEF EndDrain, FailDrain, LeaveGraph, CancelTask, poolVars, stopVars
  <2>2. Unended /\ graph' \notin Role /\ graph' # Embedded
    BY <1>2, <2>1 DEF Role, Hosting, Embedded, Unended
  <2> QED
    BY <1>1, <2>1, <2>2 DEF DrainFacts, DrainInv, HookAfter, NoSentinel, Manned, HostingQuiet, CycleOpen,
       EventTrue, CancelWakesDrainers, NoLostWakeup
<1>4. ASSUME BeginClose \/ Reap PROVE DrainInv'
  <2>1. /\ graph' \in {"closing", "closed"} /\ drained' = drained
        /\ hook' = hook /\ cancelled' = cancelled
    BY <1>4 DEF BeginClose, Reap, poolVars, stopVars
  <2>2. ~Unended' /\ graph' \notin Role /\ graph' # Embedded
    BY <2>1 DEF Role, Hosting, Embedded, Unended
  <2> QED
    BY <1>1, <2>1, <2>2 DEF DrainFacts, DrainInv, HookAfter, NoSentinel, Manned, HostingQuiet, CycleOpen,
       EventTrue, CancelWakesDrainers, NoLostWakeup
<1>5. ASSUME HookCancel PROVE DrainInv'
  <2>1. cancelled' = TRUE /\ graph' = graph /\ \A r \in Role : drained'[r]
    BY <1>5 DEF HookCancel, DrainFacts, DrainInv, CancelWakesDrainers
  <2> QED
    BY <1>1, <2>1 DEF DrainFacts, DrainInv, HookAfter, NoSentinel, Manned, HostingQuiet, CycleOpen,
       EventTrue, CancelWakesDrainers, NoLostWakeup
<1>6. ASSUME RequestCancel \/ HookTimeout \/ HookDone \/ UNCHANGED vars PROVE DrainInv'
  <2>1. /\ queue' = queue /\ drained' = drained /\ cancelled' = cancelled /\ graph' = graph
        /\ hook' # "idle" => hook # "idle"
    BY <1>6 DEF RequestCancel, HookTimeout, HookDone, vars, poolVars, stopVars, callerVars
  <2> QED
    BY <1>1, <2>1 DEF DrainFacts, DrainInv, HookAfter, NoSentinel, Unended, Manned, HostingQuiet, CycleOpen,
       EventTrue, CancelWakesDrainers, NoLostWakeup
<1> QED
  BY <1>3, <1>4, <1>5, <1>6 DEF ControlStep

(* No step of a worker, of the graph or of the control room breaks it.     *)
LEMMA DrainNext ==
  Own /\ Own' /\ Accounting /\ Accounting' /\ DrainInv /\ [Next]_vars => DrainInv'
<1> SUFFICES ASSUME Own, Own', Accounting, Accounting', DrainInv, [Next]_vars PROVE DrainInv'
  OBVIOUS
<1>1. DrainFacts
  BY Counts DEF DrainFacts, Own, Typed, Role, Hosting, Embedded
<1>2. CountFacts'
  BY CountsNext
<1>3. ASSUME NEW w \in Worker, WorkerStep(w) PROVE DrainInv'
  BY <1>1, <1>2, <1>3, DrainFinish, DrainCrash, DrainGives, DrainTake, DrainSentinel DEF WorkerStep, Gives
<1>4. ASSUME GraphStep PROVE DrainInv'
  BY <1>1, <1>2, <1>4, DrainProduce, DrainBegins, DrainOther DEF GraphStep
<1>5. ASSUME ControlStep \/ Finished \/ UNCHANGED vars PROVE DrainInv'
  BY <1>1, <1>5, DrainOther DEF Finished
<1> QED
  BY <1>3, <1>4, <1>5 DEF Next

(* Nobody drains when the run begins.                                      *)
LEMMA DrainInit == Init => DrainInv
<1> SUFFICES ASSUME Init PROVE DrainInv
  OBVIOUS
<1>1. \A r \in Role : graph # r /\ ToSet(queue[r]) = {} /\ pending[r] = 0
  BY DEF Init, Role, Hosting, Embedded, ToSet
<1>2. graph # Embedded
  BY DEF Init, Embedded
<1> QED
  BY <1>1, <1>2 DEF Init, DrainInv, HookAfter, NoSentinel, Manned, HostingQuiet, CycleOpen, EventTrue,
     CancelWakesDrainers, NoLostWakeup

(* DrainInv is an invariant of the pools.                                  *)
LEMMA DrainInvariant == Spec => []DrainInv
BY DrainInit, DrainNext, OwnInvariant, AccountingHolds, PTL DEF Spec

(* wait_until_drained returns without raising only when no URL of the role *)
(* is queued or being processed, though hosting workers go on producing.   *)
THEOREM DrainIsSound == Spec => []DrainSound
<1>1. Own /\ Accounting /\ DrainInv => DrainSound
  BY Counts DEF CountFacts, DrainInv, EventTrue, DrainSound
<1> QED
  BY <1>1, DrainInvariant, OwnInvariant, AccountingHolds, PTL

-----------------------------------------------------------------------------
(* aclose.                                                                 *)

(* The places of the sentinels in a queue.                                 *)
Nones(s) == {i \in DOMAIN s : s[i] = None}

(* They can be counted.                                                    *)
LEMMA NonesFinite ==
  ASSUME NEW s \in Seq(Url \cup {None})
  PROVE  IsFiniteSet(Nones(s)) /\ Cardinality(Nones(s)) \in Nat
<1>1. Len(s) \in Nat /\ DOMAIN s = 1 .. Len(s)
  OBVIOUS
<1>2. IsFiniteSet(1 .. Len(s))
  BY <1>1, FS_Interval
<1>3. Nones(s) \in SUBSET (1 .. Len(s))
  BY <1>1 DEF Nones
<1> QED
  BY <1>2, <1>3, FS_Subset, FS_CardinalityType

(* What joins a queue takes no sentinel away, and adds its own.            *)
LEMMA ConcatNones ==
  ASSUME NEW s \in Seq(Url \cup {None}), NEW t \in Seq(Url \cup {None})
  PROVE  /\ Cardinality(Nones(s \o t)) >= Cardinality(Nones(s))
         /\ (\A i \in DOMAIN t : t[i] = None) => Cardinality(Nones(s \o t)) >= Len(t)
<1> DEFINE c == s \o t
           new == Len(s) + 1 .. Len(s) + Len(t)
<1>1. /\ c \in Seq(Url \cup {None}) /\ Len(c) = Len(s) + Len(t)
      /\ \A i \in 1 .. Len(s) + Len(t) : c[i] = IF i <= Len(s) THEN s[i] ELSE t[i - Len(s)]
  BY ConcatProperties
<1>2. Len(s) \in Nat /\ Len(t) \in Nat /\ DOMAIN s = 1 .. Len(s) /\ DOMAIN t = 1 .. Len(t)
  OBVIOUS
<1>3. DOMAIN c = 1 .. Len(s) + Len(t)
  BY <1>1
<1> HIDE DEF c
<1>4. IsFiniteSet(Nones(c)) /\ Cardinality(Nones(c)) \in Nat
  BY <1>1, NonesFinite
<1>5. Nones(s) \in SUBSET Nones(c)
  BY <1>1, <1>2, <1>3 DEF Nones
<1>6. Cardinality(Nones(c)) >= Cardinality(Nones(s))
  <2>1. Cardinality(Nones(s)) <= Cardinality(Nones(c))
    BY <1>4, <1>5, FS_Subset
  <2>2. Cardinality(Nones(s)) \in Nat
    BY NonesFinite
  <2> QED
    BY <1>4, <2>1, <2>2
<1>7. ASSUME \A i \in DOMAIN t : t[i] = None PROVE Cardinality(Nones(c)) >= Len(t)
  <2>1. new \in SUBSET Nones(c)
    <3> SUFFICES ASSUME NEW i \in new PROVE i \in Nones(c)
      OBVIOUS
    <3>1. i \in 1 .. Len(s) + Len(t) /\ ~(i <= Len(s)) /\ i - Len(s) \in 1 .. Len(t)
      BY <1>2
    <3>2. c[i] = None
      BY <1>1, <1>2, <1>7, <3>1
    <3> QED
      BY <1>3, <3>1, <3>2 DEF Nones
  <2>2. Cardinality(new) = Len(t)
    <3>1. \A a, b \in Int : Cardinality(a .. b) = IF a > b THEN 0 ELSE b - a + 1
      BY FS_Interval
    <3>2. \A a, b \in Nat : Cardinality(a + 1 .. a + b) = b
      <4> SUFFICES ASSUME NEW a \in Nat, NEW b \in Nat PROVE Cardinality(a + 1 .. a + b) = b
        OBVIOUS
      <4>1. a + 1 \in Int /\ a + b \in Int
        OBVIOUS
      <4>2. Cardinality(a + 1 .. a + b) = IF a + 1 > a + b THEN 0 ELSE (a + b) - (a + 1) + 1
        BY <3>1, <4>1
      <4>3. (IF a + 1 > a + b THEN 0 ELSE (a + b) - (a + 1) + 1) = b
        OBVIOUS
      <4> QED
        BY <4>2, <4>3
    <3> QED
      BY <1>2, <3>2
  <2>3. Cardinality(new) <= Cardinality(Nones(c))
    BY <1>4, <2>1, FS_Subset
  <2> QED
    BY <1>2, <1>4, <2>2, <2>3
<1> QED
  BY <1>6, <1>7 DEF c

(* Who takes the head takes one sentinel at the most.                      *)
LEMMA TailNones ==
  ASSUME NEW s \in Seq(Url \cup {None}), s # <<>>
  PROVE  Cardinality(Nones(Tail(s))) >= Cardinality(Nones(s)) - (IF Head(s) = None THEN 1 ELSE 0)
<1> DEFINE t == Tail(s)
           rest == Nones(s) \ {1}
           f == [i \in rest |-> i - 1]
<1>1. /\ t \in Seq(Url \cup {None}) /\ Len(t) = Len(s) - 1 /\ Head(s) = s[1]
      /\ \A i \in 1 .. Len(t) : t[i] = s[i + 1]
  BY HeadTailProperties
<1>2. /\ Len(s) \in Nat /\ Len(s) > 0 /\ DOMAIN s = 1 .. Len(s) /\ Len(t) \in Nat
      /\ DOMAIN t = 1 .. Len(t)
  BY <1>1
<1> HIDE DEF t
<1>3. \A i \in rest : i \in Int /\ i - 1 \in Nones(t)
  <2> SUFFICES ASSUME NEW i \in rest PROVE i \in Int /\ i - 1 \in Nones(t)
    OBVIOUS
  <2>1. i \in 1 .. Len(s) /\ i # 1 /\ s[i] = None
    BY <1>2 DEF Nones
  <2>2. i - 1 \in 1 .. Len(t) /\ i - 1 + 1 = i /\ i \in Int
    BY <1>1, <1>2, <2>1
  <2>3. t[i - 1] = None
    BY <1>1, <2>1, <2>2
  <2> QED
    BY <1>2, <2>2, <2>3 DEF Nones
<1>4. f \in [rest -> Nones(t)] /\ \A i, j \in rest : f[i] = f[j] => i = j
  BY <1>3
<1>5. f \in Injection(rest, Nones(t))
  BY <1>4, Fun_IsInj
<1>6. IsFiniteSet(Nones(t)) /\ Cardinality(Nones(t)) \in Nat
  BY <1>1, NonesFinite
<1> HIDE DEF f
<1>7. Cardinality(rest) <= Cardinality(Nones(t))
  BY <1>5, <1>6, FS_Injection
<1>8. Cardinality(rest) = IF 1 \in Nones(s) THEN Cardinality(Nones(s)) - 1 ELSE Cardinality(Nones(s))
  BY NonesFinite, FS_RemoveElement
<1>9. 1 \in Nones(s) <=> Head(s) = None
  BY <1>1, <1>2 DEF Nones
<1>10. Cardinality(Nones(s)) \in Nat
  BY NonesFinite
<1> HIDE DEF rest
<1>11. Cardinality(Nones(t)) >= Cardinality(Nones(s)) - (IF Head(s) = None THEN 1 ELSE 0)
  <2>1. CASE Head(s) = None
    BY <1>6, <1>7, <1>8, <1>9, <1>10, <2>1
  <2>2. CASE Head(s) # None
    BY <1>6, <1>7, <1>8, <1>9, <1>10, <2>2
  <2> QED
    BY <2>1, <2>2
<1> QED
  BY <1>11 DEF t

(* The workers of a role that aclose waits for are all there are, or none: *)
(* a set that is spawned later was spawned because the role had no worker. *)
AllOrNone == graph = "closing" => \A r \in Role : Alive(r) \subseteq awaited \/ awaited \cap Alive(r) = {}

CloseInv == SentinelsSuffice /\ AllOrNone

(* What a step may do while aclose waits: the sentinels stay, and so do    *)
(* the workers waited for, or the queue gives one to each that goes.       *)
LEMMA CloseKept ==
  ASSUME Own, Own', CloseInv, graph = "closing",
         \A r \in Role : Cardinality(Nones(queue'[r])) >= Cardinality(Nones(queue[r])),
         \A r \in Role : awaited' \cap Alive(r)' \subseteq awaited \cap Alive(r),
         \A r \in Role : awaited \cap Alive(r) = {} \/ Alive(r)' \subseteq Alive(r),
         \A w \in awaited : w \in awaited' \/ pc'[w] = "off"
  PROVE  CloseInv'
<1>1. ASSUME NEW r \in Role
      PROVE  Cardinality(Nones(queue'[r])) >= Cardinality(awaited' \cap Alive(r)')
  <2>1. IsFiniteSet(Alive(r)) /\ IsFiniteSet(awaited \cap Alive(r))
    BY WorkersFinite, FS_Subset
  <2>2. /\ Cardinality(awaited' \cap Alive(r)') <= Cardinality(awaited \cap Alive(r))
        /\ Cardinality(awaited \cap Alive(r)) \in Nat
        /\ Cardinality(awaited' \cap Alive(r)') \in Nat
    BY <2>1, FS_Subset, FS_CardinalityType
  <2>3. Cardinality(Nones(queue[r])) >= Cardinality(awaited \cap Alive(r))
    BY DEF CloseInv, SentinelsSuffice, Nones
  <2>4. queue[r] \in Seq(Url \cup {None}) /\ queue'[r] \in Seq(Url \cup {None})
    BY DEF Own, Typed
  <2>5. Cardinality(Nones(queue[r])) \in Nat /\ Cardinality(Nones(queue'[r])) \in Nat
    BY <2>4, NonesFinite
  <2>6. Cardinality(Nones(queue'[r])) >= Cardinality(Nones(queue[r]))
    OBVIOUS
  <2> QED
    BY <2>2, <2>3, <2>5, <2>6
<1>2. SentinelsSuffice'
  BY <1>1 DEF SentinelsSuffice, Nones
<1>3. ASSUME NEW r \in Role
      PROVE  Alive(r)' \subseteq awaited' \/ awaited' \cap Alive(r)' = {}
  <2>1. CASE awaited \cap Alive(r) = {}
    BY <2>1
  <2>2. CASE awaited \cap Alive(r) # {}
    <3>1. Alive(r) \subseteq awaited /\ Alive(r)' \subseteq Alive(r)
      BY <2>2 DEF CloseInv, AllOrNone
    <3>2. \A w \in Alive(r)' : w \in awaited'
      BY <3>1 DEF Alive
    <3> QED
      BY <3>2
  <2> QED
    BY <2>1, <2>2
<1>4. AllOrNone'
  BY <1>3 DEF AllOrNone
<1> QED
  BY <1>2, <1>4 DEF CloseInv

(* Enqueueing takes no sentinel, and starts workers only where aclose      *)
(* waits for none.                                                         *)
LEMMA ClosePut ==
  ASSUME Own, NEW new, Fresh(new), PutAll(new)
  PROVE  /\ \A r \in Role : Cardinality(Nones(queue'[r])) >= Cardinality(Nones(queue[r]))
         /\ \A v \in Spawned(new) : v \notin awaited /\ Alive(RoleOf(v)) = {}
<1>1. PICK h \in SetToSeqs(new[Hosting]), e \in SetToSeqs(new[Embedded]) :
        queue' = [r \in Role |-> queue[r] \o (IF r = Hosting THEN h ELSE e)]
  BY DEF PutAll
<1>2. ASSUME NEW r \in Role
      PROVE  Cardinality(Nones(queue'[r])) >= Cardinality(Nones(queue[r]))
  <2> DEFINE put == IF r = Hosting THEN h ELSE e
  <2>1. IsFiniteSet(new[r]) /\ new[r] \subseteq Url
    BY FS_Subset, RunPoolsAssumption DEF Fresh
  <2>2. put \in SetToSeqs(new[r])
    BY <1>1 DEF Role, Hosting, Embedded
  <2>3. queue'[r] = queue[r] \o put /\ queue[r] \in Seq(Url \cup {None})
    BY <1>1 DEF Own, Typed
  <2> HIDE DEF put
  <2>4. put \in Seq(new[r])
    BY <2>1, <2>2, Orderings
  <2>5. put \in Seq(Url \cup {None})
    BY <2>1, <2>4
  <2> QED
    BY <2>3, <2>5, ConcatNones
<1>3. ASSUME NEW v \in Spawned(new) PROVE v \notin awaited /\ Alive(RoleOf(v)) = {}
  <2>1. v \in Worker /\ live[RoleOf(v)] = 0 /\ RoleOf(v) \in Role
    BY WorkersFinite DEF Spawned
  <2>2. \A w \in Worker : RoleOf(w) = RoleOf(v) => pc[w] = "off"
    BY <2>1, NoneAlive
  <2> QED
    BY <2>1, <2>2 DEF Alive, Own, Tracked
<1> QED
  BY <1>2, <1>3

(* aclose and the hook place a sentinel for every live worker.             *)
LEMMA CloseSentinels ==
  ASSUME Own, queue' = WithSentinels
  PROVE  \A r \in Role : /\ Cardinality(Nones(queue'[r])) >= Cardinality(Nones(queue[r]))
                         /\ Cardinality(Nones(queue'[r])) >= live[r]
<1> SUFFICES ASSUME NEW r \in Role
             PROVE  /\ Cardinality(Nones(queue'[r])) >= Cardinality(Nones(queue[r]))
                    /\ Cardinality(Nones(queue'[r])) >= live[r]
  OBVIOUS
<1> DEFINE n == IF live[r] > 0 THEN live[r] ELSE 1
           t == [k \in 1 .. n |-> None]
<1>1. n \in Nat /\ n >= live[r] /\ live[r] \in Int
  BY DEF Own, Typed
<1> HIDE DEF n
<1>2. t \in Seq(Url \cup {None}) /\ Len(t) = n /\ \A i \in DOMAIN t : t[i] = None
  BY <1>1
<1>3. queue'[r] = queue[r] \o t /\ queue[r] \in Seq(Url \cup {None})
  BY DEF WithSentinels, n, Own, Typed
<1> HIDE DEF t
<1>4. /\ Cardinality(Nones(queue'[r])) >= Cardinality(Nones(queue[r]))
      /\ Cardinality(Nones(queue'[r])) >= Len(t)
  BY <1>2, <1>3, ConcatNones
<1>5. queue'[r] \in Seq(Url \cup {None})
  BY <1>2, <1>3, ConcatItems
<1>6. Cardinality(Nones(queue'[r])) \in Nat
  BY <1>5, NonesFinite
<1> QED
  BY <1>1, <1>2, <1>4, <1>6

(* A worker that goes while aclose waits.                                  *)
LEMMA CloseWorker ==
  ASSUME Own, Own', CloseInv, graph = "closing", NEW w \in Worker, WorkerStep(w)
  PROVE  CloseInv'
<1>1. /\ pc \in [Worker -> WorkerState] /\ queue \in [Role -> Seq(Url \cup {None})]
      /\ RoleOf(w) \in Role /\ awaited \subseteq {v \in Worker : pc[v] # "off"}
  BY WorkersFinite DEF Own, Typed, Tracked
<1>2. ASSUME Gives(w) PROVE CloseInv'
  <2>1. queue' = queue /\ awaited' = awaited \ {w} /\ pc' = [pc EXCEPT ![w] = "off"]
    BY <1>2 DEF Gives, AbortAtTop, AgentCancelled, Kill, Exit
  <2>2. \A r \in Role : Alive(r)' \subseteq Alive(r)
    BY <1>1, <2>1 DEF Alive
  <2>3. \A r \in Role : Cardinality(Nones(queue[r])) \in Nat
    BY <1>1, NonesFinite
  <2>4. \A r \in Role : Cardinality(Nones(queue'[r])) >= Cardinality(Nones(queue[r]))
    BY <2>1, <2>3
  <2>5. \A v \in awaited : v \in awaited' \/ pc'[v] = "off"
    BY <1>1, <2>1
  <2> QED
    BY <2>1, <2>2, <2>4, <2>5, CloseKept
<1>3. ASSUME Block(w) \/ TakeItem(w) PROVE CloseInv'
  <2>1. /\ awaited' = awaited /\ pc[w] # "off"
        /\ \A v \in Worker : pc'[v] = "off" <=> pc[v] = "off"
    BY <1>1, <1>3 DEF Block, TakeItem, CanGet, callerVars
  <2>2. \A r \in Role : Alive(r)' = Alive(r)
    BY <2>1 DEF Alive
  <2>3. ASSUME NEW r \in Role PROVE Cardinality(Nones(queue'[r])) >= Cardinality(Nones(queue[r]))
    <3>1. Cardinality(Nones(queue[r])) \in Nat
      BY <1>1, NonesFinite
    <3>2. CASE queue'[r] = queue[r]
      BY <3>1, <3>2
    <3>3. CASE queue'[r] # queue[r]
      <4>1. /\ r = RoleOf(w) /\ queue[r] # <<>> /\ queue'[r] = Tail(queue[r])
            /\ Head(queue[r]) # None
        BY <1>1, <1>3, <3>3 DEF Block, TakeItem, CanGet, poolVars
      <4>2. Cardinality(Nones(Tail(queue[r]))) >= Cardinality(Nones(queue[r])) - 0
        BY <1>1, <4>1, TailNones
      <4>3. Cardinality(Nones(queue'[r])) >= Cardinality(Nones(queue[r])) - 0
        BY <4>1, <4>2
      <4> QED
        BY <3>1, <4>3
    <3> QED
      BY <3>2, <3>3
  <2> QED
    BY <2>1, <2>2, <2>3, CloseKept
<1>4. ASSUME NEW hs \in SUBSET Url, NEW es \in SUBSET Url, FinishItem(w, hs, es) PROVE CloseInv'
  <2> DEFINE new == Accepted(hs, es)
  <2>1. Fresh(new) /\ PutAll(new) /\ awaited' = awaited
    BY <1>4, AcceptedFresh DEF FinishItem, callerVars, Own
  <2>2. \A v \in Worker : pc'[v] # "off" <=> pc[v] # "off" \/ v \in Spawned(new)
    BY <1>1, <1>4 DEF FinishItem
  <2> HIDE DEF new
  <2>3. /\ \A r \in Role : Cardinality(Nones(queue'[r])) >= Cardinality(Nones(queue[r]))
        /\ \A v \in Spawned(new) : v \notin awaited /\ Alive(RoleOf(v)) = {}
    BY <2>1, ClosePut
  <2>4. \A r \in Role : Alive(r)' \subseteq Alive(r) \/ Alive(r) = {}
    BY <2>2, <2>3 DEF Alive
  <2>5. \A r \in Role : awaited' \cap Alive(r)' \subseteq awaited \cap Alive(r)
    BY <2>1, <2>2, <2>3 DEF Alive
  <2> QED
    BY <2>1, <2>3, <2>4, <2>5, CloseKept
<1>5. ASSUME NEW hs \in SUBSET Url, Crash(w, hs) PROVE CloseInv'
  <2> DEFINE new == Accepted(hs, {})
  <2>1. /\ Fresh(new) /\ PutAll(new) /\ awaited' = awaited \ {w}
        /\ pc' = [pc EXCEPT ![w] = "off"]
    BY <1>5, AcceptedFresh DEF Crash, Exit, Own
  <2> HIDE DEF new
  <2>2. \A r \in Role : Cardinality(Nones(queue'[r])) >= Cardinality(Nones(queue[r]))
    BY <2>1, ClosePut
  <2>3. \A r \in Role : Alive(r)' \subseteq Alive(r)
    BY <1>1, <2>1 DEF Alive
  <2>4. \A v \in awaited : v \in awaited' \/ pc'[v] = "off"
    BY <1>1, <2>1
  <2> QED
    BY <2>1, <2>2, <2>3, <2>4, CloseKept
<1>6. ASSUME TakeSentinel(w) PROVE CloseInv'
  <2> DEFINE r == RoleOf(w)
  <2>1. /\ r \in Role /\ queue[r] # <<>> /\ queue' = [queue EXCEPT ![r] = Tail(@)]
        /\ awaited' = awaited \ {w} /\ pc' = [pc EXCEPT ![w] = "off"]
        /\ pc[w] # "off" /\ graph' = graph
    BY <1>1, <1>6 DEF TakeSentinel, CanGet, Exit
  <2>2. ASSUME NEW q \in Role
        PROVE  Alive(q)' = (IF q = r THEN Alive(q) \ {w} ELSE Alive(q))
    BY <1>1, <2>1 DEF Alive
  <2>3. w \in Alive(r)
    BY <2>1 DEF Alive
  <2>4. ASSUME NEW q \in Role
        PROVE  Cardinality(Nones(queue'[q])) >= Cardinality(awaited' \cap Alive(q)')
    <3>1. Cardinality(Nones(queue[q])) >= Cardinality(awaited \cap Alive(q))
      BY DEF CloseInv, SentinelsSuffice, Nones
    <3>2. IsFiniteSet(awaited \cap Alive(q)) /\ IsFiniteSet(awaited' \cap Alive(q)')
      <4>1. IsFiniteSet(Alive(q)) /\ awaited' \cap Alive(q)' \subseteq Alive(q)
        BY <2>1, <2>2, WorkersFinite
      <4> QED
        BY <4>1, FS_Subset
    <3>3. queue'[q] \in Seq(Url \cup {None}) /\ queue[q] \in Seq(Url \cup {None})
      BY DEF Own, Typed
    <3>4. /\ Cardinality(awaited \cap Alive(q)) \in Nat /\ Cardinality(awaited' \cap Alive(q)') \in Nat
          /\ Cardinality(Nones(queue[q])) \in Nat /\ Cardinality(Nones(queue'[q])) \in Nat
      BY <3>2, <3>3, FS_CardinalityType, NonesFinite
    <3>5. CASE q # r
      <4>1. queue'[q] = queue[q]
        BY <1>1, <2>1, <3>5
      <4>2. w \notin Alive(q)
        BY <3>5 DEF Alive
      <4>3. awaited' \cap Alive(q)' = awaited \cap Alive(q)
        BY <2>1, <2>2, <3>5, <4>2
      <4> QED
        BY <3>1, <4>1, <4>3
    <3>6. CASE q = r /\ w \in awaited
      <4>1. awaited' \cap Alive(q)' = (awaited \cap Alive(q)) \ {w} /\ w \in awaited \cap Alive(q)
        BY <2>1, <2>2, <2>3, <3>6
      <4>2. Cardinality(awaited' \cap Alive(q)') = Cardinality(awaited \cap Alive(q)) - 1
        BY <3>2, <4>1, FS_RemoveElement, ZenonT(40)
      <4>3. queue'[q] = Tail(queue[q]) /\ queue[q] # <<>>
        BY <1>1, <2>1, <3>6
      <4>4. Cardinality(Nones(Tail(queue[q]))) >= Cardinality(Nones(queue[q])) - (IF Head(queue[q]) = None THEN 1 ELSE 0)
        BY <3>3, <4>3, TailNones
      <4>5. Cardinality(Nones(queue'[q])) >= Cardinality(Nones(queue[q])) - 1
        BY <3>4, <4>3, <4>4
      <4> QED
        BY <3>1, <3>4, <4>2, <4>5
    <3>7. CASE q = r /\ w \notin awaited
      <4>1. awaited \cap Alive(q) = {}
        BY <2>3, <3>7 DEF CloseInv, AllOrNone
      <4>2. awaited' \cap Alive(q)' = {}
        BY <2>1, <2>2, <4>1
      <4>3. Cardinality(awaited' \cap Alive(q)') = 0
        BY <4>2, FS_EmptySet
      <4> QED
        BY <3>4, <4>3
    <3> QED
      BY <3>5, <3>6, <3>7
  <2>5. SentinelsSuffice'
    BY <2>4 DEF SentinelsSuffice, Nones
  <2>6. ASSUME NEW q \in Role PROVE Alive(q)' \subseteq awaited' \/ awaited' \cap Alive(q)' = {}
    <3>1. Alive(q) \subseteq awaited \/ awaited \cap Alive(q) = {}
      BY DEF CloseInv, AllOrNone
    <3>2. w \notin Alive(q)'
      BY <1>1, <2>1 DEF Alive
    <3>3. Alive(q)' \subseteq Alive(q) /\ awaited' = awaited \ {w}
      BY <2>1, <2>2
    <3> QED
      BY <3>1, <3>2, <3>3
  <2>7. AllOrNone'
    BY <2>6 DEF AllOrNone
  <2> QED
    BY <2>5, <2>7 DEF CloseInv
<1> QED
  BY <1>2, <1>3, <1>4, <1>5, <1>6 DEF WorkerStep, Gives

(* aclose begins, and the control room cancels meanwhile.                  *)
LEMMA CloseNext == Own /\ Own' /\ CloseInv /\ [Next]_vars => CloseInv'
<1> SUFFICES ASSUME Own, Own', CloseInv, [Next]_vars, graph' = "closing" PROVE CloseInv'
  BY DEF CloseInv, SentinelsSuffice, AllOrNone
<1>1. ASSUME NEW w \in Worker, WorkerStep(w) PROVE CloseInv'
  <2>1. graph = "closing"
    BY <1>1 DEF WorkerStep, AbortAtTop, Block, TakeItem, TakeSentinel, FinishItem, Crash, AgentCancelled,
       Kill, Exit, callerVars
  <2> QED
    BY <1>1, <2>1, CloseWorker
<1>2. ASSUME BeginClose PROVE CloseInv'
  <2>1. queue' = WithSentinels /\ awaited' = LiveTasks /\ pc' = pc
    BY <1>2 DEF BeginClose, workerVars
  <2>2. \A r \in Role : Alive(r)' = Alive(r) /\ awaited' \cap Alive(r)' = Alive(r)
    BY <2>1 DEF Alive, LiveTasks, Role
  <2>3. \A r \in Role : live[r] = Cardinality(Alive(r))
    BY DEF Own, LiveCount
  <2>4. \A r \in Role : Cardinality(Nones(queue'[r])) >= live[r]
    BY <2>1, CloseSentinels
  <2>5. SentinelsSuffice'
    BY <2>2, <2>3, <2>4 DEF SentinelsSuffice, Nones
  <2>6. AllOrNone'
    BY <2>2 DEF AllOrNone
  <2> QED
    BY <2>5, <2>6 DEF CloseInv
<1>3. ASSUME ControlStep \/ UNCHANGED vars PROVE CloseInv'
  <2>1. graph = "closing" /\ pc' = pc /\ awaited' = awaited /\ (queue' = queue \/ queue' = WithSentinels)
    BY <1>3 DEF ControlStep, RequestCancel, HookCancel, HookTimeout, HookDone, CancelTask, vars, poolVars,
       workerVars, callerVars, Role
  <2>2. \A r \in Role : Alive(r)' = Alive(r)
    BY <2>1 DEF Alive
  <2>3. ASSUME NEW r \in Role PROVE Cardinality(Nones(queue'[r])) >= Cardinality(Nones(queue[r]))
    <3>1. queue[r] \in Seq(Url \cup {None})
      BY DEF Own, Typed
    <3>2. Cardinality(Nones(queue[r])) \in Nat
      BY <3>1, NonesFinite
    <3> QED
      BY <2>1, <3>2, CloseSentinels
  <2> QED
    BY <2>1, <2>2, <2>3, CloseKept
<1>4. ASSUME GraphStep, ~BeginClose PROVE FALSE
  <2>1. \A r \in Role : r # "closing"
    BY DEF Role, Hosting, Embedded
  <2> QED
    BY <1>4, <2>1 DEF GraphStep, Produce, BeginDrain, StartDrain, EndDrain, FailDrain, LeaveGraph, Reap, callerVars
<1>5. ~Finished
  BY DEF Finished, vars, callerVars
<1> QED
  BY <1>1, <1>2, <1>3, <1>4, <1>5 DEF Next

(* No drainer and no aclose is left waiting for a worker that sleeps or    *)
(* has gone (_check_drained, request_stop, cancel).                        *)
THEOREM NobodyWaitsForEver == Spec => []NoneWaitsForEver
<1>1. Init => CloseInv
  BY DEF Init, CloseInv, SentinelsSuffice, AllOrNone
<1>2. DrainInv /\ CloseInv => NoneWaitsForEver
  BY DEF DrainInv, CloseInv, NoneWaitsForEver
<1> QED
  BY <1>1, <1>2, CloseNext, OwnInvariant, DrainInvariant, PTL DEF Spec

-----------------------------------------------------------------------------
(* The pools implement the ledger.                                         *)

Waiting == Queued(Hosting) \cup Queued(Embedded)

(* The five places a URL can be in, and nowhere else.                      *)
PlacesDiffer ==
  /\ Waiting \subseteq seen /\ Running \subseteq seen /\ results \subseteq seen
  /\ folded \subseteq results /\ seen \subseteq Url
  /\ Waiting \cap Running = {} /\ Waiting \cap results = {} /\ Running \cap results = {}
  /\ buffer[Hosting] \cup buffer[Embedded] \subseteq results \ folded

LEMMA PlacesAre == Own /\ ConsumedOnce => PlacesDiffer
BY DEF Own, Typed, Known, OneOwner, ConsumedOnce, PlacesDiffer, Waiting, Role

LEMMA PlacesNext == (Own /\ ConsumedOnce => PlacesDiffer)'
BY PlacesAre, PTL

(* The place tells the stage.                                              *)
StagesTell ==
  \A u \in Url :
    /\ u \notin seen => StageOf(u) = "unseen"
    /\ u \in Waiting => StageOf(u) = "queued"
    /\ u \in Running => StageOf(u) = "running"
    /\ u \in folded => StageOf(u) = "folded"
    /\ u \in results \ folded => StageOf(u) = "reported"
    /\ u \in seen \ (Waiting \cup Running \cup results) => StageOf(u) = "lost"

LEMMA StagesAre == PlacesDiffer => StagesTell
BY DEF PlacesDiffer, StagesTell, StageOf, Waiting

LEMMA StagesNext == (PlacesDiffer => StagesTell)'
BY StagesAre, PTL

LedgerFacts == Own /\ PlacesDiffer /\ StagesTell

(* A URL that keeps its place keeps its stage.                             *)
LEMMA SameStage ==
  ASSUME LedgerFacts, LedgerFacts', NEW u \in Url,
         u \in seen' <=> u \in seen, u \in Waiting' <=> u \in Waiting, u \in Running' <=> u \in Running,
         u \in folded' <=> u \in folded, u \in results' <=> u \in results
  PROVE  StageOf(u)' = StageOf(u)
<1>1. \/ u \notin seen \/ u \in Waiting \/ u \in Running \/ u \in folded \/ u \in results \ folded
      \/ u \in seen \ (Waiting \cup Running \cup results)
  OBVIOUS
<1> QED
  BY <1>1 DEF LedgerFacts, PlacesDiffer, StagesTell

(* A worker reports a URL, and what it hands over is queued.               *)
LEMMA LedgerReport ==
  ASSUME LedgerFacts, LedgerFacts', NEW w \in Worker, NEW hs \in SUBSET Url, NEW es \in SUBSET Url,
         FinishItem(w, hs, es) \/ Crash(w, hs)
  PROVE  \E u \in Url, S \in SUBSET Url : Ledger!Report(u, S)
<1> PICK u : u = item[w]
  OBVIOUS
<1>1. /\ u \in Running /\ results' = results \cup {u} /\ folded' = folded /\ Running' = Running \ {u}
  BY ReportEffect DEF LedgerFacts
<1>2. PICK new : /\ Fresh(new) /\ PutAll(new) /\ (cancelled => \A r \in Role : new[r] = {})
  BY AcceptedFresh DEF FinishItem, Crash, LedgerFacts, Own
<1>3. cancelled' = cancelled
  BY DEF FinishItem, Crash, stopVars
<1> DEFINE S == new[Hosting] \cup new[Embedded]
<1>4. /\ seen' = seen \cup S /\ S \in SUBSET Url /\ S \cap seen = {} /\ (cancelled => S = {})
      /\ Waiting' = Waiting \cup S
  <2>1. Hosting \in Role /\ Embedded \in Role
    BY DEF Role
  <2> QED
    BY <1>2, <2>1, PutAllEffect DEF Waiting, Fresh, LedgerFacts
<1> HIDE DEF S
<1>5. u \in Url /\ u \in seen /\ u \notin Waiting /\ u \notin folded
  BY <1>1 DEF LedgerFacts, PlacesDiffer
<1>6. StageOf(u) = "running" /\ StageOf(u)' = "reported"
  BY <1>1, <1>5 DEF LedgerFacts, StagesTell
<1>7. \A v \in S : StageOf(v) = "unseen" /\ StageOf(v)' = "queued"
  BY <1>4 DEF LedgerFacts, StagesTell
<1>8. ASSUME NEW v \in Url, v # u, v \notin S PROVE StageOf(v)' = StageOf(v)
  BY <1>1, <1>4, <1>8, SameStage
<1>9. u \notin S
  BY <1>4, <1>5
<1>10. Ledger!Report(u, S)
  BY <1>3, <1>4, <1>5, <1>6, <1>7, <1>8, <1>9 DEF Ledger!Report, Ledger!All, Ledger!Move
<1> QED
  BY <1>4, <1>5, <1>10

(* A node queues URLs, or nothing in a cancelled run.                      *)
LEMMA LedgerPut ==
  ASSUME LedgerFacts, LedgerFacts', NEW us \in SUBSET Url, NEW r \in Role, Produce(us) \/ StartDrain(r, us)
  PROVE  (\E S \in SUBSET Url : Ledger!Submit(S)) \/ UNCHANGED Ledger!vars
<1>1. PICK new : /\ Fresh(new) /\ PutAll(new) /\ (cancelled => \A q \in Role : new[q] = {})
  <2>1. /\ Fresh(Accepted(us, {})) /\ (cancelled => \A q \in Role : Accepted(us, {})[q] = {})
        /\ Fresh(Accepted({}, us)) /\ (cancelled => \A q \in Role : Accepted({}, us)[q] = {})
    BY AcceptedFresh DEF LedgerFacts, Own
  <2> QED
    BY <2>1 DEF Produce, StartDrain
<1>2. /\ results' = results /\ folded' = folded /\ Running' = Running /\ cancelled' = cancelled
  BY PutEffect DEF Produce, StartDrain, stopVars, LedgerFacts
<1> DEFINE S == new[Hosting] \cup new[Embedded]
<1>3. /\ seen' = seen \cup S /\ S \in SUBSET Url /\ S \cap seen = {} /\ (cancelled => S = {})
      /\ Waiting' = Waiting \cup S
  <2>1. Hosting \in Role /\ Embedded \in Role
    BY DEF Role
  <2> QED
    BY <1>1, <2>1, PutAllEffect DEF Waiting, Fresh, LedgerFacts
<1> HIDE DEF S
<1>4. \A v \in S : StageOf(v) = "unseen" /\ StageOf(v)' = "queued"
  BY <1>3 DEF LedgerFacts, StagesTell
<1>5. ASSUME NEW v \in Url, v \notin S PROVE StageOf(v)' = StageOf(v)
  BY <1>2, <1>3, <1>5, SameStage
<1>6. CASE cancelled
  BY <1>2, <1>3, <1>5, <1>6 DEF Ledger!vars
<1>7. CASE ~cancelled
  <2>1. Ledger!Submit(S)
    BY <1>2, <1>3, <1>4, <1>5, <1>7 DEF Ledger!Submit, Ledger!All, Ledger!Move
  <2> QED
    BY <1>3, <2>1
<1> QED
  BY <1>6, <1>7

(* A worker starts a URL.                                                  *)
LEMMA LedgerTake ==
  ASSUME LedgerFacts, LedgerFacts', NEW w \in Worker, TakeItem(w)
  PROVE  \E u \in Url : Ledger!Start(u)
<1> PICK r, u : r = RoleOf(w) /\ u = Head(queue[r])
  OBVIOUS
<1>1. r \in Role /\ (r = Hosting \/ r = Embedded) /\ Hosting \in Role /\ Embedded \in Role
  BY DEF Worker, RoleOf, Role
<1>2. u \in Queued(r) /\ \A q \in Role : Queued(q)' = IF q = r THEN Queued(q) \ {u} ELSE Queued(q)
  BY <1>1, TailEffect DEF TakeItem, CanGet, LedgerFacts
<1>3. /\ \A v \in Worker : v # w => pc'[v] = pc[v] /\ item'[v] = item[v]
      /\ pc'[w] = "busy" /\ item'[w] = u /\ pc[w] # "busy"
  BY DEF Own, Typed, TakeItem, CanGet, LedgerFacts
<1>4. seen' = seen /\ results' = results /\ folded' = folded /\ cancelled' = cancelled
  BY DEF TakeItem, resultVars, stopVars
<1>5. Queued(Hosting) \cap Queued(Embedded) = {}
  BY DEF LedgerFacts, Own, OneOwner
<1>6. Running' = Running \cup {u}
  BY <1>3 DEF Running
<1>7. u \in Waiting /\ Waiting' = Waiting \ {u} /\ u \in Url
  BY <1>1, <1>2, <1>5 DEF Waiting, LedgerFacts, PlacesDiffer
<1>8. StageOf(u) = "queued" /\ StageOf(u)' = "running"
  BY <1>6, <1>7 DEF LedgerFacts, StagesTell
<1>9. ASSUME NEW v \in Url, v # u PROVE StageOf(v)' = StageOf(v)
  BY <1>4, <1>6, <1>7, <1>9, SameStage
<1>10. Ledger!Start(u)
  BY <1>4, <1>7, <1>8, <1>9 DEF Ledger!Start
<1> QED
  BY <1>7, <1>10

(* A worker that leaves loses the URL it held, in a run that is cancelled. *)
LEMMA LedgerGives ==
  ASSUME LedgerFacts, LedgerFacts', HookAfter, NEW w \in Worker, Gives(w)
  PROVE  (\E u \in Url : Ledger!Lose(u)) \/ Ledger!Stop
<1>1. /\ cancelled' = TRUE /\ results' = results /\ folded' = folded /\ seen' = seen /\ queue' = queue
  BY GivesCancelled DEF LedgerFacts
<1>2. /\ pc'[w] # "busy" /\ \A v \in Worker : v # w => pc'[v] = pc[v] /\ item'[v] = item[v]
  BY DEF Gives, AbortAtTop, AgentCancelled, Kill, Exit, LedgerFacts, Own, Typed
<1>3. Waiting' = Waiting
  BY <1>1 DEF Waiting, Queued
<1>4. CASE pc[w] = "busy"
  <2> PICK u : u = item[w]
    OBVIOUS
  <2>1. u \in Running
    BY <1>4 DEF Running
  <2>2. \A v \in Worker : v # w /\ pc[v] = "busy" => item[v] # u
    BY <1>4 DEF LedgerFacts, Own, OneOwner
  <2>3. Running' = Running \ {u}
    BY <1>2, <1>4, <2>2 DEF Running
  <2>4. u \in Url /\ StageOf(u) = "running" /\ StageOf(u)' = "lost"
    BY <1>1, <1>3, <2>1, <2>3 DEF LedgerFacts, PlacesDiffer, StagesTell
  <2>5. ASSUME NEW v \in Url, v # u PROVE StageOf(v)' = StageOf(v)
    BY <1>1, <1>3, <2>3, <2>5, SameStage
  <2>6. Ledger!Lose(u)
    BY <1>1, <2>4, <2>5 DEF Ledger!Lose
  <2> QED
    BY <2>4, <2>6
<1>5. CASE pc[w] # "busy"
  <2>1. Running' = Running
    BY <1>2, <1>5 DEF Running
  <2>2. ASSUME NEW v \in Url PROVE StageOf(v)' = StageOf(v)
    BY <1>1, <1>3, <2>1, SameStage
  <2>3. Ledger!Stop
    BY <1>1, <2>2 DEF Ledger!Stop
  <2> QED
    BY <2>3
<1> QED
  BY <1>4, <1>5

(* A drain that ends folds what was reported.                              *)
LEMMA LedgerFold ==
  ASSUME LedgerFacts, LedgerFacts', NEW r \in Role, EndDrain(r)
  PROVE  \E S \in SUBSET Url : Ledger!Fold(S)
<1> PICK S : S = buffer[r]
  OBVIOUS
<1>1. /\ ~cancelled /\ cancelled' = cancelled /\ seen' = seen /\ results' = results
      /\ queue' = queue /\ pc' = pc /\ item' = item /\ folded' = folded \cup S
  BY DEF EndDrain, Consume, poolVars, stopVars, workerVars
<1>2. S \subseteq results \ folded /\ S \in SUBSET Url
  BY DEF LedgerFacts, PlacesDiffer, Role
<1>3. Waiting' = Waiting /\ Running' = Running
  BY <1>1 DEF Waiting, Queued, Running
<1>4. \A v \in S : StageOf(v) = "reported" /\ StageOf(v)' = "folded"
  BY <1>1, <1>2 DEF LedgerFacts, StagesTell
<1>5. ASSUME NEW v \in Url, v \notin S PROVE StageOf(v)' = StageOf(v)
  BY <1>1, <1>3, <1>5, SameStage
<1>6. Ledger!Fold(S)
  BY <1>1, <1>2, <1>4, <1>5 DEF Ledger!Fold, Ledger!All, Ledger!Move
<1> QED
  BY <1>2, <1>6

(* A step that moves no URL may cancel the run.                            *)
LEMMA LedgerQuiet ==
  ASSUME LedgerFacts, LedgerFacts', Quiet
  PROVE  Ledger!Stop \/ UNCHANGED Ledger!vars
<1>1. /\ seen' = seen /\ results' = results /\ folded' = folded /\ Waiting' = Waiting /\ Running' = Running
  BY QuietEffect DEF LedgerFacts, Waiting, Role
<1>2. cancelled' = cancelled \/ cancelled' = TRUE
  BY DEF Quiet, Block, TakeSentinel, FailDrain, LeaveGraph, BeginClose, Reap, ControlStep, RequestCancel,
         HookCancel, HookTimeout, HookDone, CancelTask, vars, stopVars
<1>3. ASSUME NEW v \in Url PROVE StageOf(v)' = StageOf(v)
  BY <1>1, SameStage
<1> QED
  BY <1>2, <1>3 DEF Ledger!Stop, Ledger!vars

(* Every step of the pools is a step of the ledger, or none.               *)
LEMMA LedgerNext == Own /\ Own' /\ ResultInv /\ ResultInv' /\ [Next]_vars => [Ledger!Next]_(Ledger!vars)
<1> SUFFICES ASSUME Own, Own', ResultInv, ResultInv', [Next]_vars
             PROVE  Ledger!Next \/ UNCHANGED Ledger!vars
  OBVIOUS
<1>1. LedgerFacts /\ LedgerFacts' /\ HookAfter
  BY PlacesAre, PlacesNext, StagesAre, StagesNext DEF LedgerFacts, ResultInv
<1>2. ASSUME NEW w \in Worker, Gives(w) PROVE Ledger!Next
  BY <1>1, <1>2, LedgerGives DEF Ledger!Next
<1>3. ASSUME NEW w \in Worker, TakeItem(w) PROVE Ledger!Next
  BY <1>1, <1>3, LedgerTake DEF Ledger!Next
<1>4. ASSUME NEW w \in Worker, NEW hs \in SUBSET Url, NEW es \in SUBSET Url, FinishItem(w, hs, es) \/ Crash(w, hs)
      PROVE  Ledger!Next
  BY <1>1, <1>4, LedgerReport DEF Ledger!Next
<1>5. ASSUME NEW us \in SUBSET Url, NEW r \in Role, Produce(us) \/ BeginDrain(r, us)
      PROVE  Ledger!Next \/ UNCHANGED Ledger!vars
  BY <1>1, <1>5, LedgerPut DEF Ledger!Next, BeginDrain
<1>6. ASSUME NEW r \in Role, EndDrain(r) PROVE Ledger!Next
  BY <1>1, <1>6, LedgerFold DEF Ledger!Next
<1>7. CASE Quiet
  BY <1>1, <1>7, LedgerQuiet DEF Ledger!Next
<1>8. {} \in SUBSET Url /\ Hosting \in Role
  BY DEF Role
<1> QED
  BY <1>2, <1>3, <1>4, <1>5, <1>6, <1>7, <1>8, StepKinds

(* The pools keep the books of UrlLedger: whatever the interleaving, a URL *)
(* is queued once, run once and folded once, and lost only in a run that is*)
(* being cancelled (enqueue, _worker_loop, consume_results).               *)
THEOREM PoolsImplementLedger == Spec => ImplementsLedger
<1>1. Init => Ledger!Init
  <2> SUFFICES ASSUME Init PROVE Ledger!Init
    OBVIOUS
  <2>1. seen = {} /\ results = {} /\ folded = {} /\ cancelled = FALSE
    BY DEF Init
  <2>2. Running = {} /\ Queued(Hosting) = {} /\ Queued(Embedded) = {}
    BY DEF Init, Running, Queued, ToSet, Role
  <2>3. \A u \in Url : StageOf(u) = "unseen"
    BY <2>1, <2>2 DEF StageOf
  <2> QED
    BY <2>1, <2>3 DEF Ledger!Init
<1>2. Init => ResultInv
  <2> SUFFICES ASSUME Init PROVE ResultInv
    OBVIOUS
  <2>1. Running = {} /\ \A r \in Role : Queued(r) = {} /\ buffer[r] = {}
    BY DEF Init, Running, Queued, ToSet
  <2> QED
    BY <2>1 DEF Init, ResultInv, HookAfter, NothingLost, ConsumedOnce, Role
<1> QED
  BY <1>1, <1>2, ResultStep, LedgerNext, OwnInvariant, PTL DEF Spec, ImplementsLedger, Ledger!Spec
=============================================================================
