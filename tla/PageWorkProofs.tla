--------------------------- MODULE PageWorkProofs ---------------------------
(***************************************************************************)
(* For any pages, agents, tools and requests: the safety of the work on    *)
(* pages and of what is made of it.                                        *)
(*   SessionsAreSafe   ToolSessions, by ToolInv                            *)
(*   RowsAreTrue       AgentRows,    by RowsInv                            *)
(*   EvidenceIsSafe    Evidence,     by EvidenceInv                        *)
(*   ToolsAreSafe      PageTools,    by TabInv                             *)
(*   WorkIsSafe        WorkingMemory, by WorkInv                           *)
(***************************************************************************)
EXTENDS ToolSessions, AgentRows, Evidence, PageTools, WorkingMemory,
        FiniteSetTheorems, SequenceTheorems, WellFoundedInduction, TLAPS

-----------------------------------------------------------------------------
(* Tool sessions.  An open session has one owner that will close it, a     *)
(* request begins its call on a session that is alive, and shutdown leaves *)
(* none open.  SessionsOwned is not inductive: closing a session is sound  *)
(* only if nobody else has it.  ToolInv adds that the owners are distinct  *)
(* (OneHolder), in which condition each of them holds its session          *)
(* (Holding), and that at shutdown no request is left.                     *)

Owning == {"opening", "store", "exit"}

\* The kept session can be used; an owner's session is in the state its stage
\* says.
Holding ==
    /\ kept # NoSession => conn[kept] \in {"open", "broken"}
    /\ \A c \in Callers :
          /\ toolStage[c] \in Owning => inHand[c] \in Connections
          /\ toolStage[c] = "opening" => conn[inHand[c]] = "opening"
          /\ toolStage[c] \in {"store", "exit"} => conn[inHand[c]] \in {"open", "broken"}

\* What an owner has in hand is in no other hands, and not kept.
OneHolder ==
    \A c \in Callers : toolStage[c] \in Owning =>
        /\ inHand[c] # kept
        /\ \A d \in Callers : toolStage[d] \in Owning /\ inHand[d] = inHand[c] => d = c

AtRest == closing => kept = NoSession /\ \A c \in Callers : toolStage[c] = "away"

ToolInv == ToolTypeOK /\ SessionsOwned /\ Holding /\ OneHolder /\ AtRest

\* No session is 0.
LEMMA NotASession == NoSession \notin Connections
BY DEF NoSession, Connections

\* The pool of sessions starts empty.
LEMMA ToolStart == ToolInit => ToolInv
<1> SUFFICES ASSUME ToolInit PROVE ToolInv
  OBVIOUS
<1>1. ToolTypeOK
  BY DEF ToolInit, ToolTypeOK, Stages
<1>2. \A c \in Callers : toolStage[c] \notin Owning
  BY DEF ToolInit, Owning
<1>3. SessionsOwned
  BY DEF ToolInit, SessionsOwned, Alive
<1>4. Holding /\ OneHolder /\ AtRest
  BY <1>2 DEF Holding, OneHolder, AtRest, ToolInit, Owning
<1> QED
  BY <1>1, <1>3, <1>4 DEF ToolInv

\* The stages a failed call continues with own nothing.
LEMMA FailureLeadsOn ==
    ASSUME ToolTypeOK, NEW c \in Callers, AfterFailure(c)
    PROVE  /\ toolStage' \in [Callers -> Stages] /\ try' \in [Callers -> {1, 2}]
           /\ toolStage'[c] \in {"expire", "look", "away"}
           /\ \A d \in Callers : d # c => toolStage'[d] = toolStage[d]
<1>1. Swept \in {"expire", "look"}
  BY DEF Swept
<1>2. toolStage' \in {[toolStage EXCEPT ![c] = Swept], [toolStage EXCEPT ![c] = "away"]}
      /\ try' \in {[try EXCEPT ![c] = 1], [try EXCEPT ![c] = 2]}
  BY DEF AfterFailure
<1>3. toolStage \in [Callers -> Stages] /\ try \in [Callers -> {1, 2}]
  BY DEF ToolTypeOK
<1>4. Swept \in Stages /\ "away" \in Stages
  BY <1>1 DEF Stages
<1> HIDE DEF Swept
<1> QED
  BY <1>1, <1>2, <1>3, <1>4

\* A request that comes or goes on without a session of its own, on the kept
\* one or on none.
LEMMA GoesOn ==
    ASSUME ToolInv, ~closing, NEW c \in Callers,
           toolStage[c] \notin Owning, toolStage'[c] \notin Owning,
           toolStage' \in [Callers -> Stages], try' \in [Callers -> {1, 2}],
           inHand' \in [Callers -> Connections \cup {NoSession}], expired' \in BOOLEAN,
           \A d \in Callers : d # c => toolStage'[d] = toolStage[d] /\ inHand'[d] = inHand[d],
           kept' = kept, conn' = conn, closing' = closing
    PROVE  ToolInv'
<1>1. ToolTypeOK'
  BY DEF ToolInv, ToolTypeOK
<1>2. \A d \in Callers : toolStage'[d] \in Owning =>
         d # c /\ toolStage[d] = toolStage'[d] /\ inHand'[d] = inHand[d]
  OBVIOUS
<1>3. \A d \in Callers : toolStage[d] \in Owning =>
         toolStage'[d] = toolStage[d] /\ inHand'[d] = inHand[d]
  OBVIOUS
<1>4. SessionsOwned'
  BY <1>3 DEF ToolInv, SessionsOwned, Alive, Owning
<1>5. Holding'
  BY <1>2 DEF ToolInv, Holding, Owning
<1>6. OneHolder'
  BY <1>2 DEF ToolInv, OneHolder
<1>7. AtRest'
  BY DEF AtRest
<1> QED
  BY <1>1, <1>4, <1>5, <1>6, <1>7 DEF ToolInv

\* An owner that closes the session it has in hand, or failed to open.
LEMMA Closes ==
    ASSUME ToolInv, ~closing, NEW c \in Callers,
           toolStage[c] \in Owning, toolStage'[c] \notin Owning,
           toolStage' \in [Callers -> Stages], try' \in [Callers -> {1, 2}],
           \A d \in Callers : d # c => toolStage'[d] = toolStage[d],
           inHand' = [inHand EXCEPT ![c] = NoSession],
           conn' = [conn EXCEPT ![inHand[c]] = "closed"],
           kept' = kept, expired' = expired, closing' = closing
    PROVE  ToolInv'
<1>1. inHand[c] \in Connections /\ inHand[c] # kept
  BY DEF ToolInv, Holding, OneHolder
<1>2. /\ conn'[inHand[c]] = "closed"
      /\ \A s \in Connections : s # inHand[c] => conn'[s] = conn[s]
      /\ conn' \in [Connections -> {"new", "opening", "open", "broken", "closed"}]
  BY <1>1 DEF ToolInv, ToolTypeOK
<1>3. /\ inHand' \in [Callers -> Connections \cup {NoSession}]
      /\ \A d \in Callers : d # c => inHand'[d] = inHand[d]
  BY DEF ToolInv, ToolTypeOK
<1>4. ToolTypeOK'
  BY <1>2, <1>3 DEF ToolInv, ToolTypeOK
<1>5. \A d \in Callers : toolStage'[d] \in Owning =>
         /\ d # c /\ toolStage[d] = toolStage'[d] /\ inHand'[d] = inHand[d]
         /\ inHand[d] \in Connections /\ inHand[d] # inHand[c]
  BY <1>3 DEF ToolInv, OneHolder, Holding
<1>6. SessionsOwned'
  <2> SUFFICES ASSUME NEW s \in Connections, conn'[s] \in {"opening", "open", "broken"}
               PROVE  \/ kept' = s
                      \/ \E d \in Callers : inHand'[d] = s /\ toolStage'[d] \in {"opening", "store", "exit"}
    BY DEF SessionsOwned, Alive
  <2>1. s # inHand[c] /\ conn[s] \in {"opening", "open", "broken"}
    BY <1>2
  <2>2. \/ kept = s
        \/ \E d \in Callers : inHand[d] = s /\ toolStage[d] \in {"opening", "store", "exit"}
    BY <2>1 DEF ToolInv, SessionsOwned, Alive
  <2> QED
    BY <1>3, <2>1, <2>2
<1>7. Holding'
  <2>1. kept' # NoSession => conn'[kept'] \in {"open", "broken"}
    BY <1>1, <1>2 DEF ToolInv, Holding, ToolTypeOK
  <2> QED
    BY <1>2, <1>5, <2>1 DEF ToolInv, Holding, Owning
<1>8. OneHolder'
  BY <1>5 DEF ToolInv, OneHolder
<1>9. AtRest'
  BY DEF AtRest
<1> QED
  BY <1>4, <1>6, <1>7, <1>8, <1>9 DEF ToolInv

\* The kept session becomes the one of the request that closes it.
LEMMA TakeKeeps ==
    ASSUME ToolInv, ~closing, NEW c \in Callers, TakeExpired(c)
    PROVE  ToolInv'
<1>1. CASE kept = NoSession
  <2>1. /\ toolStage[c] = "expire" /\ toolStage' = [toolStage EXCEPT ![c] = "look"]
        /\ inHand' = [inHand EXCEPT ![c] = NoSession] /\ kept' = kept /\ conn' = conn
        /\ expired' = FALSE /\ try' = try /\ closing' = closing
    BY <1>1 DEF TakeExpired, At, AfterTaking
  <2>2. /\ toolStage' \in [Callers -> Stages] /\ try' \in [Callers -> {1, 2}]
        /\ inHand' \in [Callers -> Connections \cup {NoSession}]
        /\ toolStage'[c] = "look"
        /\ \A d \in Callers : d # c => toolStage'[d] = toolStage[d] /\ inHand'[d] = inHand[d]
    BY <2>1 DEF ToolInv, ToolTypeOK, Stages
  <2> QED
    BY <2>1, <2>2, GoesOn DEF Owning
<1>2. CASE kept # NoSession
  <2>1. /\ toolStage[c] = "expire" /\ toolStage' = [toolStage EXCEPT ![c] = "exit"]
        /\ inHand' = [inHand EXCEPT ![c] = kept] /\ kept' = NoSession /\ conn' = conn
        /\ expired' = FALSE /\ try' = try /\ closing' = closing
    BY <1>2 DEF TakeExpired, At, AfterTaking
  <2>2. /\ kept \in Connections /\ conn[kept] \in {"open", "broken"} /\ NoSession \notin Connections
    BY <1>2, NotASession DEF ToolInv, ToolTypeOK, Holding
  <2>3. /\ toolStage'[c] = "exit" /\ inHand'[c] = kept
        /\ \A d \in Callers : d # c => toolStage'[d] = toolStage[d] /\ inHand'[d] = inHand[d]
    BY <2>1 DEF ToolInv, ToolTypeOK
  <2>4. ToolTypeOK'
    BY <2>1, <2>2 DEF ToolInv, ToolTypeOK, Stages
  <2>5. SessionsOwned'
    BY <2>1, <2>3 DEF ToolInv, SessionsOwned, Alive
  <2>6. Holding'
    BY <2>1, <2>2, <2>3 DEF ToolInv, Holding, Owning
  <2>7. OneHolder'
    BY <2>1, <2>2, <2>3 DEF ToolInv, OneHolder, Holding, Owning
  <2> QED
    BY <2>1, <2>4, <2>5, <2>6, <2>7 DEF ToolInv, AtRest
<1> QED
  BY <1>1, <1>2

\* A session that was never opened is opened by one request.
LEMMA OpenKeeps ==
    ASSUME ToolInv, ~closing, NEW c \in Callers, Open(c) \/ Opened(c)
    PROVE  ToolInv'
<1>1. CASE Open(c)
  <2>1. PICK s \in Unopened : conn' = [conn EXCEPT ![s] = "opening"] /\ inHand' = [inHand EXCEPT ![c] = s]
    BY <1>1 DEF Open
  <2>2. /\ toolStage[c] = "look" /\ toolStage' = [toolStage EXCEPT ![c] = "opening"]
        /\ kept' = kept /\ kept = NoSession /\ expired' = expired /\ try' = try /\ closing' = closing
    BY <1>1 DEF Open, At
  <2>3. s \in Connections /\ conn[s] = "new"
    BY DEF Unopened
  <2>4. /\ toolStage'[c] = "opening" /\ inHand'[c] = s /\ conn'[s] = "opening"
        /\ \A d \in Callers : d # c => toolStage'[d] = toolStage[d] /\ inHand'[d] = inHand[d]
        /\ \A t \in Connections : t # s => conn'[t] = conn[t]
    BY <2>1, <2>2, <2>3 DEF ToolInv, ToolTypeOK
  <2>5. ToolTypeOK'
    BY <2>1, <2>2, <2>3 DEF ToolInv, ToolTypeOK, Stages
  <2>6. \A d \in Callers : d # c /\ toolStage[d] \in Owning => inHand[d] \in Connections /\ inHand[d] # s
    BY <2>3 DEF ToolInv, Holding, Owning
  <2>7. SessionsOwned'
    BY <2>2, <2>4 DEF ToolInv, SessionsOwned, Alive
  <2>8. Holding'
    BY <2>2, <2>3, <2>4, <2>6 DEF ToolInv, Holding, Owning
  <2>9. OneHolder'
    BY <2>2, <2>3, <2>4, <2>6, NotASession DEF ToolInv, OneHolder, Owning
  <2> QED
    BY <2>2, <2>5, <2>7, <2>8, <2>9 DEF ToolInv, AtRest
<1>2. CASE Opened(c)
  <2>1. /\ toolStage[c] = "opening" /\ toolStage' = [toolStage EXCEPT ![c] = "store"]
        /\ conn' = [conn EXCEPT ![inHand[c]] = "open"]
        /\ kept' = kept /\ inHand' = inHand /\ expired' = expired /\ try' = try /\ closing' = closing
    BY <1>2 DEF Opened, At
  <2>2. inHand[c] \in Connections /\ conn[inHand[c]] = "opening" /\ inHand[c] # kept
    BY <2>1 DEF ToolInv, Holding, OneHolder, Owning
  <2>3. /\ toolStage'[c] = "store" /\ conn'[inHand[c]] = "open"
        /\ \A d \in Callers : d # c => toolStage'[d] = toolStage[d]
        /\ \A t \in Connections : t # inHand[c] => conn'[t] = conn[t]
    BY <2>1, <2>2 DEF ToolInv, ToolTypeOK
  <2>4. ToolTypeOK'
    BY <2>1, <2>2 DEF ToolInv, ToolTypeOK, Stages
  <2>5. \A d \in Callers : d # c /\ toolStage[d] \in Owning => inHand[d] # inHand[c] /\ inHand[d] \in Connections
    BY <2>1 DEF ToolInv, OneHolder, Holding, Owning
  <2>6. SessionsOwned'
    BY <2>1, <2>2, <2>3 DEF ToolInv, SessionsOwned, Alive
  <2>7. Holding'
    <3>1. kept' # NoSession => conn'[kept'] \in {"open", "broken"}
      BY <2>1, <2>2, <2>3 DEF ToolInv, Holding, ToolTypeOK
    <3> QED
      BY <2>1, <2>2, <2>3, <2>5, <3>1 DEF ToolInv, Holding, Owning
  <2>8. OneHolder'
    BY <2>1, <2>3, <2>5 DEF ToolInv, OneHolder, Owning
  <2> QED
    BY <2>1, <2>4, <2>6, <2>7, <2>8 DEF ToolInv, AtRest
<1> QED
  BY <1>1, <1>2

\* The session a request opened is kept, if none is.
LEMMA KeepKeeps ==
    ASSUME ToolInv, ~closing, NEW c \in Callers, Keep(c)
    PROVE  ToolInv'
<1>1. /\ kept = NoSession /\ toolStage[c] = "store" /\ toolStage' = [toolStage EXCEPT ![c] = "call"]
      /\ kept' = inHand[c] /\ expired' = FALSE
      /\ conn' = conn /\ inHand' = inHand /\ try' = try /\ closing' = closing
  BY DEF Keep, MayKeep, At
<1>2. inHand[c] \in Connections /\ conn[inHand[c]] \in {"open", "broken"}
  BY <1>1 DEF ToolInv, Holding, Owning
<1>3. toolStage'[c] = "call" /\ \A d \in Callers : d # c => toolStage'[d] = toolStage[d]
  BY <1>1 DEF ToolInv, ToolTypeOK
<1>4. ToolTypeOK'
  BY <1>1, <1>2 DEF ToolInv, ToolTypeOK, Stages
<1>5. \A d \in Callers : d # c /\ toolStage[d] \in Owning => inHand[d] # inHand[c]
  BY <1>1 DEF ToolInv, OneHolder, Owning
<1>6. SessionsOwned'
  <2> SUFFICES ASSUME NEW s \in Connections, conn[s] \in {"opening", "open", "broken"}, inHand[c] # s
               PROVE  \E d \in Callers : inHand[d] = s /\ toolStage'[d] \in {"opening", "store", "exit"}
    BY <1>1 DEF SessionsOwned, Alive
  <2>1. kept # s
    BY <1>1, NotASession
  <2>2. PICK d \in Callers : inHand[d] = s /\ toolStage[d] \in {"opening", "store", "exit"}
    BY <2>1 DEF ToolInv, SessionsOwned, Alive
  <2> QED
    BY <1>3, <2>2
<1>7. Holding'
  BY <1>1, <1>2, <1>3 DEF ToolInv, Holding, Owning
<1>8. OneHolder'
  BY <1>1, <1>3, <1>5 DEF ToolInv, OneHolder, Owning
<1> QED
  BY <1>1, <1>4, <1>6, <1>7, <1>8 DEF ToolInv, AtRest

\* What happens to the sessions from outside, and at shutdown.
LEMMA OutsideKeeps ==
    ASSUME ToolInv, (\E s \in Connections : Break(s)) \/ Expire \/ ShutDown
    PROVE  ToolInv'
<1>1. ASSUME NEW s \in Connections, Break(s) PROVE ToolInv'
  <2>1. /\ conn[s] = "open" /\ conn' = [conn EXCEPT ![s] = "broken"]
        /\ kept' = kept /\ expired' = expired /\ toolStage' = toolStage /\ inHand' = inHand
        /\ try' = try /\ closing' = closing
    BY <1>1 DEF Break
  <2>2. /\ conn'[s] = "broken" /\ \A t \in Connections : t # s => conn'[t] = conn[t]
        /\ conn' \in [Connections -> {"new", "opening", "open", "broken", "closed"}]
    BY <2>1 DEF ToolInv, ToolTypeOK
  <2>3. ToolTypeOK' /\ AtRest' /\ OneHolder'
    BY <2>1, <2>2 DEF ToolInv, ToolTypeOK, AtRest, OneHolder
  <2>4. SessionsOwned'
    BY <2>1, <2>2 DEF ToolInv, SessionsOwned, Alive
  <2>5. Holding'
    BY <2>1, <2>2 DEF ToolInv, Holding, ToolTypeOK, Owning
  <2> QED
    BY <2>3, <2>4, <2>5 DEF ToolInv
<1>2. CASE Expire
  BY <1>2 DEF Expire, ToolInv, ToolTypeOK, SessionsOwned, Alive, Holding, OneHolder, AtRest
<1>3. CASE ShutDown
  <2>1. /\ \A c \in Callers : toolStage[c] = "away"
        /\ kept' = NoSession /\ closing' = TRUE
        /\ conn' = [s \in Connections |-> IF s = kept THEN "closed" ELSE conn[s]]
        /\ expired' = expired /\ toolStage' = toolStage /\ inHand' = inHand /\ try' = try
    BY <1>3 DEF ShutDown, CloseAll
  <2>2. ToolTypeOK' /\ AtRest' /\ OneHolder' /\ Holding'
    BY <2>1 DEF ToolInv, ToolTypeOK, AtRest, OneHolder, Holding, Owning
  <2>3. \A s \in Connections : Alive(s) => kept = s
    BY <2>1 DEF ToolInv, SessionsOwned
  <2>4. SessionsOwned'
    BY <2>1, <2>3 DEF SessionsOwned, Alive
  <2> QED
    BY <2>2, <2>4 DEF ToolInv
<1> QED
  BY <1>1, <1>2, <1>3

\* Once shut down, no request is in progress.
LEMMA NoRequestThen ==
    ASSUME ToolInv, NEW c \in Callers, Arrive(c) \/ RequestTool(c)
    PROVE  ~closing
BY DEF ToolInv, AtRest, Arrive, RequestTool, TakeExpired, ExitExpired, UseKept, Open, Opened, OpenFails,
       Keep, CloseDuplicate, UseSurviving, NoSurvivor, Answer, CallFails, At

\* The steps of a request.
LEMMA RequestKeeps ==
    ASSUME ToolInv, NEW c \in Callers, Arrive(c) \/ RequestTool(c)
    PROVE  ToolInv'
<1>1. ~closing
  BY NoRequestThen
<1>2. /\ toolStage \in [Callers -> Stages] /\ try \in [Callers -> {1, 2}]
      /\ inHand \in [Callers -> Connections \cup {NoSession}]
      /\ kept \in Connections \cup {NoSession} /\ expired \in BOOLEAN
  BY DEF ToolInv, ToolTypeOK
<1>3. ASSUME NEW from, NEW to \in Stages, At(c, from, to)
      PROVE  /\ toolStage[c] = from /\ toolStage'[c] = to /\ toolStage' \in [Callers -> Stages]
             /\ \A d \in Callers : d # c => toolStage'[d] = toolStage[d]
  BY <1>2, <1>3 DEF At
<1>4. Swept \in {"expire", "look"}
  BY DEF Swept
<1>5. CASE Arrive(c)
  <2>1. At(c, "away", Swept) /\ Swept \in Stages
    BY <1>4, <1>5 DEF Arrive, Stages
  <2>2. /\ toolStage[c] = "away" /\ toolStage'[c] = Swept /\ toolStage' \in [Callers -> Stages]
        /\ \A d \in Callers : d # c => toolStage'[d] = toolStage[d]
    BY <1>3, <2>1
  <2>3. /\ kept' = kept /\ expired' = expired /\ conn' = conn /\ inHand' = inHand /\ try' = try
        /\ closing' = closing
    BY <1>5 DEF Arrive
  <2>4. toolStage[c] \notin Owning /\ toolStage'[c] \notin Owning
    BY <1>4, <2>2 DEF Owning
  <2> QED
    BY <1>1, <1>2, <2>2, <2>3, <2>4, GoesOn
<1>6. CASE UseKept(c) \/ UseSurviving(c)
  <2>1. (At(c, "look", "call") \/ At(c, "refind", "call")) /\ "call" \in Stages
    BY <1>6 DEF UseKept, UseSurviving, Stages
  <2>2. /\ toolStage[c] \in {"look", "refind"} /\ toolStage'[c] = "call"
        /\ toolStage' \in [Callers -> Stages]
        /\ \A d \in Callers : d # c => toolStage'[d] = toolStage[d]
    BY <1>3, <2>1
  <2>3. /\ kept' = kept /\ expired' = FALSE /\ conn' = conn /\ try' = try /\ closing' = closing
        /\ inHand' = [inHand EXCEPT ![c] = kept]
    BY <1>6 DEF UseKept, UseSurviving
  <2>4. /\ inHand' \in [Callers -> Connections \cup {NoSession}]
        /\ \A d \in Callers : d # c => inHand'[d] = inHand[d]
    BY <1>2, <2>3
  <2>5. toolStage[c] \notin Owning /\ toolStage'[c] \notin Owning
    BY <2>2 DEF Owning
  <2> QED
    BY <1>1, <1>2, <2>2, <2>3, <2>4, <2>5, GoesOn
<1>7. CASE Answer(c)
  <2>1. At(c, "call", "away") /\ "away" \in Stages
    BY <1>7 DEF Answer, Stages
  <2>2. /\ toolStage[c] = "call" /\ toolStage'[c] = "away"
        /\ toolStage' \in [Callers -> Stages]
        /\ \A d \in Callers : d # c => toolStage'[d] = toolStage[d]
    BY <1>3, <2>1
  <2>3. /\ kept' = kept /\ expired' = expired /\ conn' = conn /\ closing' = closing
        /\ inHand' = [inHand EXCEPT ![c] = NoSession] /\ try' = [try EXCEPT ![c] = 1]
    BY <1>7 DEF Answer
  <2>4. /\ inHand' \in [Callers -> Connections \cup {NoSession}] /\ try' \in [Callers -> {1, 2}]
        /\ \A d \in Callers : d # c => inHand'[d] = inHand[d]
    BY <1>2, <2>3
  <2>5. toolStage[c] \notin Owning /\ toolStage'[c] \notin Owning
    BY <2>2 DEF Owning
  <2> QED
    BY <1>1, <1>2, <2>2, <2>3, <2>4, <2>5, GoesOn
<1>8. CASE NoSurvivor(c) \/ CallFails(c)
  <2>1. AfterFailure(c) /\ toolStage[c] \in {"refind", "call"}
    BY <1>8 DEF NoSurvivor, CallFails
  <2>2. /\ toolStage' \in [Callers -> Stages] /\ try' \in [Callers -> {1, 2}]
        /\ toolStage'[c] \in {"expire", "look", "away"}
        /\ \A d \in Callers : d # c => toolStage'[d] = toolStage[d]
    BY <2>1, FailureLeadsOn DEF ToolInv
  <2>3. /\ kept' = kept /\ expired' = expired /\ conn' = conn /\ closing' = closing
        /\ inHand' = inHand \/ inHand' = [inHand EXCEPT ![c] = NoSession]
    BY <1>8 DEF NoSurvivor, CallFails
  <2>4. /\ inHand' \in [Callers -> Connections \cup {NoSession}]
        /\ \A d \in Callers : d # c => inHand'[d] = inHand[d]
    BY <1>2, <2>3
  <2>5. toolStage[c] \notin Owning /\ toolStage'[c] \notin Owning
    BY <2>1, <2>2 DEF Owning
  <2> QED
    BY <1>1, <1>2, <2>2, <2>3, <2>4, <2>5, GoesOn
<1>9. CASE ExitExpired(c) \/ CloseDuplicate(c)
  <2>1. (At(c, "exit", "look") \/ At(c, "store", "refind")) /\ "look" \in Stages /\ "refind" \in Stages
    BY <1>9 DEF ExitExpired, CloseDuplicate, Stages
  <2>2. /\ toolStage[c] \in {"exit", "store"} /\ toolStage'[c] \in {"look", "refind"}
        /\ toolStage' \in [Callers -> Stages]
        /\ \A d \in Callers : d # c => toolStage'[d] = toolStage[d]
    BY <1>3, <2>1
  <2>3. /\ kept' = kept /\ expired' = expired /\ try' = try /\ closing' = closing
        /\ inHand' = [inHand EXCEPT ![c] = NoSession]
        /\ conn' = [conn EXCEPT ![inHand[c]] = "closed"]
    BY <1>9 DEF ExitExpired, CloseDuplicate
  <2>4. toolStage[c] \in Owning /\ toolStage'[c] \notin Owning
    BY <2>2 DEF Owning
  <2> QED
    BY <1>1, <1>2, <2>2, <2>3, <2>4, Closes
<1>10. CASE OpenFails(c)
  <2>1. AfterFailure(c) /\ toolStage[c] = "opening"
    BY <1>10 DEF OpenFails
  <2>2. /\ toolStage' \in [Callers -> Stages] /\ try' \in [Callers -> {1, 2}]
        /\ toolStage'[c] \in {"expire", "look", "away"}
        /\ \A d \in Callers : d # c => toolStage'[d] = toolStage[d]
    BY <2>1, FailureLeadsOn DEF ToolInv
  <2>3. /\ kept' = kept /\ expired' = expired /\ closing' = closing
        /\ inHand' = [inHand EXCEPT ![c] = NoSession]
        /\ conn' = [conn EXCEPT ![inHand[c]] = "closed"]
    BY <1>10 DEF OpenFails
  <2>4. toolStage[c] \in Owning /\ toolStage'[c] \notin Owning
    BY <2>1, <2>2 DEF Owning
  <2> QED
    BY <1>1, <2>2, <2>3, <2>4, Closes
<1> QED
  BY <1>1, <1>5, <1>6, <1>7, <1>8, <1>9, <1>10, TakeKeeps, OpenKeeps, KeepKeeps DEF RequestTool

\* ToolInv is an invariant of the sessions.
LEMMA ToolInvariant == ToolSpec => []ToolInv
<1>1. ToolInv /\ [ToolNext]_toolVars => ToolInv'
  <2> SUFFICES ASSUME ToolInv, [ToolNext]_toolVars PROVE ToolInv'
    OBVIOUS
  <2>1. CASE UNCHANGED toolVars
    BY <2>1 DEF toolVars, ToolInv, ToolTypeOK, SessionsOwned, Alive, Holding, OneHolder, AtRest
  <2> QED
    BY <2>1, RequestKeeps, OutsideKeeps DEF ToolNext
<1> QED
  BY <1>1, ToolStart, PTL DEF ToolSpec

\* A call is begun only on the kept session, or on the one just opened.
LEMMA CallsBeginAlive ==
    ASSUME ToolInv, [ToolNext]_toolVars, NEW c \in Callers,
           toolStage[c] # "call", toolStage'[c] = "call"
    PROVE  conn[inHand'[c]] \in {"open", "broken"}
<1>1. toolStage \in [Callers -> Stages] /\ inHand \in [Callers -> Connections \cup {NoSession}]
  BY DEF ToolInv, ToolTypeOK
<1>2. PICK d \in Callers : Arrive(d) \/ RequestTool(d)
  BY DEF ToolNext, toolVars, Break, Expire, ShutDown
<1>3. Swept \in {"expire", "look"}
  BY DEF Swept
<1>4. c = d /\ (UseKept(d) \/ UseSurviving(d) \/ Keep(d))
  BY <1>1, <1>2, <1>3 DEF Arrive, RequestTool, TakeExpired, ExitExpired, UseKept, Open, Opened, OpenFails,
       Keep, CloseDuplicate, UseSurviving, NoSurvivor, Answer, CallFails, At, AfterFailure
<1>5. CASE UseKept(c) \/ UseSurviving(c)
  <2>1. inHand'[c] = kept /\ kept # NoSession
    BY <1>1, <1>5 DEF UseKept, UseSurviving
  <2> QED
    BY <2>1 DEF ToolInv, Holding
<1>6. CASE Keep(c)
  <2>1. inHand'[c] = inHand[c] /\ toolStage[c] = "store"
    BY <1>6 DEF Keep, At
  <2> QED
    BY <2>1 DEF ToolInv, Holding
<1> QED
  BY <1>4, <1>5, <1>6

\* SessionsSafe: no tool session is left open without an owner, none is used
\* after it was closed, and none survives the shutdown
\* (_playground_tool_sessions and the functions around it, app.py).
THEOREM SessionsAreSafe == ToolSpec => SessionsSafe
<1>1. ToolInv => ToolTypeOK /\ SessionsOwned /\ NoneLeftOpen
  <2> SUFFICES ASSUME ToolInv, closing PROVE \A s \in Connections : ~Alive(s)
    BY DEF ToolInv, NoneLeftOpen
  <2>1. kept = NoSession /\ \A c \in Callers : toolStage[c] = "away"
    BY DEF ToolInv, AtRest
  <2> QED
    BY <2>1, NotASession DEF ToolInv, SessionsOwned
<1> DEFINE Begins == \A c \in Callers : toolStage[c] # "call" /\ toolStage'[c] = "call" =>
                       conn[inHand'[c]] \in {"open", "broken"}
<1>2. ToolInv /\ [ToolNext]_toolVars => [Begins]_toolVars
  BY CallsBeginAlive
<1>3. ToolSpec => [](ToolTypeOK /\ SessionsOwned /\ NoneLeftOpen)
  BY <1>1, ToolInvariant, PTL
<1>4. ToolSpec => [][Begins]_toolVars
  BY <1>2, ToolInvariant, PTL DEF ToolSpec
<1> QED
  BY <1>3, <1>4 DEF SessionsSafe, GivenAlive

-----------------------------------------------------------------------------
(* The rows of agents.  RowsTrue is not inductive: a new event must not be *)
(* in a row already, so RowsInv says which events an invocation can have   *)
(* emitted; an open context is of its role and not closed; invocations of  *)
(* a role that are active at a time are marked as overlapping; and one     *)
(* that ran alone still has its context open, with nothing else in it.     *)

\* What a row may hold of an invocation that is not over.
Emitted(e) ==
    /\ e.item \in Items /\ e.part \in 1..part[e.item] /\ e.kind \in Kinds
    /\ e.part = part[e.item] =>
          /\ phase[e.item] # "waiting"
          /\ e.kind = "tool_call_finished" => phase[e.item] \in {"worked", "ended"}
          /\ e.kind \in {"agent_finished", "run_cancelled"} => phase[e.item] = "ended"

\* An open context is of its role, and not closed.
OpenNamed == \A r \in AgentRoles : open[r] # NoContext => open[r].role = r /\ open[r] \notin closed

Overlapping ==
    \A i, j \in Items : i # j /\ RoleOf[i] = RoleOf[j] /\ Active(i) /\ Active(j) =>
        <<i, part[i]>> \in together

\* A context that holds a start of an invocation and nothing else.
Whole(c, v) ==
    /\ \A e \in c.events : Invocation(e) = v
    /\ \E e \in c.events : e.kind = "agent_started"

LoneIsOpen ==
    \A i \in Items : Active(i) /\ <<i, part[i]>> \notin together =>
        open[RoleOf[i]] # NoContext /\ Whole(open[RoleOf[i]], <<i, part[i]>>)

RowsInv ==
    /\ RowsTrue /\ OpenNamed /\ Overlapping /\ LoneIsOpen
    /\ open \in [AgentRoles -> Contexts \cup {NoContext}]
    /\ \A row \in Rows : \A e \in row.events : Emitted(e)

Apart(a, b) == a.events \cap b.events = {} /\ <<a.role, a.index>> # <<b.role, b.index>>

\* The rows that stay when the open context of a role is written to or replaced.
Staying(r) == {row \in Rows : row # open[r]}

LEMMA RowFacts ==
    ASSUME RowsInv
    PROVE  /\ \A row \in Rows : /\ row \in Contexts /\ row.role \in AgentRoles /\ row.index \in Nat
                                /\ row.index \in 1..counts[row.role] /\ row.events \subseteq Events
           /\ \A r \in AgentRoles : open[r] # NoContext => open[r] \in Rows /\ open[r].role = r
           /\ closed \subseteq Rows /\ \A r \in AgentRoles : closed \subseteq Staying(r)
           /\ \A r \in AgentRoles : counts[r] \in Nat
           /\ \A a, b \in Rows : a # b => Apart(a, b)
<1>1. \A row \in Rows : row \in Contexts /\ row.index \in 1..counts[row.role]
  BY DEF RowsInv, RowsTrue, RowsTypeOK, Rows
<1>2. \A c \in Contexts : c.role \in AgentRoles /\ c.index \in Nat /\ c.events \subseteq Events
  BY DEF Contexts
<1>3. \A r \in AgentRoles : open[r] # NoContext =>
         open[r] \in Rows /\ open[r].role = r /\ open[r] \notin closed
  BY DEF RowsInv, OpenNamed, Rows
<1>4. closed \subseteq Rows
  BY DEF Rows
<1>5. \A r \in AgentRoles : counts[r] \in Nat
  BY DEF RowsInv, RowsTrue, RowsTypeOK
<1>6. \A r \in AgentRoles : closed \subseteq Staying(r)
  <2> SUFFICES ASSUME NEW r \in AgentRoles, NEW row \in closed PROVE row # open[r]
    BY <1>4 DEF Staying
  <2>1. CASE open[r] # NoContext
    BY <1>3, <2>1
  <2>2. CASE open[r] = NoContext
    <3>1. NoContext.index = 0 /\ row.index \in 1..counts[row.role] /\ row.role \in AgentRoles
      BY <1>1, <1>2, <1>4 DEF NoContext
    <3>2. row.index # 0
      BY <1>5, <3>1
    <3> QED
      BY <2>2, <3>1, <3>2
  <2> QED
    BY <2>1, <2>2
<1>7. \A a, b \in Rows : a # b => Apart(a, b)
  BY DEF RowsInv, RowsTrue, AttributedOnce, Apart
<1> QED
  BY <1>1, <1>2, <1>3, <1>4, <1>5, <1>6, <1>7

\* An event that was not read yet, in the context that receives it.
LEMMA ReceivingApart ==
    ASSUME RowsInv, NEW r \in AgentRoles, NEW e \in Events, ~Emitted(e)
    PROVE  LET c == With(Receiving(r), e)
           IN  /\ c \in Contexts /\ c.role = r
               /\ c.index \in 1..(IF open[r] = NoContext THEN NextIndex(r) ELSE counts[r])
               /\ c.events = (IF open[r] = NoContext THEN {} ELSE open[r].events) \cup {e}
               /\ \A b \in Staying(r) : Apart(c, b)
<1> DEFINE c == With(Receiving(r), e)
<1>1. \A row \in Rows : e \notin row.events
  BY DEF RowsInv
<1>2. CASE open[r] = NoContext
  <2>1. Receiving(r) = Context(r, counts[r] + 1, {})
    BY <1>2 DEF Receiving, NextIndex
  <2>2. c = [role |-> r, index |-> counts[r] + 1, events |-> {e}]
    BY <2>1 DEF With, Context
  <2>3. counts[r] \in Nat /\ c.role = r /\ c.index = counts[r] + 1 /\ c.events = {e}
    BY <2>2, RowFacts
  <2>4. c \in Contexts
    BY <2>2, <2>3 DEF Contexts
  <2>5. \A b \in Staying(r) : Apart(c, b)
    <3> HIDE DEF c
    <3> SUFFICES ASSUME NEW b \in Rows PROVE Apart(c, b)
      BY DEF Staying
    <3>1. b.role = r => b.index # counts[r] + 1
      BY <2>3, RowFacts
    <3> QED
      BY <1>1, <2>3, <3>1 DEF Apart
  <2> QED
    BY <1>2, <2>3, <2>4, <2>5 DEF NextIndex
<1>3. CASE open[r] # NoContext
  <2>1. open[r] \in Contexts /\ open[r] \in Rows /\ open[r].role = r /\ open[r].index \in 1..counts[r]
    BY <1>3, RowFacts
  <2>2. c = [open[r] EXCEPT !.events = @ \cup {e}]
    BY <1>3 DEF With, Receiving
  <2>3. /\ c \in Contexts /\ c.role = open[r].role /\ c.index = open[r].index
        /\ c.events = open[r].events \cup {e}
    BY <2>1, <2>2 DEF Contexts
  <2>4. \A b \in Staying(r) : Apart(c, b)
    <3> HIDE DEF c
    <3> SUFFICES ASSUME NEW b \in Rows, b # open[r] PROVE Apart(c, b)
      BY DEF Staying
    <3>1. Apart(open[r], b) /\ e \notin b.events
      BY <1>1, <2>1, RowFacts
    <3> QED
      BY <2>3, <3>1 DEF Apart
  <2> QED
    BY <1>3, <2>1, <2>3, <2>4
<1> QED
  BY <1>2, <1>3

LEMMA StartApart ==
    ASSUME RowsInv, NEW r \in AgentRoles, NEW e \in Events, ~Emitted(e),
           NEW n \in Nat, n > counts[r]
    PROVE  /\ Context(r, n, {e}) \in Contexts /\ Context(r, n, {e}).role = r
           /\ Context(r, n, {e}).index = n /\ Context(r, n, {e}).events = {e}
           /\ \A b \in Rows : Apart(Context(r, n, {e}), b)
<1>1. /\ Context(r, n, {e}) \in Contexts /\ Context(r, n, {e}).role = r
      /\ Context(r, n, {e}).index = n /\ Context(r, n, {e}).events = {e}
  BY DEF Context, Contexts
<1>2. ASSUME NEW b \in Rows PROVE Apart(Context(r, n, {e}), b)
  <2>1. e \notin b.events
    BY DEF RowsInv
  <2>2. b.role = r => b.index # n
    BY RowFacts
  <2> QED
    BY <1>1, <2>1, <2>2 DEF Apart
<1> QED
  BY <1>1, <1>2

\* What reading does to the rows: the open context of one role gives way.
LEMMA ReadingKeeps ==
    ASSUME RowsInv, NEW r \in AgentRoles, NEW new \in SUBSET Contexts, NEW o,
           open' = [open EXCEPT ![r] = o], open \in [AgentRoles -> Contexts \cup {NoContext}],
           closed \subseteq closed', closed' \subseteq closed \cup new,
           o = NoContext \/ (o \in new /\ o \notin closed'),
           counts' \in [AgentRoles -> Nat], counts'[r] >= counts[r],
           \A q \in AgentRoles : q # r => counts'[q] = counts[q],
           \A c \in new : c.role = r /\ c.index \in 1..counts'[r] /\ \A b \in Staying(r) : Apart(c, b),
           \A c, d \in new : c # d => Apart(c, d)
    PROVE  /\ \A q \in AgentRoles : open'[q] = NoContext \/ open'[q] \in Contexts
           /\ closed' \subseteq Contexts
           /\ \A row \in Rows' : row.index \in 1..counts'[row.role]
           /\ AttributedOnce' /\ OpenNamed' /\ Rows' \subseteq Staying(r) \cup new
<1>1. open'[r] = o /\ \A q \in AgentRoles : q # r => open'[q] = open[q]
  OBVIOUS
<1>2. Rows' \subseteq Staying(r) \cup new
  <2> SUFFICES ASSUME NEW row \in Rows' PROVE row \in Staying(r) \cup new
    OBVIOUS
  <2>1. CASE row \in closed'
    BY <2>1, RowFacts
  <2>2. CASE \E q \in AgentRoles : open'[q] # NoContext /\ row = open'[q]
    <3>1. PICK q \in AgentRoles : open'[q] # NoContext /\ row = open'[q]
      BY <2>2
    <3>2. CASE q = r
      BY <1>1, <3>1, <3>2
    <3>3. CASE q # r
      <4>1. row = open[q] /\ row \in Rows /\ row.role = q
        BY <1>1, <3>1, <3>3, RowFacts
      <4>2. open[r] # row
        <5>1. CASE open[r] = NoContext
          BY <3>1, <5>1
        <5>2. CASE open[r] # NoContext
          BY <3>3, <4>1, <5>2, RowFacts
        <5> QED
          BY <5>1, <5>2
      <4> QED
        BY <4>1, <4>2 DEF Staying
    <3> QED
      BY <3>2, <3>3
  <2> QED
    BY <2>1, <2>2 DEF Rows
<1>3. \A a, b \in Staying(r) \cup new : a # b => Apart(a, b)
  <2>1. \A a, b : Apart(a, b) <=> Apart(b, a)
    BY DEF Apart
  <2>2. \A a, b \in Staying(r) : a # b => Apart(a, b)
    BY RowFacts DEF Staying
  <2> QED
    BY <2>1, <2>2
<1>4. AttributedOnce'
  BY <1>2, <1>3 DEF AttributedOnce, Apart
<1>5. \A row \in Rows' : row.index \in 1..counts'[row.role]
  <2> SUFFICES ASSUME NEW row \in Rows' PROVE row.index \in 1..counts'[row.role]
    OBVIOUS
  <2>1. CASE row \in new
    BY <2>1
  <2>2. CASE row \in Staying(r)
    <3>1. /\ row.role \in AgentRoles /\ row.index \in 1..counts[row.role]
          /\ counts[row.role] \in Nat /\ counts'[row.role] \in Nat
      BY <2>2, RowFacts DEF Staying
    <3>2. counts'[row.role] >= counts[row.role]
      BY <3>1
    <3> QED
      BY <3>1, <3>2
  <2> QED
    BY <1>2, <2>1, <2>2
<1>6. OpenNamed'
  <2> SUFFICES ASSUME NEW q \in AgentRoles, open'[q] # NoContext
               PROVE  open'[q].role = q /\ open'[q] \notin closed'
    BY DEF OpenNamed
  <2>1. CASE q = r
    BY <1>1, <2>1
  <2>2. CASE q # r
    <3>1. open'[q] = open[q] /\ open[q].role = q /\ open[q] \notin closed
      BY <1>1, <2>2 DEF RowsInv, OpenNamed
    <3>2. open[q] \notin new
      BY <2>2, <3>1
    <3> QED
      BY <3>1, <3>2
  <2> QED
    BY <2>1, <2>2
<1>7. \A q \in AgentRoles : open'[q] = NoContext \/ open'[q] \in Contexts
  BY <1>1
<1>8. closed' \subseteq Contexts
  BY RowFacts
<1> QED
  BY <1>2, <1>4, <1>5, <1>6, <1>7, <1>8

\* What is left to show of a step: that rows hold emitted events, and the lone
\* invocations.
LEMMA ReadingThen ==
    ASSUME RowsInv, NEW r \in AgentRoles, NEW new \in SUBSET Contexts, NEW o,
           open' = [open EXCEPT ![r] = o],
           closed \subseteq closed', closed' \subseteq closed \cup new,
           o = NoContext \/ (o \in new /\ o \notin closed'),
           counts' \in [AgentRoles -> Nat], counts'[r] >= counts[r],
           \A q \in AgentRoles : q # r => counts'[q] = counts[q],
           \A c \in new : c.role = r /\ c.index \in 1..counts'[r] /\ \A b \in Staying(r) : Apart(c, b),
           \A c, d \in new : c # d => Apart(c, d),
           phase' \in [Items -> {"waiting", "running", "worked", "ended"}],
           part' \in [Items -> 1..Parts],
           done' \subseteq Items \X (1..Parts), together' \subseteq Items \X (1..Parts),
           LoneInvocationWhole', Overlapping', LoneIsOpen',
           \A x : Emitted(x) => Emitted(x)',
           \A c \in new : \A x \in c.events : Emitted(x)'
    PROVE  RowsInv'
<1>1. open \in [AgentRoles -> Contexts \cup {NoContext}]
  BY DEF RowsInv
<1>2. /\ \A q \in AgentRoles : open'[q] = NoContext \/ open'[q] \in Contexts
      /\ closed' \subseteq Contexts
      /\ \A row \in Rows' : row.index \in 1..counts'[row.role]
      /\ AttributedOnce' /\ OpenNamed' /\ Rows' \subseteq Staying(r) \cup new
  BY <1>1, ReadingKeeps
<1>3. RowsTypeOK'
  BY <1>2 DEF RowsTypeOK
<1>4. \A row \in Rows' : \A e \in row.events : Emitted(e)'
  BY <1>2 DEF RowsInv, Staying
<1>5. open' \in [AgentRoles -> Contexts \cup {NoContext}]
  BY <1>1
<1> QED
  BY <1>2, <1>3, <1>4, <1>5 DEF RowsInv, RowsTrue

\* Whole contexts of the invocations that are over stay.
LEMMA WholeStays ==
    ASSUME RowsInv, closed \subseteq closed', together \subseteq together', done' = done
    PROVE  LoneInvocationWhole'
BY DEF RowsInv, RowsTrue, LoneInvocationWhole, Invocation

LEMMA RowTypes ==
    ASSUME RowsInv
    PROVE  /\ phase \in [Items -> {"waiting", "running", "worked", "ended"}]
           /\ part \in [Items -> 1..Parts] /\ counts \in [AgentRoles -> Nat]
           /\ open \in [AgentRoles -> Contexts \cup {NoContext}]
           /\ done \subseteq Items \X (1..Parts) /\ together \subseteq Items \X (1..Parts)
           /\ Parts \in Nat \ {0} /\ \A i \in Items : RoleOf[i] \in AgentRoles
BY RowsAssumption DEF RowsInv, RowsTrue, RowsTypeOK

LEMMA OverlapTells ==
    ASSUME RowsInv, NEW i \in Items, part'[i] \in 1..Parts
    PROVE  /\ Overlap(i) \subseteq Items \X (1..Parts)
           /\ \A j \in Items : RoleOf[j] = RoleOf[i] /\ Active(j) /\ j # i =>
                 <<j, part[j]>> \in Overlap(i) /\ <<i, part'[i]>> \in Overlap(i)
<1> DEFINE others == Running(RoleOf[i]) \ {i}
<1>1. \A j \in others : <<j, part[j]>> \in Items \X (1..Parts)
  BY RowTypes DEF Running
<1>2. <<i, part'[i]>> \in Items \X (1..Parts)
  OBVIOUS
<1>3. Overlap(i) = {<<j, part[j]>> : j \in others} \cup (IF others = {} THEN {} ELSE {<<i, part'[i]>>})
  BY DEF Overlap
<1>4. \A j \in Items : RoleOf[j] = RoleOf[i] /\ Active(j) /\ j # i => j \in others
  BY DEF Running
<1> QED
  BY <1>1, <1>2, <1>3, <1>4

LEMMA BeginKeeps == ASSUME RowsInv, NEW i \in Items, Begin(i) PROVE RowsInv'
<1> DEFINE r == RoleOf[i]
<1>a. PICK e : e = Event(i, "agent_started")
  OBVIOUS
<1>c. PICK c : c = Context(r, NextIndex(r), {e})
  OBVIOUS
<1>1. /\ phase[i] = "waiting" /\ phase' = [phase EXCEPT ![i] = "running"]
      /\ counts' = [counts EXCEPT ![r] = NextIndex(r)] /\ open' = [open EXCEPT ![r] = c]
      /\ closed' = closed /\ part' = part /\ done' = done /\ together' = together \cup Overlap(i)
  BY <1>a, <1>c DEF Begin, ReadStart
<1>2. /\ e.item = i /\ e.part = part[i] /\ e.kind = "agent_started" /\ e \in Events
  BY <1>a, RowTypes DEF Event, Events, Kinds
<1>3. ~Emitted(e)
  BY <1>1, <1>2 DEF Emitted
<1>4. counts[r] \in Nat /\ NextIndex(r) \in Nat /\ NextIndex(r) > counts[r] /\ r \in AgentRoles
  BY RowTypes DEF NextIndex
<1>5. /\ c \in Contexts /\ c.role = r /\ c.index = NextIndex(r) /\ c.events = {e}
      /\ \A b \in Rows : Apart(c, b)
  <2>1. PICK n \in Nat : n = NextIndex(r) /\ n > counts[r]
    BY <1>4
  <2>2. c = Context(r, n, {e})
    BY <1>c, <2>1
  <2>3. e \in Events /\ r \in AgentRoles /\ n > counts[r]
    BY <1>2, <1>4, <2>1
  <2>4. /\ Context(r, n, {e}) \in Contexts /\ Context(r, n, {e}).role = r
        /\ Context(r, n, {e}).index = n /\ Context(r, n, {e}).events = {e}
        /\ \A b \in Rows : Apart(Context(r, n, {e}), b)
    BY <1>3, <2>3, StartApart
  <2> QED
    BY <2>1, <2>2, <2>4
<1>6. c \notin closed'
  BY <1>1, <1>5, RowFacts DEF Apart
<1>7. \A x : Emitted(x) => Emitted(x)'
  BY <1>1, RowTypes DEF Emitted
<1>8. Emitted(e)'
  BY <1>1, <1>2, RowTypes DEF Emitted, Kinds
<1>9. LoneInvocationWhole'
  BY <1>1, WholeStays
<1>10. part'[i] \in 1..Parts /\ together' \subseteq Items \X (1..Parts)
  BY <1>1, OverlapTells, RowTypes
<1>11. Overlapping'
  <2> SUFFICES ASSUME NEW j \in Items, NEW k \in Items, j # k, RoleOf[j] = RoleOf[k], Active(j)', Active(k)'
               PROVE  <<j, part[j]>> \in together'
    BY <1>1 DEF Overlapping
  <2>1. CASE j # i /\ k # i
    BY <1>1, <2>1, RowTypes DEF RowsInv, Overlapping, Active
  <2>2. CASE j = i
    <3>1. Active(k)
      BY <1>1, <2>2, RowTypes DEF Active
    <3>2. <<i, part'[i]>> \in Overlap(i)
      BY <1>10, <2>2, <3>1, OverlapTells
    <3> QED
      BY <1>1, <2>2, <3>2
  <2>3. CASE k = i
    <3>1. Active(j)
      BY <1>1, <2>3, RowTypes DEF Active
    <3>2. <<j, part[j]>> \in Overlap(i)
      BY <1>10, <2>3, <3>1, OverlapTells
    <3> QED
      BY <1>1, <3>2
  <2> QED
    BY <2>1, <2>2, <2>3
<1>12. LoneIsOpen'
  <2> SUFFICES ASSUME NEW j \in Items, Active(j)', <<j, part[j]>> \notin together'
               PROVE  open'[RoleOf[j]] # NoContext /\ Whole(open'[RoleOf[j]], <<j, part[j]>>)
    BY <1>1 DEF LoneIsOpen, Whole, Invocation
  <2>1. CASE j = i
    <3>1. open'[r] = c /\ c.index # 0
      BY <1>1, <1>4, <1>5, RowTypes
    <3>2. Whole(c, <<i, part[i]>>)
      BY <1>2, <1>5 DEF Whole, Invocation
    <3> QED
      BY <2>1, <3>1, <3>2 DEF NoContext
  <2>2. CASE j # i
    <3>1. Active(j) /\ <<j, part[j]>> \notin together /\ RoleOf[j] # r
      BY <1>1, <1>10, <2>2, OverlapTells, RowTypes DEF Active
    <3>2. open'[RoleOf[j]] = open[RoleOf[j]]
      BY <1>1, <3>1, RowTypes
    <3> QED
      BY <3>1, <3>2 DEF RowsInv, LoneIsOpen
  <2> QED
    BY <2>1, <2>2
<1>13. /\ counts' \in [AgentRoles -> Nat] /\ counts'[r] = NextIndex(r)
       /\ \A q \in AgentRoles : q # r => counts'[q] = counts[q]
       /\ phase' \in [Items -> {"waiting", "running", "worked", "ended"}]
       /\ part' \in [Items -> 1..Parts] /\ done' \subseteq Items \X (1..Parts)
  BY <1>1, <1>4, RowTypes
<1>14. /\ {c} \in SUBSET Contexts /\ c \in {c}
       /\ \A d \in {c} : d.role = r /\ d.index \in 1..counts'[r] /\ \A b \in Staying(r) : Apart(d, b)
       /\ \A d, b \in {c} : d # b => Apart(d, b)
       /\ \A d \in {c} : \A x \in d.events : Emitted(x)'
  BY <1>4, <1>5, <1>8, <1>13 DEF Staying
<1>15. counts'[r] >= counts[r]
  BY <1>4, <1>13
<1> QED
  BY <1>1, <1>4, <1>6, <1>7, <1>9, <1>10, <1>11, <1>12, <1>13, <1>14, <1>15, ReadingThen

\* An event of an agent at work, in the context that receives it.
LEMMA Receives ==
    ASSUME RowsInv, NEW i \in Items, Active(i), NEW kind \in Kinds, ~Emitted(Event(i, kind))
    PROVE  LET r == RoleOf[i]
               c == With(Receiving(r), Event(i, kind))
               n == IF open[r] = NoContext THEN NextIndex(r) ELSE counts[r]
           IN  /\ c \in Contexts /\ c.role = r /\ c.index \in 1..n /\ n \in Nat /\ n >= counts[r]
               /\ \A b \in Staying(r) : Apart(c, b)
               /\ \A x \in c.events : x = Event(i, kind) \/ Emitted(x)
               /\ <<i, part[i]>> \notin together =>
                     Whole(c, <<i, part[i]>>) /\ kind \in {x.kind : x \in c.events}
<1> DEFINE r == RoleOf[i]
           e == Event(i, kind)
           c == With(Receiving(r), e)
           n == IF open[r] = NoContext THEN NextIndex(r) ELSE counts[r]
<1>1. /\ e.item = i /\ e.part = part[i] /\ e.kind = kind /\ e \in Events /\ r \in AgentRoles
  BY RowTypes DEF Event, Events
<1>2. /\ c \in Contexts /\ c.role = r /\ c.index \in 1..n
      /\ c.events = (IF open[r] = NoContext THEN {} ELSE open[r].events) \cup {e}
      /\ \A b \in Staying(r) : Apart(c, b)
  BY <1>1, ReceivingApart
<1>3. n \in Nat /\ n >= counts[r]
  BY <1>1, RowTypes DEF NextIndex
<1> HIDE DEF c, n
<1>4. \A x \in c.events : x = e \/ Emitted(x)
  BY <1>1, <1>2, RowFacts DEF RowsInv
<1>5. ASSUME <<i, part[i]>> \notin together
      PROVE  Whole(c, <<i, part[i]>>) /\ kind \in {x.kind : x \in c.events}
  <2>1. open[r] # NoContext /\ Whole(open[r], <<i, part[i]>>)
    BY <1>5 DEF RowsInv, LoneIsOpen
  <2>2. c.events = open[r].events \cup {e}
    BY <1>2, <2>1
  <2> HIDE DEF e
  <2> QED
    BY <1>1, <2>1, <2>2 DEF Whole, Invocation
<1> QED
  BY <1>2, <1>3, <1>4, <1>5 DEF c, n

LEMMA WorkKeeps == ASSUME RowsInv, NEW i \in Items, Work(i) PROVE RowsInv'
<1> DEFINE r == RoleOf[i]
           n == IF open[r] = NoContext THEN NextIndex(r) ELSE counts[r]
<1>a. PICK e : e = Event(i, "tool_call_finished")
  OBVIOUS
<1>c. PICK c : c = With(Receiving(r), e)
  OBVIOUS
<1>1. /\ phase[i] = "running" /\ phase' = [phase EXCEPT ![i] = "worked"]
      /\ open' = [open EXCEPT ![r] = c] /\ closed' = closed
      /\ part' = part /\ done' = done /\ together' = together
  BY <1>a, <1>c DEF Work, ReadOther
<1>2. counts' = IF open[r] = NoContext THEN [counts EXCEPT ![r] = NextIndex(r)] ELSE counts
  BY DEF Work, ReadOther, CountReceiving
<1>3. e.item = i /\ e.part = part[i] /\ e.kind = "tool_call_finished" /\ r \in AgentRoles
  BY <1>a, RowTypes DEF Event
<1>4. ~Emitted(e) /\ Active(i)
  BY <1>1, <1>3 DEF Emitted, Active
<1>5. /\ c \in Contexts /\ c.role = r /\ c.index \in 1..n /\ n \in Nat /\ n >= counts[r]
      /\ \A b \in Staying(r) : Apart(c, b)
      /\ \A x \in c.events : x = e \/ Emitted(x)
      /\ <<i, part[i]>> \notin together => Whole(c, <<i, part[i]>>)
  BY <1>4, <1>a, <1>c, Receives DEF Kinds
<1>6. counts' = [counts EXCEPT ![r] = n]
  BY <1>2, <1>3, RowTypes
<1> HIDE DEF n
<1>7. c \notin closed'
  <2>1. \A b \in closed : Apart(c, b)
    BY <1>3, <1>5, RowFacts
  <2> QED
    BY <1>1, <2>1 DEF Apart
<1>8. \A x : Emitted(x) => Emitted(x)'
  BY <1>1, RowTypes DEF Emitted
<1>9. Emitted(e)'
  BY <1>1, <1>3, RowTypes DEF Emitted, Kinds
<1>10. LoneInvocationWhole'
  BY <1>1, WholeStays
<1>11. \A j \in Items : Active(j)' => Active(j)
  BY <1>1, RowTypes DEF Active
<1>12. Overlapping'
  BY <1>1, <1>11 DEF RowsInv, Overlapping
<1>13. LoneIsOpen'
  <2> SUFFICES ASSUME NEW j \in Items, Active(j), <<j, part[j]>> \notin together
               PROVE  open'[RoleOf[j]] # NoContext /\ Whole(open'[RoleOf[j]], <<j, part[j]>>)
    BY <1>1, <1>11 DEF LoneIsOpen, Whole, Invocation
  <2>1. CASE j = i
    <3>1. open'[r] = c /\ c.index # 0
      BY <1>1, <1>3, <1>5, RowTypes
    <3> QED
      BY <1>5, <2>1, <3>1 DEF NoContext
  <2>2. CASE j # i
    <3>1. RoleOf[j] # r
      BY <1>4, <2>2 DEF RowsInv, Overlapping
    <3>2. open'[RoleOf[j]] = open[RoleOf[j]]
      BY <1>1, <3>1, RowTypes
    <3> QED
      BY <3>2 DEF RowsInv, LoneIsOpen
  <2> QED
    BY <2>1, <2>2
<1>14. /\ counts' \in [AgentRoles -> Nat] /\ counts'[r] = n
       /\ \A q \in AgentRoles : q # r => counts'[q] = counts[q]
       /\ phase' \in [Items -> {"waiting", "running", "worked", "ended"}]
       /\ part' \in [Items -> 1..Parts] /\ done' \subseteq Items \X (1..Parts)
       /\ together' \subseteq Items \X (1..Parts)
  BY <1>1, <1>3, <1>5, <1>6, RowTypes
<1>15. /\ {c} \in SUBSET Contexts /\ c \in {c} /\ counts'[r] >= counts[r]
       /\ \A d \in {c} : d.role = r /\ d.index \in 1..counts'[r] /\ \A b \in Staying(r) : Apart(d, b)
       /\ \A d, b \in {c} : d # b => Apart(d, b)
       /\ \A d \in {c} : \A x \in d.events : Emitted(x)'
  BY <1>5, <1>8, <1>9, <1>14
<1> QED
  BY <1>1, <1>3, <1>7, <1>8, <1>10, <1>12, <1>13, <1>14, <1>15, ReadingThen

\* An end, told by its kind.
LEMMA EndKeeps ==
    ASSUME RowsInv, NEW i \in Items, Finish(i) \/ Cancelled(i) PROVE RowsInv'
<1>1. PICK kind \in {"agent_finished", "run_cancelled"} :
         /\ Active(i) /\ phase' = [phase EXCEPT ![i] = "ended"] /\ part' = part /\ together' = together
         /\ ReadFinish(RoleOf[i], Event(i, kind))
         /\ IF kind = "agent_finished" THEN done' = done \cup {<<i, part[i]>>} ELSE done' = done
  BY DEF Finish, Cancelled
<1> DEFINE r == RoleOf[i]
           n == IF open[r] = NoContext THEN NextIndex(r) ELSE counts[r]
<1>a. PICK e : e = Event(i, kind)
  OBVIOUS
<1>c. PICK c : c = With(Receiving(r), e)
  OBVIOUS
<1>2. /\ open' = [open EXCEPT ![r] = NoContext] /\ closed' = closed \cup {c}
      /\ counts' = IF open[r] = NoContext THEN [counts EXCEPT ![r] = NextIndex(r)] ELSE counts
  BY <1>1, <1>a, <1>c DEF ReadFinish, CountReceiving, AfterFinish, Closing
<1>3. e.item = i /\ e.part = part[i] /\ e.kind = kind /\ r \in AgentRoles
  BY <1>a, RowTypes DEF Event
<1>4. ~Emitted(e)
  BY <1>1, <1>3 DEF Emitted, Active
<1>5. /\ c \in Contexts /\ c.role = r /\ c.index \in 1..n /\ n \in Nat /\ n >= counts[r]
      /\ \A b \in Staying(r) : Apart(c, b)
      /\ \A x \in c.events : x = e \/ Emitted(x)
      /\ <<i, part[i]>> \notin together =>
            Whole(c, <<i, part[i]>>) /\ kind \in {x.kind : x \in c.events}
  BY <1>1, <1>4, <1>a, <1>c, Receives DEF Kinds
<1>6. counts' = [counts EXCEPT ![r] = n]
  BY <1>2, <1>3, RowTypes
<1> HIDE DEF n
<1>7. phase[i] \in {"running", "worked"} /\ phase'[i] = "ended"
  BY <1>1, RowTypes DEF Active
<1>8. \A x : Emitted(x) => Emitted(x)'
  BY <1>1, <1>7, RowTypes DEF Emitted
<1>9. Emitted(e)'
  BY <1>1, <1>3, <1>7, RowTypes DEF Emitted, Kinds
<1>10. LoneInvocationWhole'
  <2> SUFFICES ASSUME NEW v \in done', v \notin together
               PROVE  \E row \in closed' :
                         /\ \A x \in row.events : Invocation(x) = v
                         /\ {"agent_started", "agent_finished"} \subseteq {x.kind : x \in row.events}
    BY <1>1 DEF LoneInvocationWhole, Invocation
  <2>1. CASE v \in done
    BY <1>2, <2>1 DEF RowsInv, RowsTrue, LoneInvocationWhole
  <2>2. CASE v \notin done
    <3>1. v = <<i, part[i]>> /\ kind = "agent_finished"
      BY <1>1, <2>2
    <3>2. Whole(c, v) /\ "agent_finished" \in {x.kind : x \in c.events}
      BY <1>5, <3>1
    <3> QED
      BY <1>2, <3>2 DEF Whole
  <2> QED
    BY <2>1, <2>2
<1>11. \A j \in Items : Active(j)' => Active(j) /\ j # i
  BY <1>1, RowTypes DEF Active
<1>12. Overlapping'
  BY <1>1, <1>11 DEF RowsInv, Overlapping
<1>13. LoneIsOpen'
  <2> SUFFICES ASSUME NEW j \in Items, Active(j), j # i, <<j, part[j]>> \notin together
               PROVE  open'[RoleOf[j]] # NoContext /\ Whole(open'[RoleOf[j]], <<j, part[j]>>)
    BY <1>1, <1>11 DEF LoneIsOpen, Whole, Invocation
  <2>1. RoleOf[j] # r
    BY <1>1 DEF RowsInv, Overlapping
  <2>2. open'[RoleOf[j]] = open[RoleOf[j]]
    BY <1>2, <2>1, RowTypes
  <2> QED
    BY <2>2 DEF RowsInv, LoneIsOpen
<1>14. /\ counts' \in [AgentRoles -> Nat] /\ counts'[r] = n
       /\ \A q \in AgentRoles : q # r => counts'[q] = counts[q]
       /\ phase' \in [Items -> {"waiting", "running", "worked", "ended"}]
       /\ part' \in [Items -> 1..Parts]
       /\ together' \subseteq Items \X (1..Parts)
  BY <1>1, <1>3, <1>5, <1>6, RowTypes
<1>15. done' \subseteq Items \X (1..Parts)
  BY <1>1, RowTypes
<1>16. /\ {c} \in SUBSET Contexts /\ closed \subseteq closed' /\ closed' \subseteq closed \cup {c}
       /\ counts'[r] >= counts[r]
       /\ \A d \in {c} : d.role = r /\ d.index \in 1..counts'[r] /\ \A b \in Staying(r) : Apart(d, b)
       /\ \A d, b \in {c} : d # b => Apart(d, b)
       /\ \A d \in {c} : \A x \in d.events : Emitted(x)'
  BY <1>2, <1>5, <1>8, <1>9, <1>14
<1> QED
  BY <1>2, <1>3, <1>8, <1>10, <1>12, <1>13, <1>14, <1>15, <1>16, ReadingThen

LEMMA ContinueKeeps == ASSUME RowsInv, NEW i \in Items, Continue(i) PROVE RowsInv'
<1> DEFINE r == RoleOf[i]
           n == IF open[r] = NoContext THEN NextIndex(r) ELSE counts[r]
<1>a. PICK e : e = Event(i, "agent_finished")
  OBVIOUS
<1>c. PICK c : c = With(Receiving(r), e)
  OBVIOUS
<1>s. PICK start : start = [item |-> i, part |-> part[i] + 1, kind |-> "agent_started"]
  OBVIOUS
<1>m. PICK next : next = NextIndex(r) + (IF open[r] = NoContext THEN 1 ELSE 0)
  OBVIOUS
<1>d. PICK d : d = Context(r, next, {start})
  OBVIOUS
<1>1. /\ Active(i) /\ part[i] < Parts /\ phase' = [phase EXCEPT ![i] = "running"]
      /\ part' = [part EXCEPT ![i] = part[i] + 1]
      /\ closed' = closed \cup {c} /\ counts' = [counts EXCEPT ![r] = next]
      /\ open' = [open EXCEPT ![r] = d]
      /\ done' = done \cup {<<i, part[i]>>} /\ together' = together \cup Overlap(i)
  BY <1>a, <1>c, <1>s, <1>m, <1>d DEF Continue, Closing
<1>2. /\ e.item = i /\ e.part = part[i] /\ e.kind = "agent_finished" /\ r \in AgentRoles
      /\ start.item = i /\ start.part = part[i] + 1 /\ start.kind = "agent_started"
      /\ part[i] \in 1..Parts /\ Parts \in Nat /\ start # e
  BY <1>a, <1>s, RowTypes DEF Event
<1>3. start \in Events
  BY <1>1, <1>2, <1>s DEF Events, Kinds
<1>4. ~Emitted(e) /\ ~Emitted(start)
  <2>1. ~Emitted(e)
    BY <1>1, <1>2 DEF Emitted, Active
  <2>2. start.part \notin 1..part[start.item]
    BY <1>2
  <2> QED
    BY <2>1, <2>2 DEF Emitted
<1>5. /\ c \in Contexts /\ c.role = r /\ c.index \in 1..n /\ n \in Nat /\ n >= counts[r]
      /\ \A b \in Staying(r) : Apart(c, b)
      /\ \A x \in c.events : x = e \/ Emitted(x)
      /\ <<i, part[i]>> \notin together =>
            Whole(c, <<i, part[i]>>) /\ "agent_finished" \in {x.kind : x \in c.events}
  BY <1>1, <1>4, <1>a, <1>c, Receives DEF Kinds
<1>6. /\ next = n + 1 /\ counts[r] \in Nat /\ next \in Nat /\ next > counts[r]
  <2>1. counts[r] \in Nat
    BY <1>2, RowTypes
  <2> QED
    BY <1>m, <1>5, <2>1 DEF NextIndex
<1> HIDE DEF n
<1>7. /\ d \in Contexts /\ d.role = r /\ d.index = next /\ d.events = {start}
      /\ \A b \in Rows : Apart(d, b)
  <2>1. r \in AgentRoles /\ next \in Nat /\ next > counts[r]
    BY <1>2, <1>6
  <2>2. /\ Context(r, next, {start}) \in Contexts /\ Context(r, next, {start}).role = r
        /\ Context(r, next, {start}).index = next /\ Context(r, next, {start}).events = {start}
        /\ \A b \in Rows : Apart(Context(r, next, {start}), b)
    BY <1>3, <1>4, <2>1, StartApart
  <2> QED
    BY <1>d, <2>2
<1>8. Apart(c, d) /\ Apart(d, c) /\ c # d /\ c.index # d.index
  <2>1. start \notin c.events
    BY <1>2, <1>4, <1>5
  <2>2. c.index \in Nat /\ c.index # d.index
    BY <1>5, <1>6, <1>7
  <2> QED
    BY <1>7, <2>1, <2>2 DEF Apart
<1>9. d \notin closed'
  BY <1>1, <1>7, <1>8, RowFacts DEF Apart
<1>10. /\ part'[i] = part[i] + 1 /\ part'[i] \in 1..Parts /\ phase'[i] = "running"
       /\ \A j \in Items : j # i => part'[j] = part[j] /\ phase'[j] = phase[j]
       /\ part' \in [Items -> 1..Parts]
       /\ phase' \in [Items -> {"waiting", "running", "worked", "ended"}]
  BY <1>1, <1>2, RowTypes
<1>11. \A x : Emitted(x) => Emitted(x)'
  <2> SUFFICES ASSUME NEW x, Emitted(x) PROVE Emitted(x)'
    OBVIOUS
  <2>1. x.item \in Items /\ x.part \in 1..part[x.item] /\ x.kind \in Kinds /\ part[x.item] \in Nat
    BY RowTypes DEF Emitted
  <2>2. CASE x.item = i
    <3>1. x.part \in 1..part'[i] /\ x.part # part'[i]
      BY <1>2, <1>10, <2>1, <2>2
    <3> QED
      BY <2>1, <2>2, <3>1 DEF Emitted
  <2>3. CASE x.item # i
    BY <1>10, <2>1, <2>3 DEF Emitted
  <2> QED
    BY <2>2, <2>3
<1>12. Emitted(e)' /\ Emitted(start)'
  <2>1. e.part \in 1..part'[i] /\ e.part # part'[i] /\ start.part \in 1..part'[i]
    BY <1>2, <1>10
  <2> QED
    BY <1>2, <1>10, <2>1 DEF Emitted, Kinds
<1>13. together' \subseteq Items \X (1..Parts) /\ done' \subseteq Items \X (1..Parts)
  <2>1. Overlap(i) \subseteq Items \X (1..Parts)
    BY <1>10, OverlapTells
  <2>2. <<i, part[i]>> \in Items \X (1..Parts)
    BY <1>2
  <2> QED
    BY <1>1, <2>1, <2>2, RowTypes
<1>14. LoneInvocationWhole'
  <2> SUFFICES ASSUME NEW v \in done', v \notin together'
               PROVE  \E row \in closed' :
                         /\ \A x \in row.events : Invocation(x) = v
                         /\ {"agent_started", "agent_finished"} \subseteq {x.kind : x \in row.events}
    BY DEF LoneInvocationWhole, Invocation
  <2>1. CASE v \in done
    BY <1>1, <2>1 DEF RowsInv, RowsTrue, LoneInvocationWhole
  <2>2. CASE v \notin done
    <3>1. v = <<i, part[i]>> /\ v \notin together
      BY <1>1, <2>2
    <3>2. Whole(c, v) /\ "agent_finished" \in {x.kind : x \in c.events}
      BY <1>5, <3>1
    <3> QED
      BY <1>1, <3>2 DEF Whole
  <2> QED
    BY <2>1, <2>2
<1>15. \A j \in Items : Active(j)' => Active(j)
  BY <1>1, <1>10 DEF Active
<1>16. Overlapping'
  <2> SUFFICES ASSUME NEW j \in Items, NEW k \in Items, j # k, RoleOf[j] = RoleOf[k], Active(j), Active(k)
               PROVE  <<j, part'[j]>> \in together'
    BY <1>15 DEF Overlapping
  <2>1. CASE j # i /\ k # i
    BY <1>1, <1>10, <2>1 DEF RowsInv, Overlapping
  <2>2. CASE j = i
    <3>1. <<i, part'[i]>> \in Overlap(i)
      BY <1>10, <2>2, OverlapTells
    <3> QED
      BY <1>1, <2>2, <3>1
  <2>3. CASE k = i
    <3>1. <<j, part[j]>> \in Overlap(i)
      BY <1>10, <2>3, OverlapTells
    <3> QED
      BY <1>1, <1>10, <2>3, <3>1
  <2> QED
    BY <2>1, <2>2, <2>3
<1>17. LoneIsOpen'
  <2> SUFFICES ASSUME NEW j \in Items, Active(j), <<j, part'[j]>> \notin together'
               PROVE  open'[RoleOf[j]] # NoContext /\ Whole(open'[RoleOf[j]], <<j, part'[j]>>)
    BY <1>15 DEF LoneIsOpen, Whole, Invocation
  <2>1. CASE j = i
    <3>1. open'[r] = d /\ d.index # 0
      BY <1>1, <1>2, <1>6, <1>7, RowTypes
    <3>2. Whole(d, <<i, part'[i]>>)
      BY <1>2, <1>7, <1>10 DEF Whole, Invocation
    <3> QED
      BY <2>1, <3>1, <3>2 DEF NoContext
  <2>2. CASE j # i
    <3>1. part'[j] = part[j] /\ <<j, part[j]>> \notin together
      BY <1>1, <1>10, <2>2
    <3>2. RoleOf[j] # r
      BY <1>1, <2>2, <3>1 DEF RowsInv, Overlapping
    <3>3. open'[RoleOf[j]] = open[RoleOf[j]]
      BY <1>1, <3>2, RowTypes
    <3> QED
      BY <3>1, <3>3 DEF RowsInv, LoneIsOpen
  <2> QED
    BY <2>1, <2>2
<1>18. /\ counts' \in [AgentRoles -> Nat] /\ counts'[r] = next
       /\ \A q \in AgentRoles : q # r => counts'[q] = counts[q]
  BY <1>1, <1>2, <1>6, RowTypes
<1>19. PICK new : new = {c, d}
  OBVIOUS
<1>20. /\ new \in SUBSET Contexts /\ d \in new /\ closed \subseteq closed'
       /\ closed' \subseteq closed \cup new
       /\ \A a, b \in new : a # b => Apart(a, b)
       /\ \A a \in new : \A x \in a.events : Emitted(x)'
  BY <1>1, <1>5, <1>7, <1>8, <1>11, <1>12, <1>19
<1>21. \A a \in new : a.role = r /\ a.index \in 1..counts'[r] /\ \A b \in Staying(r) : Apart(a, b)
  <2>1. c.index \in 1..next /\ d.index \in 1..next
    BY <1>5, <1>6, <1>7
  <2> QED
    BY <1>5, <1>7, <1>18, <1>19, <2>1 DEF Staying
<1>22. counts'[r] >= counts[r]
  BY <1>6, <1>18
<1> QED
  BY <1>1, <1>2, <1>9, <1>10, <1>11, <1>13, <1>14, <1>16, <1>17, <1>18, <1>20, <1>21, <1>22, ReadingThen

\* A failing agent leaves its context open for whoever comes next.
LEMMA FailKeeps == ASSUME RowsInv, NEW i \in Items, FailAgent(i) PROVE RowsInv'
<1>1. /\ Active(i) /\ phase' = [phase EXCEPT ![i] = "ended"] /\ part' = part /\ open' = open
      /\ closed' = closed /\ counts' = counts /\ done' = done /\ together' = together
  BY DEF FailAgent
<1>2. \A j \in Items : Active(j)' => Active(j)
  BY <1>1, RowTypes DEF Active
<1>3. RowsTypeOK'
  BY <1>1 DEF RowsInv, RowsTrue, RowsTypeOK, Rows
<1>4. AttributedOnce' /\ LoneInvocationWhole' /\ OpenNamed'
  BY <1>1 DEF RowsInv, RowsTrue, AttributedOnce, Rows, LoneInvocationWhole, Invocation, OpenNamed
<1>5. Overlapping' /\ LoneIsOpen'
  BY <1>1, <1>2 DEF RowsInv, Overlapping, LoneIsOpen, Whole, Invocation
<1>6. \A x : Emitted(x) => Emitted(x)'
  BY <1>1, RowTypes DEF Emitted, Active
<1>7. \A row \in Rows' : \A e \in row.events : Emitted(e)'
  BY <1>1, <1>6 DEF RowsInv, Rows
<1> QED
  BY <1>1, <1>3, <1>4, <1>5, <1>7 DEF RowsInv, RowsTrue

LEMMA RowsStart == RowsInit => RowsInv
<1> SUFFICES ASSUME RowsInit PROVE RowsInv
  OBVIOUS
<1>1. /\ phase = [i \in Items |-> "waiting"] /\ part = [i \in Items |-> 1]
      /\ open = [r \in AgentRoles |-> NoContext] /\ closed = {} /\ counts = [r \in AgentRoles |-> 0]
      /\ done = {} /\ together = {}
  BY DEF RowsInit
<1>2. Rows = {}
  BY <1>1 DEF Rows
<1>3. RowsTypeOK
  BY <1>1, <1>2, RowsAssumption DEF RowsTypeOK
<1>4. \A i \in Items : ~Active(i)
  BY <1>1 DEF Active
<1> QED
  BY <1>1, <1>2, <1>3, <1>4
  DEF RowsInv, RowsTrue, AttributedOnce, LoneInvocationWhole, OpenNamed, Overlapping, LoneIsOpen

\* However the agents of a run overlap, continue and fail, the rows attribute an
\* event once, and one row tells all of an invocation that ran alone and finished
\* (repositories.py _extract_agent_contexts and its twin for snapshots).
THEOREM RowsAreTrue == RowsSpec => []RowsTrue
<1>1. RowsInv /\ [RowsNext]_rowsVars => RowsInv'
  <2> SUFFICES ASSUME RowsInv, [RowsNext]_rowsVars PROVE RowsInv'
    OBVIOUS
  <2>1. CASE RowsNext
    <3>1. PICK i \in Items : \/ Begin(i) \/ Work(i) \/ Continue(i) \/ Finish(i) \/ FailAgent(i)
                             \/ Cancelled(i)
      BY <2>1 DEF RowsNext
    <3> QED
      BY <3>1, BeginKeeps, WorkKeeps, ContinueKeeps, EndKeeps, FailKeeps
  <2>2. CASE UNCHANGED rowsVars
    BY <2>2 DEF rowsVars, RowsInv, RowsTrue, RowsTypeOK, Rows, AttributedOnce, LoneInvocationWhole,
                Invocation, OpenNamed, Overlapping, Active, LoneIsOpen, Whole, Emitted
  <2> QED
    BY <2>1, <2>2
<1>2. RowsInv => RowsTrue
  BY DEF RowsInv
<1> QED
  BY <1>1, <1>2, RowsStart, PTL DEF RowsSpec

-----------------------------------------------------------------------------
(* The evidence.  What a run ends with follows from what it never loses on *)
(* the way: whatever was queued waits for an agent of the stage or has a   *)
(* result (Handled), and what the tools captured is among the results or   *)
(* was dropped by the gate (Reported).                                     *)

\* A result as one of the three agents, or its failure, makes it.
Shaped(res) ==
    res \in [url : Url, page : Pages, streams : SUBSET Url, servers : {res.servers}, embeds : SUBSET Url,
            decision : {res.decision}, text : {res.text}, listing : {res.listing}, status : Statuses]

UrlsOf(rs) == {res.url : res \in rs}

\* Whatever was queued waits for an agent of the stage, or has a result.
Handled ==
    /\ \A res \in results \cup buffer : Shaped(res) /\ res.url \in seen \cup {Root}
    /\ todo["hosting"] \cup todo["embedded"] \subseteq seen
    /\ stage \notin Roles => buffer = {} /\ todo["embedded"] = {}
    /\ stage # "hosting" => todo["hosting"] = {}
    /\ stage \in {"classify", "landing"} => seen = {}
    /\ ~halted => seen \subseteq todo["hosting"] \cup todo["embedded"] \cup UrlsOf(results \cup buffer)

\* Nothing the tools captured is lost on the way to the results.
Reported ==
    /\ owed \subseteq seen
    /\ ~halted => captured \subseteq AllStreams(results \cup buffer) \cup dropped

EvidenceInv == ETypeOK /\ Handled /\ Reported /\ OnlyPagesVisited /\ OnlyTriggered

LEMMA TheRoles ==
    /\ Roles = {"hosting", "embedded"} /\ "hosting" \in Roles /\ "embedded" \in Roles
    /\ "landing" \notin Roles /\ "gate" \notin Roles /\ "done" \notin Roles /\ "classify" \notin Roles
    /\ "no_target" \notin Roles /\ Pages = {"hosting", "embedded", "landing"}
    /\ Root \in Url /\ Root \notin Streams /\ Streams \subseteq Url /\ Http \subseteq Url
    /\ Streams \subseteq Http /\ None \notin Url
BY EvidenceAssumption DEF Roles, Pages

LEMMA Streaming ==
    ASSUME NEW rs, NEW more
    PROVE  /\ AllStreams(rs \cup more) = AllStreams(rs) \cup AllStreams(more)
           /\ \A res \in rs : res.streams \cap Streams \subseteq AllStreams(rs)
           /\ AllStreams(rs) \subseteq Streams
           /\ UrlsOf(rs \cup more) = UrlsOf(rs) \cup UrlsOf(more)
BY DEF AllStreams, UrlsOf

LEMMA PlayersTyped ==
    ASSUME NEW servers, \A s \in servers : s.streams \subseteq Url /\ s.player \in Url \cup {None}
    PROVE  PlayersOf(servers) \subseteq Url /\ StreamsOf(servers) \subseteq Url
BY DEF PlayersOf, StreamsOf

LEMMA MemoryTyped ==
    ASSUME NEW servers, \A s \in servers : s.streams \subseteq Url /\ s.player \in Url \cup {None},
           NEW mem \in Memories, NEW players \in SUBSET Url, NEW status
    PROVE  LET ss == WithMemory(servers, mem, players, status)
           IN  PlayersOf(ss) \subseteq Url /\ StreamsOf(ss) \subseteq Url
<1>1. mem.streams \subseteq Url
  BY EvidenceAssumption
<1>2. FirstOf(players) \in Url \cup {None}
  BY DEF FirstOf
<1>3. /\ MemoryServer(mem, players, status).streams \subseteq Url
      /\ MemoryServer(mem, players, status).player \in Url \cup {None}
  BY <1>1, <1>2 DEF MemoryServer
<1>4. \A s \in WithMemory(servers, mem, players, status) :
         s.streams \subseteq Url /\ s.player \in Url \cup {None}
  BY <1>3 DEF WithMemory
<1> QED
  BY <1>4, PlayersTyped

LEMMA AllowedPages ==
    ASSUME NEW u, NEW urls
    PROVE  /\ Allowed(u, urls) \subseteq Url /\ Allowed(u, urls) \subseteq urls
           /\ Allowed(u, urls) \cap Streams = {} /\ Allowed(u, urls) \cap OffTarget = {}
           /\ \A more : urls \subseteq more => Allowed(u, urls) \subseteq Allowed(u, more)
BY TheRoles DEF Allowed

LEMMA HostResults ==
    ASSUME NEW u \in Url, NEW ans \in HostAnswers, NEW mem \in Memories
    PROVE  LET res == HostResult(u, ans, mem)
           IN  /\ Shaped(res) /\ res.url = u /\ res.page = "hosting" /\ res.status \in Statuses
               /\ res.streams \subseteq Url /\ res.embeds \subseteq Url
               /\ mem.streams \cap Streams \subseteq res.streams
               /\ Allowed(u, mem.iframes) \subseteq EmbedTargets(res)
               /\ ans.decision = "" /\ Allowed(u, mem.iframes) # {} => FollowedUp(res)
<1> DEFINE servers == HostServers(ans, mem)
           streams == Listed(ans, mem, servers)
           embeds  == NeedingEmbed(ans, mem)
           decision == Decision(ans.decision, streams, embeds)
           res == HostResult(u, ans, mem)
<1>1. /\ res.url = u /\ res.page = "hosting" /\ res.streams = streams /\ res.embeds = embeds
      /\ res.decision = decision /\ res.status \in Statuses
  BY DEF HostResult, Statuses
<1>3. /\ ans.rows \subseteq Url /\ ans.embeds \subseteq Url /\ mem.iframes \subseteq Url
      /\ mem.streams \subseteq Url
      /\ \A s \in ans.servers : s.streams \subseteq Url /\ s.player \in Url \cup {None}
  BY EvidenceAssumption
<1>4. PlayersOf(servers) \subseteq Url /\ StreamsOf(servers) \subseteq Url
  BY <1>3, MemoryTyped DEF HostServers
<1>5. streams \subseteq Url /\ embeds \subseteq Url /\ mem.iframes \subseteq embeds
  BY <1>3, <1>4 DEF Listed, NeedingEmbed
<1>6. mem.streams \cap Streams \subseteq streams
  BY TheRoles DEF Listed
<1>2. Shaped(res)
  BY <1>5, TheRoles DEF HostResult, Shaped, Statuses
<1> HIDE DEF servers, streams, embeds
<1>7. Allowed(u, mem.iframes) \subseteq EmbedTargets(res)
  <2>1. mem.iframes \subseteq res.embeds \cup PlayersOf(res.servers)
    BY <1>1, <1>5
  <2> QED
    BY <1>1, <2>1, AllowedPages DEF EmbedTargets
<1>8. ASSUME ans.decision = "", Allowed(u, mem.iframes) # {} PROVE FollowedUp(res)
  <2>1. embeds # {}
    BY <1>5, <1>8, AllowedPages
  <2> QED
    BY <1>1, <1>8, <2>1 DEF FollowedUp, Decision, Triggers
<1> QED
  BY <1>1, <1>2, <1>5, <1>6, <1>7, <1>8

LEMMA EmbedResults ==
    ASSUME NEW u \in Url, NEW ans \in EmbedAnswers, NEW mem \in Memories
    PROVE  LET res == EmbedResult(u, ans, mem)
           IN  /\ Shaped(res) /\ res.url = u /\ res.page = "embedded" /\ res.status \in Statuses
               /\ res.streams \subseteq Url /\ res.embeds \subseteq Url
               /\ mem.streams \cap Streams \subseteq res.streams
<1> DEFINE servers == EmbedServers(ans, mem)
           streams == EmbedStreams(ans, mem)
           res == EmbedResult(u, ans, mem)
<1>1. /\ res.url = u /\ res.page = "embedded" /\ res.streams = streams
      /\ res.embeds = PlayersOf(servers) /\ res.status \in Statuses
  BY DEF EmbedResult, Statuses
<1>3. /\ ans.rows \subseteq Url /\ mem.iframes \subseteq Url /\ mem.streams \subseteq Url
      /\ \A s \in ans.servers : s.streams \subseteq Url /\ s.player \in Url \cup {None}
  BY EvidenceAssumption
<1>4. PlayersOf(servers) \subseteq Url /\ StreamsOf(servers) \subseteq Url
  BY <1>3, MemoryTyped DEF EmbedServers
<1>5. streams \subseteq Url /\ mem.streams \cap Streams \subseteq streams
  BY <1>3, <1>4, TheRoles DEF EmbedStreams, Listed
<1>2. Shaped(res)
  BY <1>4, <1>5, TheRoles DEF EmbedResult, Shaped, Statuses
<1> QED
  BY <1>1, <1>2, <1>4, <1>5

LEMMA LandingResults ==
    ASSUME NEW ans \in PageAnswers, NEW mem \in Memories
    PROVE  LET res == LandingResult(ans, mem)
           IN  /\ Shaped(res) /\ res.url = Root /\ res.page = "landing" /\ res.status \in Statuses
               /\ res.streams \subseteq Url /\ res.embeds \subseteq Url /\ res.listing \subseteq Url
               /\ mem.streams \cap Streams \subseteq res.streams
<1> DEFINE res == LandingResult(ans, mem)
           pages == ListedPages(ans, mem)
           direct == DirectStreams(ans, mem)
<1>1. /\ res.url = Root /\ res.page = "landing" /\ res.streams = direct \cup (pages \cap Streams)
      /\ res.embeds = {} /\ res.listing = pages /\ res.status \in Statuses
  BY DEF LandingResult, Statuses
<1>3. /\ ans.pages \subseteq Url /\ mem.records \subseteq Url /\ mem.siblings \subseteq Url
  BY EvidenceAssumption
<1>4. pages \subseteq Url
  BY <1>3 DEF ListedPages, RecoveredPages, KeptPages
<1>5. direct \subseteq Url /\ mem.streams \cap Streams \subseteq direct
  BY TheRoles DEF DirectStreams
<1>2. Shaped(res)
  BY <1>4, <1>5, TheRoles DEF LandingResult, Shaped, Statuses
<1> QED
  BY <1>1, <1>2, <1>4, <1>5

LEMMA FailedResults ==
    ASSUME NEW u \in Url, NEW page \in Pages, NEW kind
    PROVE  LET res == FailedResult(u, page, kind)
           IN  /\ Shaped(res) /\ res.url = u /\ res.page = page /\ res.status \in Statuses
               /\ res.streams \subseteq Url /\ res.embeds \subseteq Url
BY DEF FailedResult, Shaped, Statuses

\* The gate takes streams from results and leaves the rest of them.
LEMMA Filtering ==
    ASSUME NEW rs, \A res \in rs : Shaped(res), NEW bad
    PROVE  /\ \A res \in Filtered(rs, bad) : Shaped(res) /\ \E old \in rs :
                 /\ res.url = old.url /\ res.page = old.page /\ res.status = old.status
                 /\ res.servers = old.servers /\ res.embeds = old.embeds
                 /\ res.decision = old.decision /\ res.streams = old.streams \ bad
           /\ UrlsOf(Filtered(rs, bad)) = UrlsOf(rs)
           /\ AllStreams(rs) \subseteq AllStreams(Filtered(rs, bad)) \cup bad
<1> DEFINE Cut(old) == [old EXCEPT !.streams = @ \ bad]
<1>1. ASSUME NEW old \in rs
      PROVE  /\ Shaped(Cut(old)) /\ Cut(old).url = old.url /\ Cut(old).page = old.page
             /\ Cut(old).status = old.status /\ Cut(old).servers = old.servers
             /\ Cut(old).embeds = old.embeds /\ Cut(old).decision = old.decision
             /\ Cut(old).streams = old.streams \ bad
  <2>1. PICK servers, decision, text, listing :
           /\ servers = old.servers /\ decision = old.decision
           /\ text = old.text /\ listing = old.listing
    OBVIOUS
  <2>2. old \in [url : Url, page : Pages, streams : SUBSET Url, servers : {servers}, embeds : SUBSET Url,
                 decision : {decision}, text : {text}, listing : {listing}, status : Statuses]
    BY <2>1 DEF Shaped
  <2>3. old.streams \ bad \in SUBSET Url
    BY <2>2
  <2> HIDE <2>1
  <2> QED
    BY <2>2, <2>3 DEF Shaped
<1>a. Filtered(rs, bad) = {Cut(old) : old \in rs}
  BY Zenon DEF Filtered
<1> HIDE DEF Cut
<1>2. \A res \in Filtered(rs, bad) : Shaped(res) /\ \E old \in rs :
                 /\ res.url = old.url /\ res.page = old.page /\ res.status = old.status
                 /\ res.servers = old.servers /\ res.embeds = old.embeds
                 /\ res.decision = old.decision /\ res.streams = old.streams \ bad
  BY <1>1, <1>a
<1>3. \A old \in rs : \E res \in Filtered(rs, bad) :
         res.url = old.url /\ res.servers = old.servers /\ res.streams = old.streams \ bad
  BY <1>1, <1>a
<1>4. UrlsOf(Filtered(rs, bad)) = UrlsOf(rs)
  BY <1>2, <1>3 DEF UrlsOf
<1>5. AllStreams(rs) \subseteq AllStreams(Filtered(rs, bad)) \cup bad
  <2> SUFFICES ASSUME NEW s \in AllStreams(rs), s \notin bad PROVE s \in AllStreams(Filtered(rs, bad))
    OBVIOUS
  <2>1. PICK old \in rs : s \in (old.streams \cup StreamsOf(old.servers)) \cap Streams
    BY DEF AllStreams
  <2>2. PICK res \in Filtered(rs, bad) : res.servers = old.servers /\ res.streams = old.streams \ bad
    BY <1>3
  <2>3. s \in (res.streams \cup StreamsOf(res.servers)) \cap Streams
    BY <2>1, <2>2
  <2> QED
    BY <2>3 DEF AllStreams
<1> QED
  BY <1>2, <1>4, <1>5

\* What the invariant says of the end of a run.
LEMMA EndTells == EvidenceInv => CapturedReported /\ PlayersVisited /\ AnsweredNotFailed
<1> SUFFICES ASSUME EvidenceInv PROVE CapturedReported /\ PlayersVisited /\ AnsweredNotFailed
  OBVIOUS
<1>1. CapturedReported
  <2> SUFFICES ASSUME stage = "done", ~halted PROVE captured \subseteq AllStreams(results) \cup dropped
    BY DEF CapturedReported
  <2>1. buffer = {} /\ captured \subseteq AllStreams(results \cup buffer) \cup dropped
    BY TheRoles DEF EvidenceInv, Handled, Reported
  <2>2. results \cup buffer = results
    BY <2>1
  <2> QED
    BY <2>1, <2>2
<1>2. PlayersVisited
  <2> SUFFICES ASSUME stage = "done", ~halted PROVE owed \subseteq UrlsOf(results)
    BY DEF PlayersVisited, UrlsOf
  <2>1. buffer = {} /\ todo["hosting"] = {} /\ todo["embedded"] = {}
    BY TheRoles DEF EvidenceInv, Handled
  <2>2. owed \subseteq UrlsOf(results \cup buffer) /\ results \cup buffer = results
    BY <2>1 DEF EvidenceInv, Handled, Reported
  <2> QED
    BY <2>2
<1>3. AnsweredNotFailed
  <2> SUFFICES ASSUME NEW res \in results, res.status # "failed" \/ NoHostingPages(res), stage = "done"
               PROVE  FinalStatus(results) # "failed"
    BY DEF AnsweredNotFailed
  <2>1. res.status \in Statuses
    BY DEF EvidenceInv, ETypeOK
  <2>2. CASE NoHostingPages(res)
    BY <2>2 DEF FinalStatus
  <2>3. CASE res.status = "timeout"
    BY <2>3 DEF FinalStatus
  <2>4. CASE res.status \in {"success", "partial"}
    <3>1. Nonfailed(results)
      BY <2>4 DEF Nonfailed
    <3> QED
      BY <3>1 DEF FinalStatus
  <2> QED
    BY <2>1, <2>2, <2>3, <2>4 DEF Statuses
<1> QED
  BY <1>1, <1>2, <1>3

LEMMA EvidenceTypes ==
    ASSUME EvidenceInv
    PROVE  /\ todo \in [Roles -> SUBSET Url] /\ todo["hosting"] \subseteq Url /\ todo["embedded"] \subseteq Url
           /\ todo["hosting"] \cup todo["embedded"] \subseteq seen /\ seen \subseteq Url
           /\ seen \cap Streams = {} /\ replans \in 0..MaxReplans /\ MaxReplans \in Nat
           /\ captured \subseteq Streams /\ owed \subseteq seen /\ dropped \subseteq Streams
           /\ \A res \in results \cup buffer : Shaped(res) /\ res.url \in seen \cup {Root}
BY TheRoles, EvidenceAssumption DEF EvidenceInv, ETypeOK, Handled, Reported, OnlyPagesVisited

LEMMA ShapedTyped ==
    ASSUME NEW res, Shaped(res)
    PROVE  /\ res.url \in Url /\ res.page \in Pages /\ res.status \in Statuses
           /\ res.streams \in SUBSET Url /\ res.embeds \in SUBSET Url
BY DEF Shaped

LEMMA ClassifyKeeps ==
    ASSUME EvidenceInv, NEW type \in Pages \cup {"unknown"},
           NEW next \in {"landing", "hosting", "embedded", "gate", "no_target"}, Classify(type, next)
    PROVE  EvidenceInv'
<1>1. /\ stage = "classify" /\ asked' = type /\ stage' = next /\ pending' = (next \in Roles)
      /\ buffer' = buffer /\ results' = results /\ replans' = replans /\ dropped' = dropped
      /\ halted' = halted /\ captured' = captured /\ owed' = owed
  BY DEF Classify
<1>2. /\ buffer = {} /\ seen = {} /\ todo["hosting"] = {} /\ todo["embedded"] = {} /\ owed = {}
  BY <1>1, TheRoles, EvidenceTypes DEF EvidenceInv, Handled
<1>3. /\ todo' \in [Roles -> SUBSET Url] /\ seen' \subseteq {Root}
      /\ todo'["hosting"] \cup todo'["embedded"] = seen'
      /\ next # "hosting" => todo'["hosting"] = {}
      /\ next # "embedded" => todo'["embedded"] = {}
      /\ next = "landing" => seen' = {}
  <2>1. CASE next \in Roles
    <3>1. todo' = [todo EXCEPT ![next] = @ \cup ({Root} \ seen)] /\ seen' = seen \cup {Root}
      BY <1>1, <2>1 DEF Classify, Enqueue
    <3> QED
      BY <1>2, <2>1, <3>1, TheRoles, EvidenceTypes
  <2>2. CASE next \notin Roles
    <3>1. todo' = todo /\ seen' = seen
      BY <1>1, <2>2 DEF Classify
    <3> QED
      BY <1>2, <3>1, TheRoles, EvidenceTypes
  <2> QED
    BY <2>1, <2>2
<1>4. ETypeOK'
  BY <1>1, <1>2, <1>3, TheRoles DEF EvidenceInv, ETypeOK
<1>5. Handled'
  <2>1. ~halted => UrlsOf(results \cup buffer) \in SUBSET UrlsOf(results' \cup buffer')
    BY <1>1
  <2> QED
    BY <1>1, <1>2, <1>3, <2>1, TheRoles DEF EvidenceInv, Handled
<1>6. Reported'
  BY <1>1, <1>2 DEF EvidenceInv, Reported
<1>7. OnlyPagesVisited' /\ OnlyTriggered'
  BY <1>3, TheRoles DEF OnlyPagesVisited, OnlyTriggered
<1> QED
  BY <1>4, <1>5, <1>6, <1>7 DEF EvidenceInv

LEMMA LandingPageKeeps ==
    ASSUME EvidenceInv, NEW ans \in PageAnswers, NEW mem \in Memories, LandingPage(ans, mem)
    PROVE  EvidenceInv'
<1>1. PICK res : res = LandingResult(ans, mem)
  OBVIOUS
<1>2. PICK targets : targets = res.listing \ Streams
  OBVIOUS
<1>3. /\ stage = "landing" /\ results' = results \cup {res} /\ pending' = (targets # {})
      /\ captured' = captured \cup (mem.streams \cap Streams)
      /\ stage' = (IF targets # {} THEN "hosting" ELSE "gate")
      /\ todo' = [todo EXCEPT !["hosting"] = @ \cup (targets \ seen)] /\ seen' = seen \cup targets
      /\ asked' = asked /\ buffer' = buffer /\ replans' = replans /\ dropped' = dropped
      /\ halted' = halted /\ owed' = owed
  BY <1>1, <1>2 DEF LandingPage, Enqueue
<1>4. /\ buffer = {} /\ seen = {} /\ todo["hosting"] = {} /\ todo["embedded"] = {} /\ owed = {}
  BY <1>3, TheRoles, EvidenceTypes DEF EvidenceInv, Handled
<1>5. /\ Shaped(res) /\ res.url = Root /\ res.streams \subseteq Url /\ targets \subseteq Url
      /\ targets \cap Streams = {} /\ mem.streams \cap Streams \subseteq res.streams
  BY <1>1, <1>2, LandingResults
<1>6. /\ todo' \in [Roles -> SUBSET Url] /\ seen' = targets
      /\ todo'["hosting"] = targets /\ todo'["embedded"] = {}
  BY <1>3, <1>4, <1>5, TheRoles, EvidenceTypes
<1>7. ETypeOK'
  BY <1>3, <1>4, <1>5, <1>6, TheRoles, ShapedTyped DEF EvidenceInv, ETypeOK
<1>8. Handled'
  BY <1>3, <1>4, <1>5, <1>6, TheRoles DEF EvidenceInv, Handled
<1>9. Reported'
  <2>1. results' \cup buffer' = (results \cup buffer) \cup {res}
    BY <1>3
  <2>2. mem.streams \cap Streams \subseteq AllStreams({res})
    BY <1>5 DEF AllStreams
  <2>3. AllStreams(results' \cup buffer') = AllStreams(results \cup buffer) \cup AllStreams({res})
    BY <2>1, Streaming
  <2>4. ~halted' => captured' \subseteq AllStreams(results' \cup buffer') \cup dropped'
    BY <1>3, <2>2, <2>3 DEF EvidenceInv, Reported
  <2> QED
    BY <1>3, <1>4, <2>4, Zenon DEF Reported
<1>10. OnlyPagesVisited' /\ OnlyTriggered'
  BY <1>5, <1>6 DEF OnlyPagesVisited, OnlyTriggered
<1> QED
  BY <1>7, <1>8, <1>9, <1>10 DEF EvidenceInv

LEMMA LandingFailsKeeps ==
    ASSUME EvidenceInv, NEW kind, LandingFails(kind)
    PROVE  EvidenceInv'
<1>1. PICK res : res = FailedResult(Root, "landing", kind)
  OBVIOUS
<1>2. /\ stage = "landing" /\ results' = results \cup {res} /\ stage' = "gate"
      /\ asked' = asked /\ pending' = pending /\ todo' = todo /\ seen' = seen /\ buffer' = buffer
      /\ replans' = replans /\ dropped' = dropped /\ halted' = halted /\ captured' = captured
      /\ owed' = owed
  BY <1>1 DEF LandingFails
<1>3. Shaped(res) /\ res.url = Root
  BY <1>1, TheRoles, FailedResults
<1>4. /\ buffer = {} /\ seen = {} /\ todo["hosting"] = {} /\ todo["embedded"] = {} /\ owed = {}
  BY <1>2, TheRoles, EvidenceTypes DEF EvidenceInv, Handled
<1>5. ETypeOK'
  BY <1>2, <1>3, TheRoles, ShapedTyped DEF EvidenceInv, ETypeOK
<1>6. Handled'
  BY <1>2, <1>3, <1>4, TheRoles DEF EvidenceInv, Handled
<1>7. Reported'
  <2>1. results' \cup buffer' = (results \cup buffer) \cup {res}
    BY <1>2
  <2>2. AllStreams(results' \cup buffer') = AllStreams(results \cup buffer) \cup AllStreams({res})
    BY <2>1, Streaming
  <2> QED
    BY <1>2, <1>4, <2>2 DEF EvidenceInv, Reported
<1>8. OnlyPagesVisited' /\ OnlyTriggered'
  BY <1>2, <1>4 DEF EvidenceInv, OnlyPagesVisited, OnlyTriggered
<1> QED
  BY <1>5, <1>6, <1>7, <1>8 DEF EvidenceInv

\* An agent of a pool ends: its result joins the buffer, its target is done with,
\* and new targets are queued.
LEMMA AgentEnds ==
    ASSUME EvidenceInv, stage \in Roles, stage' = stage,
           NEW u, u \in todo[stage], NEW res, Shaped(res), res.url = u,
           buffer' = buffer \cup {res}, results' = results, replans' = replans, dropped' = dropped,
           halted' = halted, asked' = asked, pending' = pending,
           todo' \in [Roles -> SUBSET Url],
           seen \subseteq seen', seen' \subseteq Url, seen' \cap Streams = {},
           todo'["hosting"] \cup todo'["embedded"] \subseteq seen',
           seen' \subseteq seen \cup todo'["hosting"] \cup todo'["embedded"],
           todo["hosting"] \cup todo["embedded"] \subseteq todo'["hosting"] \cup todo'["embedded"] \cup {u},
           stage # "hosting" => todo'["hosting"] = {},
           \A v \in todo'["embedded"] \ todo["embedded"] :
              v \notin OffTarget /\ res.page = "hosting" /\ res.decision \in Triggers /\ v \in EmbedTargets(res),
           captured \subseteq captured', captured' \subseteq captured \cup (res.streams \cap Streams),
           owed' \subseteq seen'
    PROVE  EvidenceInv'
<1>1. results' \cup buffer' = (results \cup buffer) \cup {res}
  OBVIOUS
<1>2. captured' \subseteq Streams /\ owed' \subseteq Url
  BY EvidenceTypes
<1>3. ETypeOK'
  BY <1>1, <1>2, ShapedTyped DEF EvidenceInv, ETypeOK
<1>4. Handled'
  <2>1. \A r \in results' \cup buffer' : Shaped(r) /\ r.url \in seen' \cup {Root}
    <3>1. u \in seen
      BY TheRoles, EvidenceTypes
    <3> QED
      BY <1>1, <3>1, EvidenceTypes
  <2>2. UrlsOf(results' \cup buffer') = UrlsOf(results \cup buffer) \cup {u}
    BY <1>1 DEF UrlsOf
  <2>3. ~halted => seen \subseteq todo["hosting"] \cup todo["embedded"] \cup UrlsOf(results \cup buffer)
    BY DEF EvidenceInv, Handled
  <2>4. ~halted' => seen' \subseteq todo'["hosting"] \cup todo'["embedded"] \cup UrlsOf(results' \cup buffer')
    BY <2>2, <2>3
  <2> QED
    BY <2>1, <2>4, TheRoles DEF Handled
<1>5. Reported'
  <2>1. res.streams \cap Streams \subseteq AllStreams({res})
    BY DEF AllStreams
  <2>2. AllStreams((results \cup buffer) \cup {res}) = AllStreams(results \cup buffer) \cup AllStreams({res})
    BY Streaming
  <2>3. ~halted' => captured' \subseteq AllStreams(results' \cup buffer') \cup dropped'
    <3>1. ~halted => captured \subseteq AllStreams(results \cup buffer) \cup dropped
      BY DEF EvidenceInv, Reported
    <3>2. ~halted => captured' \subseteq AllStreams((results \cup buffer) \cup {res}) \cup dropped
      BY <2>1, <2>2, <3>1
    <3>3. AllStreams((results \cup buffer) \cup {res}) = AllStreams(results' \cup buffer')
      BY <1>1, Zenon
    <3> QED
      BY <3>2, <3>3
  <2> QED
    BY <2>3, Zenon DEF Reported
<1>6. OnlyPagesVisited'
  BY DEF EvidenceInv, OnlyPagesVisited
<1>7. OnlyTriggered'
  <2> SUFFICES ASSUME NEW v \in todo'["embedded"] \ {Root}
               PROVE  \E r \in results' \cup buffer' :
                         r.page = "hosting" /\ r.decision \in Triggers /\ v \in EmbedTargets(r)
    BY DEF OnlyTriggered
  <2>1. CASE v \in todo["embedded"]
    <3>1. \E r \in results \cup buffer :
             r.page = "hosting" /\ r.decision \in Triggers /\ v \in EmbedTargets(r)
      BY <2>1 DEF EvidenceInv, OnlyTriggered
    <3> QED
      BY <1>1, <3>1
  <2>2. CASE v \notin todo["embedded"]
    BY <1>1, <2>2
  <2> QED
    BY <2>1, <2>2
<1> QED
  BY <1>3, <1>4, <1>5, <1>6, <1>7 DEF EvidenceInv

LEMMA HostingPageKeeps ==
    ASSUME EvidenceInv, NEW u \in Url, NEW ans \in HostAnswers, NEW mem \in Memories,
           HostingPage(u, ans, mem)
    PROVE  EvidenceInv'
<1>1. PICK res : res = HostResult(u, ans, mem)
  OBVIOUS
<1>2. PICK more : more = FrontierTargets(u, ans.more)
  OBVIOUS
<1>3. PICK players : players = IF FollowedUp(res) THEN EmbedTargets(res) ELSE {}
  OBVIOUS
<1>4. /\ stage = "hosting" /\ u \in todo["hosting"] /\ buffer' = buffer \cup {res}
      /\ todo' = [hosting |-> (todo["hosting"] \cup (more \ seen)) \ {u},
                  embedded |-> todo["embedded"] \cup (players \ (seen \cup more))]
      /\ seen' = seen \cup more \cup players
      /\ captured' = captured \cup (mem.streams \cap Streams)
      /\ owed' = IF ans.decision = "" THEN owed \cup Allowed(u, mem.iframes) ELSE owed
      /\ stage' = stage /\ asked' = asked /\ pending' = pending /\ results' = results
      /\ replans' = replans /\ dropped' = dropped /\ halted' = halted
  BY <1>1, <1>2, <1>3 DEF HostingPage
<1>5. /\ Shaped(res) /\ res.url = u /\ res.page = "hosting"
      /\ mem.streams \cap Streams \subseteq res.streams
      /\ Allowed(u, mem.iframes) \subseteq EmbedTargets(res)
      /\ ans.decision = "" /\ Allowed(u, mem.iframes) # {} => FollowedUp(res)
  BY <1>1, HostResults
<1>6. more \subseteq Url /\ more \cap Streams = {} /\ u \notin more
  <2>1. ans.more \subseteq Url
    BY EvidenceAssumption
  <2> QED
    BY <1>2, <2>1 DEF FrontierTargets
<1>7. /\ players \subseteq EmbedTargets(res) /\ players \subseteq Url
      /\ players \cap Streams = {} /\ players \cap OffTarget = {}
      /\ \A v \in players : res.decision \in Triggers
  BY <1>3, AllowedPages DEF EmbedTargets, FollowedUp
<1>8. /\ todo' \in [Roles -> SUBSET Url]
      /\ todo'["hosting"] = (todo["hosting"] \cup (more \ seen)) \ {u}
      /\ todo'["embedded"] = todo["embedded"] \cup (players \ (seen \cup more))
  <2>1. /\ todo'["hosting"] = (todo["hosting"] \cup (more \ seen)) \ {u}
        /\ todo'["embedded"] = todo["embedded"] \cup (players \ (seen \cup more))
    BY <1>4
  <2>2. PICK a, b \in SUBSET Url : /\ a = (todo["hosting"] \cup (more \ seen)) \ {u}
                                   /\ b = todo["embedded"] \cup (players \ (seen \cup more))
    BY <1>6, <1>7, EvidenceTypes
  <2>3. todo' = [hosting |-> a, embedded |-> b]
    BY <1>4, <2>2
  <2>4. todo' \in [Roles -> SUBSET Url]
    BY <2>3 DEF Roles
  <2> QED
    BY <2>1, <2>4
<1>9. owed' \subseteq seen'
  <2>1. ans.decision = "" => Allowed(u, mem.iframes) \subseteq players
    BY <1>3, <1>5
  <2> QED
    BY <1>4, <2>1, EvidenceTypes
<1>10. /\ todo'["hosting"] \cup todo'["embedded"] \subseteq seen'
       /\ seen' \subseteq seen \cup todo'["hosting"] \cup todo'["embedded"]
       /\ todo["hosting"] \cup todo["embedded"] \subseteq todo'["hosting"] \cup todo'["embedded"] \cup {u}
       /\ seen \subseteq seen' /\ seen' \subseteq Url /\ seen' \cap Streams = {}
  BY <1>4, <1>6, <1>7, <1>8, EvidenceTypes
<1>11. \A v \in todo'["embedded"] \ todo["embedded"] :
          v \notin OffTarget /\ res.page = "hosting" /\ res.decision \in Triggers /\ v \in EmbedTargets(res)
  BY <1>5, <1>7, <1>8
<1>12. captured \subseteq captured' /\ captured' \subseteq captured \cup (res.streams \cap Streams)
  BY <1>4, <1>5
<1>13. stage \in Roles /\ u \in todo[stage]
  BY <1>4, TheRoles
<1> QED
  BY <1>4, <1>5, <1>8, <1>9, <1>10, <1>11, <1>12, <1>13, AgentEnds

LEMMA OtherAgentKeeps ==
    ASSUME EvidenceInv, NEW u \in Url,
           \/ \E ans \in EmbedAnswers, mem \in Memories : EmbeddedPage(u, ans, mem)
           \/ \E role \in Roles, kind \in Failures : AgentFails(role, u, kind)
    PROVE  EvidenceInv'
<1>1. PICK role, res : role \in Roles
         /\ stage = role /\ u \in todo[role] /\ Shaped(res) /\ res.url = u
         /\ buffer' = buffer \cup {res} /\ todo' = [todo EXCEPT ![role] = @ \ {u}]
         /\ captured \subseteq captured' /\ captured' \subseteq captured \cup (res.streams \cap Streams)
         /\ stage' = stage /\ asked' = asked /\ pending' = pending /\ seen' = seen
         /\ results' = results /\ replans' = replans /\ dropped' = dropped /\ halted' = halted
         /\ owed' = owed
  <2>1. CASE \E ans \in EmbedAnswers, mem \in Memories : EmbeddedPage(u, ans, mem)
    <3>1. PICK ans \in EmbedAnswers, mem \in Memories : EmbeddedPage(u, ans, mem)
      BY <2>1
    <3>2. PICK res : res = EmbedResult(u, ans, mem)
      OBVIOUS
    <3>3. Shaped(res) /\ res.url = u /\ mem.streams \cap Streams \subseteq res.streams
      BY <3>2, EmbedResults
    <3>4. /\ stage = "embedded" /\ u \in todo["embedded"] /\ buffer' = buffer \cup {res}
          /\ todo' = [todo EXCEPT !["embedded"] = @ \ {u}]
          /\ captured' = captured \cup (mem.streams \cap Streams)
          /\ stage' = stage /\ asked' = asked /\ pending' = pending /\ seen' = seen
          /\ results' = results /\ replans' = replans /\ dropped' = dropped /\ halted' = halted
          /\ owed' = owed
      BY <3>1, <3>2 DEF EmbeddedPage
    <3>5. captured \subseteq captured' /\ captured' \subseteq captured \cup (res.streams \cap Streams)
      BY <3>3, <3>4
    <3> QED
      BY <3>3, <3>4, <3>5, TheRoles
  <2>2. CASE \E role \in Roles, kind \in Failures : AgentFails(role, u, kind)
    <3>1. PICK role \in Roles, kind \in Failures : AgentFails(role, u, kind)
      BY <2>2
    <3>2. PICK res : res = FailedResult(u, role, kind)
      OBVIOUS
    <3>3. Shaped(res) /\ res.url = u
      BY <3>2, TheRoles, FailedResults
    <3>4. /\ stage = role /\ u \in todo[role] /\ buffer' = buffer \cup {res}
          /\ todo' = [todo EXCEPT ![role] = @ \ {u}] /\ captured' = captured
          /\ stage' = stage /\ asked' = asked /\ pending' = pending /\ seen' = seen
          /\ results' = results /\ replans' = replans /\ dropped' = dropped /\ halted' = halted
          /\ owed' = owed
      BY <3>1, <3>2 DEF AgentFails
    <3>5. captured \subseteq captured' /\ captured' \subseteq captured \cup (res.streams \cap Streams)
      BY <3>4
    <3> QED
      BY <3>3, <3>4, <3>5
  <2> QED
    BY <2>1, <2>2
<1>2. /\ todo' \in [Roles -> SUBSET Url] /\ todo'[role] = todo[role] \ {u}
      /\ \A r \in Roles : r # role => todo'[r] = todo[r]
  BY <1>1, EvidenceTypes
<1>3. /\ todo'["hosting"] \subseteq todo["hosting"] /\ todo'["embedded"] \subseteq todo["embedded"]
      /\ todo["hosting"] \subseteq todo'["hosting"] \cup {u}
      /\ todo["embedded"] \subseteq todo'["embedded"] \cup {u}
  BY <1>2, TheRoles
<1>4. stage # "hosting" => todo'["hosting"] = {}
  BY <1>3 DEF EvidenceInv, Handled
<1>5. /\ seen' \subseteq Url /\ seen' \cap Streams = {} /\ owed' \subseteq seen'
      /\ todo'["hosting"] \cup todo'["embedded"] \subseteq seen'
      /\ \A v \in todo'["embedded"] \ todo["embedded"] : FALSE
  BY <1>1, <1>3, EvidenceTypes
<1>6. /\ todo["hosting"] \cup todo["embedded"] \subseteq todo'["hosting"] \cup todo'["embedded"] \cup {u}
      /\ seen \subseteq seen' /\ seen' \subseteq seen \cup todo'["hosting"] \cup todo'["embedded"]
      /\ stage \in Roles /\ u \in todo[stage]
  BY <1>1, <1>3
<1> QED
  BY <1>1, <1>2, <1>4, <1>5, <1>6, AgentEnds

LEMMA FoldKeeps ==
    ASSUME EvidenceInv, Fold
    PROVE  EvidenceInv'
<1>1. PICK more \in BOOLEAN : more = (stage = "hosting" /\ EverQueuedPlayer)
  OBVIOUS
<1>2. /\ stage \in Roles /\ todo[stage] = {} /\ results' = results \cup buffer /\ buffer' = {}
      /\ pending' = more /\ stage' = IF more THEN "embedded" ELSE "gate"
      /\ asked' = asked /\ todo' = todo /\ seen' = seen /\ replans' = replans /\ dropped' = dropped
      /\ halted' = halted /\ captured' = captured /\ owed' = owed
  BY <1>1 DEF Fold
<1>3. results' \cup buffer' = results \cup buffer
  BY <1>2
<1>4. todo["hosting"] = {} /\ (~more => todo["embedded"] = {})
  BY <1>1, <1>2, TheRoles DEF EvidenceInv, Handled, EverQueuedPlayer
<1>5. ETypeOK'
  BY <1>2, <1>3, TheRoles DEF EvidenceInv, ETypeOK
<1>6. Handled'
  BY <1>2, <1>3, <1>4, TheRoles DEF EvidenceInv, Handled
<1>7. Reported'
  BY <1>2, <1>3 DEF EvidenceInv, Reported
<1>8. OnlyPagesVisited' /\ OnlyTriggered'
  BY <1>2, <1>3 DEF EvidenceInv, OnlyPagesVisited, OnlyTriggered
<1> QED
  BY <1>5, <1>6, <1>7, <1>8 DEF EvidenceInv

LEMMA GateKeeps ==
    ASSUME EvidenceInv, NEW dead \in SUBSET Streams,
           NEW verdict \in JudgeVerdicts \cup {FallbackVerdict}, Gate(dead, verdict)
    PROVE  EvidenceInv'
<1>1. PICK found : found = AllStreams(results)
  OBVIOUS
<1>2. PICK bad : bad = dead \cup (verdict.flagged \cap found)
  OBVIOUS
<1>3. PICK replan \in BOOLEAN :
         replan = (~(verdict.good /\ found \ bad # {}) /\ replans < MaxReplans)
  OBVIOUS
<1>4. PICK back : back = IF replan THEN Affected(bad) ELSE {}
  OBVIOUS
<1>5. /\ stage = "gate" /\ results' = Filtered(results, bad) /\ dropped' = (dropped \ found) \cup bad
      /\ replans' = IF replan THEN replans + 1 ELSE replans
      /\ todo' = [todo EXCEPT !["hosting"] = @ \cup (back \ seen)] /\ seen' = seen \cup back
      /\ pending' = (back # {}) /\ stage' = IF replan THEN "hosting" ELSE "done"
      /\ asked' = asked /\ buffer' = buffer /\ halted' = halted /\ captured' = captured
      /\ owed' = owed
  BY <1>1, <1>2, <1>3, <1>4 DEF Gate, Enqueue
<1>6. /\ buffer = {} /\ todo["embedded"] = {} /\ todo["hosting"] = {}
  BY <1>5, TheRoles DEF EvidenceInv, Handled
<1>7. \A res \in results : Shaped(res) /\ res.url \in seen \cup {Root}
  BY EvidenceTypes
<1>8. back \subseteq seen \cup {Root}
  BY <1>4, <1>7 DEF Affected
<1>9. bad \subseteq Streams
  BY <1>1, <1>2, Streaming
<1>10. /\ \A res \in results' \cup buffer' : Shaped(res) /\ res.url \in seen \cup {Root}
       /\ UrlsOf(results' \cup buffer') = UrlsOf(results \cup buffer)
       /\ AllStreams(results \cup buffer) = found
       /\ found \subseteq AllStreams(results' \cup buffer') \cup bad
  <2>1. /\ \A res \in Filtered(results, bad) : Shaped(res) /\ \E old \in results : res.url = old.url
        /\ UrlsOf(Filtered(results, bad)) = UrlsOf(results)
        /\ AllStreams(results) \subseteq AllStreams(Filtered(results, bad)) \cup bad
    BY <1>7, Filtering
  <2>2. results \cup buffer = results /\ results' \cup buffer' = Filtered(results, bad)
    BY <1>5, <1>6
  <2> QED
    BY <1>1, <1>7, <2>1, <2>2
<1>11. /\ todo' \in [Roles -> SUBSET Url] /\ todo'["hosting"] = back \ seen /\ todo'["embedded"] = {}
       /\ seen' \subseteq Url /\ seen' \cap Streams = {}
  BY <1>5, <1>6, <1>8, TheRoles, EvidenceTypes
<1>12. ETypeOK'
  <2>1. replans' \in 0..MaxReplans
    <3>1. replan => replans < MaxReplans
      BY <1>3
    <3>2. replans \in Nat /\ replans <= MaxReplans /\ MaxReplans \in Nat
      BY EvidenceTypes
    <3>3. replans' = IF replan THEN replans + 1 ELSE replans
      BY <1>5
    <3> QED
      BY <3>1, <3>2, <3>3
  <2>2. dropped' \in SUBSET Streams
    BY <1>5, <1>9, EvidenceTypes
  <2>3. stage' \in Pages \cup {"classify", "gate", "done", "no_target"} /\ pending' \in BOOLEAN
    BY <1>5, TheRoles
  <2> QED
    BY <1>5, <1>10, <1>11, <2>1, <2>2, <2>3, ShapedTyped DEF EvidenceInv, ETypeOK
<1>13. Handled'
  <2>1. ~replan => back = {}
    BY <1>4
  <2>2. ~halted => seen \subseteq UrlsOf(results \cup buffer)
    BY <1>6 DEF EvidenceInv, Handled
  <2>3. ~halted' => seen' \subseteq todo'["hosting"] \cup todo'["embedded"] \cup UrlsOf(results' \cup buffer')
    BY <1>5, <1>10, <1>11, <2>2
  <2> QED
    BY <1>5, <1>6, <1>10, <1>11, <2>1, <2>3, TheRoles DEF Handled
<1>14. Reported'
  <2>1. ~halted => captured \subseteq found \cup dropped
    BY <1>10 DEF EvidenceInv, Reported
  <2>2. ~halted' => captured' \subseteq AllStreams(results' \cup buffer') \cup dropped'
    BY <1>5, <1>10, <2>1
  <2>3. owed' \subseteq seen'
    BY <1>5, EvidenceTypes
  <2> QED
    BY <2>2, <2>3, Zenon DEF Reported
<1>15. OnlyPagesVisited' /\ OnlyTriggered'
  BY <1>11 DEF OnlyPagesVisited, OnlyTriggered
<1> QED
  BY <1>12, <1>13, <1>14, <1>15 DEF EvidenceInv

LEMMA HaltKeeps ==
    ASSUME EvidenceInv, Halt
    PROVE  EvidenceInv'
<1>1. /\ stage' = "done" /\ halted' = TRUE /\ buffer' = {} /\ todo' = [r \in Roles |-> {}]
      /\ asked' = asked /\ pending' = pending /\ seen' = seen /\ results' = results
      /\ replans' = replans /\ dropped' = dropped /\ captured' = captured /\ owed' = owed
  BY DEF Halt
<1>2. results' \cup buffer' \subseteq results \cup buffer
  BY <1>1
<1>3. /\ todo' \in [Roles -> SUBSET Url] /\ todo'["hosting"] = {} /\ todo'["embedded"] = {}
  BY <1>1, TheRoles
<1>4. ETypeOK'
  BY <1>1, <1>2, <1>3, TheRoles DEF EvidenceInv, ETypeOK
<1>5. Handled'
  BY <1>1, <1>2, <1>3, TheRoles DEF EvidenceInv, Handled
<1>6. Reported'
  BY <1>1 DEF EvidenceInv, Reported
<1>7. OnlyPagesVisited' /\ OnlyTriggered'
  BY <1>1, <1>3 DEF EvidenceInv, OnlyPagesVisited, OnlyTriggered
<1> QED
  BY <1>4, <1>5, <1>6, <1>7 DEF EvidenceInv

LEMMA EvidenceStarts == EInit => EvidenceInv
<1> SUFFICES ASSUME EInit PROVE EvidenceInv
  OBVIOUS
<1>1. /\ stage = "classify" /\ asked = None /\ pending = FALSE /\ todo = [r \in Roles |-> {}]
      /\ seen = {} /\ buffer = {} /\ results = {} /\ replans = 0 /\ dropped = {} /\ halted = FALSE
      /\ captured = {} /\ owed = {}
  BY DEF EInit
<1>2. /\ todo \in [Roles -> SUBSET Url] /\ todo["hosting"] = {} /\ todo["embedded"] = {}
  BY <1>1, TheRoles
<1>3. replans \in 0..MaxReplans
  BY <1>1, EvidenceAssumption
<1>4. ETypeOK
  BY <1>1, <1>2, <1>3, TheRoles DEF ETypeOK
<1>5. Handled /\ Reported /\ OnlyPagesVisited /\ OnlyTriggered
  BY <1>1, <1>2, TheRoles DEF Handled, Reported, OnlyPagesVisited, OnlyTriggered
<1> QED
  BY <1>4, <1>5 DEF EvidenceInv

LEMMA EvidenceKept == EvidenceInv /\ [ENext]_eVars => EvidenceInv'
<1> SUFFICES ASSUME EvidenceInv, [ENext]_eVars PROVE EvidenceInv'
  OBVIOUS
<1>1. ASSUME NEW type \in Pages \cup {"unknown"},
             NEW next \in {"landing", "hosting", "embedded", "gate", "no_target"}, Classify(type, next)
      PROVE  EvidenceInv'
  BY <1>1, ClassifyKeeps
<1>2. CASE \E ans \in PageAnswers, mem \in Memories : LandingPage(ans, mem)
  BY <1>2, LandingPageKeeps
<1>3. CASE \E kind \in Failures : LandingFails(kind)
  BY <1>3, LandingFailsKeeps
<1>4. CASE \E u \in Url : \E ans \in HostAnswers, mem \in Memories : HostingPage(u, ans, mem)
  BY <1>4, HostingPageKeeps
<1>5. CASE \E u \in Url : \/ \E ans \in EmbedAnswers, mem \in Memories : EmbeddedPage(u, ans, mem)
                          \/ \E role \in Roles, kind \in Failures : AgentFails(role, u, kind)
  BY <1>5, OtherAgentKeeps
<1>6. CASE Fold
  BY <1>6, FoldKeeps
<1>7. CASE \E dead \in SUBSET Streams, verdict \in JudgeVerdicts \cup {FallbackVerdict} : Gate(dead, verdict)
  BY <1>7, GateKeeps
<1>8. CASE Halt
  BY <1>8, HaltKeeps
<1>9. CASE UNCHANGED eVars
  BY <1>9 DEF eVars, EvidenceInv, ETypeOK, Handled, Reported, OnlyPagesVisited, OnlyTriggered
<1>10. CASE \/ Classify("landing", "landing") \/ Classify("embedded", "embedded")
            \/ Classify("unknown", "gate") \/ \E type \in Roles : Classify(type, "hosting")
            \/ \E type \in Pages \cup {"unknown"} : Classify(type, "no_target")
  BY <1>1, <1>10, TheRoles
<1> QED
  BY <1>2, <1>3, <1>4, <1>5, <1>6, <1>7, <1>8, <1>9, <1>10 DEF ENext, Finished

\* In every run of the graph: what the tools captured is reported or was dropped by the
\* gate, players that were seen are visited, no browser is sent to a stream, embedded
\* agents run on a trigger only, and an answered landing page is never a failed run.
THEOREM EvidenceIsSafe == ESpec => []EvidenceSafe
<1>1. EInit => EvidenceInv
  BY EvidenceStarts
<1>2. EvidenceInv /\ [ENext]_eVars => EvidenceInv'
  BY EvidenceKept
<1>3. EvidenceInv => EvidenceSafe
  BY EndTells DEF EvidenceInv, EvidenceSafe
<1> QED
  BY <1>1, <1>2, <1>3, PTL DEF ESpec

-----------------------------------------------------------------------------
(* The tools that act on a page.  An interaction acts on what the          *)
(* inspection named because an answer, told or still in the cache, tells   *)
(* every number that the document in its tab carries (AnswerFits), unless  *)
(* the document was inspected a second time; and no change is missed       *)
(* because an answer whose elements are not those any more is stale, or    *)
(* will be when the timer rings.                                           *)
Numbers    == 0..Cardinality(Elements)
Candidate  == [id: Numbers \ {0}, meant: Elements]
TabState   == Addresses \X Nat
TabAnswer  == [state: TabState, candidates: SUBSET Candidate, doc: {<<>>} \cup (Tabs \X Nat), order: Seq(Elements),
               seen: BOOLEAN]
TabKey     == (EarlierProfiles \cup {TabProfile[t] : t \in Tabs}) \X Selections \X TabState
CacheEntry == [key: TabKey, answer: TabAnswer]
NetEntry   == [url: PageUrls, status: {"none", "answered", "failed"}]
InCall     == [phase: InProgress, id: Numbers \ {0}, meant: Elements, state: TabState,
               by: {"none", "stamp", "other"}, on: Elements \cup {""},
               expected: {"auto", "network"}, sole: BOOLEAN, url: Addresses, epoch: Nat, count: Nat,
               requested: BOOLEAN]
OutCall    == {NoCall} \cup {Answered(said) : said \in {"not located", "failed", "verified", "unverified"}}

PageTyped ==
    /\ tabUrl \in [Tabs -> Addresses] /\ tabLoad \in [Tabs -> Nat] /\ layout \in [Tabs -> Layouts]
    /\ ids \in [Tabs -> [Elements -> Numbers]] /\ numbering \in [Tabs -> {"no", "once", "again"}]
    /\ observed \in [Tabs -> BOOLEAN]
TimeTyped ==
    /\ epoch \in [Tabs -> Nat] /\ timer \in [Tabs -> BOOLEAN]
    /\ \A t \in Tabs : epoch[t] <= MaxEpoch[t] /\ (timer[t] => epoch[t] < MaxEpoch[t])
AnswersTyped ==
    /\ answers \in Seq(CacheEntry) /\ Len(answers) <= InspectCap
    /\ held \in [Tabs -> Seq(TabAnswer)]
CallTyped == call \in [Tabs -> InCall \cup OutCall]
NetTyped ==
    /\ ledger \in [Tabs -> Seq(NetEntry)] /\ requests \in [Tabs -> Nat]
    /\ unanswered \in [Tabs -> SUBSET (Nat \X PageUrls)]
    /\ \A t \in Tabs : /\ Len(ledger[t]) <= EntryCap
                       /\ IsFiniteSet(unanswered[t]) /\ Cardinality(unanswered[t]) <= requests[t]
                       /\ \A r \in unanswered[t] : r[1] < requests[t]
WaitsAlike ==
    /\ waits \in [Tabs -> Nat] /\ unserved \in [Tabs -> Nat]
    /\ \A t \in Tabs : unserved[t] = waits[t] /\ waits[t] <= WaitLimit

\* The answers that some agent has, or may get again.
TabTold == {answers[i].answer : i \in DOMAIN answers} \cup UNION {ToSet(held[t]) : t \in Tabs}

\* An answer is about a document that was loaded.  While the document stays, an answer
\* that was read before an observer, and whose elements are not those any more, is stale,
\* or will be when the timer rings; and it tells every number that a document inspected
\* once gives.
AnswerFits(a, t) ==
    a.doc = Doc(t) =>
        /\ a.state[2] <= epoch[t]
        /\ a.seen => observed[t] /\ (a.order = layout[t].order \/ timer[t] \/ a.state[2] < epoch[t])
        /\ numbering[t] # "no"
        /\ numbering[t] = "once" =>
              \A e \in Elements : ids[t][e] # 0 => \E c \in a.candidates : c.id = ids[t][e] /\ c.meant = e
AnswerHolds(a) ==
    /\ \A c, d \in a.candidates : c.id = d.id => c = d
    /\ \A t \in Tabs : a.doc # <<>> /\ a.doc[1] = t => a.doc[2] <= tabLoad[t]
    /\ \A t \in Tabs : AnswerFits(a, t)
AnswersHold == \A a \in TabTold : AnswerHolds(a)

\* A document that was not inspected has no numbers.
Unnumbered == \A t \in Tabs : numbering[t] = "no" => \A e \in Elements : ids[t][e] = 0

\* What carries the number of an interaction is what its candidate names; and when
\* another locator is taken nothing carries it.
HoldsTo(c, carriers) ==
    /\ c.phase \in {"located", "acted"} /\ c.by # "stamp" => carriers = {}
    /\ c.sole => IF c.phase = "acted" /\ c.by = "stamp" THEN c.on = c.meant ELSE carriers \subseteq {c.meant}
CallHolds(t) ==
    call[t] \in InCall =>
        /\ call[t].count <= Len(ledger[t])
        /\ call[t].requested /\ call[t].count < EntryCap => Len(ledger[t]) > call[t].count
        /\ HoldsTo(call[t], Carries(t, call[t].id))
CallsHold == \A t \in Tabs : CallHolds(t)

TabInv ==
    /\ PageTyped /\ TimeTyped /\ AnswersTyped /\ CallTyped /\ NetTyped /\ WaitsAlike
    /\ AnswersHold /\ Unnumbered /\ CallsHold


-----------------------------------------------------------------------------
(* Sequences.                                                              *)

LEMMA AppendKeeps ==
  ASSUME NEW S, NEW s \in Seq(S), NEW x \in S
  PROVE  /\ Append(s, x) \in Seq(S) /\ Len(Append(s, x)) = Len(s) + 1 /\ Append(s, x) # <<>>
         /\ ToSet(Append(s, x)) \subseteq ToSet(s) \cup {x}
<1>1. /\ Append(s, x) \in Seq(S) /\ Append(s, x) # <<>> /\ Len(Append(s, x)) = Len(s) + 1
      /\ \A i \in 1 .. Len(s) : Append(s, x)[i] = s[i]
      /\ Append(s, x)[Len(s) + 1] = x
  BY AppendProperties
<1>2. DOMAIN Append(s, x) = 1 .. (Len(s) + 1) /\ DOMAIN s = 1 .. Len(s) /\ Len(s) \in Nat
  BY <1>1
<1>3. \A i \in 1 .. (Len(s) + 1) : i \in 1 .. Len(s) \/ i = Len(s) + 1
  BY <1>2
<1> QED
  BY <1>1, <1>2, <1>3 DEF ToSet

LEMMA TailKeeps ==
  ASSUME NEW S, NEW s \in Seq(S), s # <<>>
  PROVE  Tail(s) \in Seq(S) /\ Len(Tail(s)) = Len(s) - 1 /\ ToSet(Tail(s)) \subseteq ToSet(s)
<1>1. /\ Tail(s) \in Seq(S) /\ Len(Tail(s)) = Len(s) - 1
      /\ \A i \in 1 .. Len(Tail(s)) : Tail(s)[i] = s[i + 1]
  BY HeadTailProperties
<1>2. DOMAIN Tail(s) = 1 .. Len(Tail(s)) /\ DOMAIN s = 1 .. Len(s) /\ Len(s) \in Nat
  BY <1>1
<1>3. \A i \in 1 .. (Len(s) - 1) : i + 1 \in 1 .. Len(s)
  BY <1>2
<1> QED
  BY <1>1, <1>2, <1>3 DEF ToSet

LEMMA ExceptKeeps ==
  ASSUME NEW S, NEW s \in Seq(S), NEW i, NEW x, i \in DOMAIN s => x \in S
  PROVE  [s EXCEPT ![i] = x] \in Seq(S) /\ Len([s EXCEPT ![i] = x]) = Len(s)
<1>1. CASE i \in DOMAIN s
  <2>1. i \in 1 .. Len(s) /\ x \in S
    BY <1>1
  <2> QED
    BY <2>1, ExceptSeq
<1>2. CASE i \notin DOMAIN s
  <2>1. [s EXCEPT ![i] = x] = s
    BY <1>2
  <2> QED
    BY <2>1
<1> QED
  BY <1>1, <1>2

\* The cap of the ledger.
LEMMA EntryAdded ==
  ASSUME NEW s \in Seq(NetEntry), NEW x \in NetEntry, Len(s) <= EntryCap
  PROVE  /\ AddEntry(s, x) \in Seq(NetEntry) /\ Len(AddEntry(s, x)) <= EntryCap
         /\ Len(s) <= Len(AddEntry(s, x))
         /\ Len(s) < EntryCap => Len(AddEntry(s, x)) = Len(s) + 1
<1> HIDE DEF NetEntry
<1>1. /\ Append(s, x) \in Seq(NetEntry) /\ Len(Append(s, x)) = Len(s) + 1 /\ Append(s, x) # <<>>
  BY AppendKeeps
<1>2. Tail(Append(s, x)) \in Seq(NetEntry) /\ Len(Tail(Append(s, x))) = Len(Append(s, x)) - 1
  BY <1>1, TailKeeps
<1>3. Len(s) \in Nat /\ EntryCap \in Nat
  BY PageAssumption
<1>4. CASE Len(s) + 1 > EntryCap
  <2>1. AddEntry(s, x) = Tail(Append(s, x))
    BY <1>4 DEF AddEntry
  <2> QED
    BY <1>1, <1>2, <1>3, <1>4, <2>1
<1>5. CASE ~(Len(s) + 1 > EntryCap)
  <2>1. AddEntry(s, x) = Append(s, x)
    BY <1>5 DEF AddEntry
  <2> QED
    BY <1>1, <1>3, <1>5, <2>1
<1> QED
  BY <1>4, <1>5

-----------------------------------------------------------------------------
(* The numbers an inspection gives.                                        *)

LEMMA DocumentFits ==
  ASSUME NEW d \in Layouts
  PROVE  /\ d.order \in Seq(Elements) /\ d.shown \subseteq ToSet(d.order)
         /\ \A i, j \in DOMAIN d.order : d.order[i] = d.order[j] => i = j
         /\ ToSet(d.order) \subseteq Elements /\ DOMAIN d.order \subseteq Nat
<1>1. d.order \in Seq(Elements) /\ IsInjective(d.order) /\ d.shown \subseteq ToSet(d.order)
  BY PageAssumption
<1>2. \A i, j \in DOMAIN d.order : d.order[i] = d.order[j] => i = j
  BY <1>1 DEF IsInjective
<1>3. ToSet(d.order) \subseteq Elements /\ DOMAIN d.order \subseteq Nat
  BY <1>1 DEF ToSet
<1> QED
  BY <1>1, <1>2, <1>3

\* Those the selector finds up to an element.
UpTo(d, view, e) == {f \in view : \E i, j \in DOMAIN d.order : i <= j /\ d.order[i] = f /\ d.order[j] = e}

LEMMA RankFits ==
  ASSUME NEW d \in Layouts, NEW view \in SUBSET Elements, NEW e \in view \cap ToSet(d.order)
  PROVE  Rank(d, view, e) \in Numbers \ {0}
<1>1. IsFiniteSet(Elements)
  BY PageAssumption
<1>2. UpTo(d, view, e) \in SUBSET Elements
  BY DEF UpTo
<1>3. e \in UpTo(d, view, e)
  <2>1. PICK i \in DOMAIN d.order : d.order[i] = e
    BY DEF ToSet
  <2>2. i <= i
    BY DocumentFits
  <2> QED
    BY <2>1, <2>2 DEF UpTo
<1>4. /\ IsFiniteSet(UpTo(d, view, e)) /\ Cardinality(UpTo(d, view, e)) <= Cardinality(Elements)
      /\ Cardinality(UpTo(d, view, e)) \in Nat /\ Cardinality(Elements) \in Nat
  BY <1>1, <1>2, FS_Subset, FS_CardinalityType
<1>5. Cardinality(UpTo(d, view, e)) # 0
  BY <1>3, <1>4, FS_EmptySet
<1>6. Rank(d, view, e) = Cardinality(UpTo(d, view, e))
  BY DEF Rank, UpTo
<1> QED
  BY <1>4, <1>5, <1>6 DEF Numbers

LEMMA RankApart ==
  ASSUME NEW d \in Layouts, NEW view \in SUBSET Elements,
         NEW e \in view \cap ToSet(d.order), NEW f \in view \cap ToSet(d.order),
         Rank(d, view, e) = Rank(d, view, f)
  PROVE  e = f
<1>1. IsFiniteSet(Elements)
  BY PageAssumption
<1>2. PICK i \in DOMAIN d.order, j \in DOMAIN d.order : d.order[i] = e /\ d.order[j] = f
  BY DEF ToSet
<1>3. DOMAIN d.order \subseteq Nat /\ \A k, l \in DOMAIN d.order : d.order[k] = d.order[l] => k = l
  BY DocumentFits
<1>4. UpTo(d, view, e) \in SUBSET Elements /\ UpTo(d, view, f) \in SUBSET Elements
  BY DEF UpTo
<1>5. \A g : /\ g \in UpTo(d, view, e) <=> g \in view /\ \E k \in DOMAIN d.order : k <= i /\ d.order[k] = g
             /\ g \in UpTo(d, view, f) <=> g \in view /\ \E k \in DOMAIN d.order : k <= j /\ d.order[k] = g
  BY <1>2, <1>3 DEF UpTo
<1>6. e \in UpTo(d, view, e) /\ f \in UpTo(d, view, f)
  BY <1>2, <1>3, <1>5
<1>7. UpTo(d, view, e) \subseteq UpTo(d, view, f) \/ UpTo(d, view, f) \subseteq UpTo(d, view, e)
  <2>1. CASE i <= j
    <3>1. \A k \in DOMAIN d.order : k <= i => k <= j
      BY <1>3, <2>1
    <3> QED
      BY <1>5, <3>1
  <2>2. CASE j <= i
    <3>1. \A k \in DOMAIN d.order : k <= j => k <= i
      BY <1>3, <2>2
    <3> QED
      BY <1>5, <3>1
  <2> QED
    BY <1>2, <1>3, <2>1, <2>2
<1>8. Cardinality(UpTo(d, view, e)) = Cardinality(UpTo(d, view, f))
  BY DEF Rank, UpTo
<1>9. IsFiniteSet(UpTo(d, view, e)) /\ IsFiniteSet(UpTo(d, view, f))
  BY <1>1, <1>4, FS_Subset
<1>10. UpTo(d, view, e) = UpTo(d, view, f)
  BY <1>7, <1>8, <1>9, FS_Subset
<1>11. (\E k \in DOMAIN d.order : k <= i /\ d.order[k] = f) /\ (\E k \in DOMAIN d.order : k <= j /\ d.order[k] = e)
  BY <1>5, <1>6, <1>10
<1>12. j <= i /\ i <= j
  BY <1>2, <1>3, <1>11
<1> QED
  BY <1>2, <1>3, <1>12

-----------------------------------------------------------------------------
(* What a step leaves alone.                                               *)

LEMMA TabFacts ==
  ASSUME TabInv
  PROVE  /\ PageTyped /\ TimeTyped /\ AnswersTyped /\ CallTyped /\ NetTyped /\ WaitsAlike
         /\ AnswersHold /\ Unnumbered /\ CallsHold
BY DEF TabInv

\* A tab whose document and epoch stay.
SamePage(v) ==
  /\ tabLoad'[v] = tabLoad[v] /\ layout'[v] = layout[v] /\ ids'[v] = ids[v]
  /\ observed'[v] = observed[v] /\ numbering'[v] = numbering[v] /\ epoch'[v] = epoch[v]
  /\ timer'[v] = timer[v]

LEMMA FitsStill ==
  ASSUME NEW a, NEW v \in Tabs, SamePage(v), AnswerFits(a, v)
  PROVE  AnswerFits(a, v)'
BY DEF SamePage, AnswerFits, Doc

\* An answer that nobody got in this step.
LEMMA AnswerStill ==
  ASSUME TabInv, NEW t \in Tabs, \A v \in Tabs \ {t} : SamePage(v),
         tabLoad' \in [Tabs -> Nat], tabLoad[t] <= tabLoad'[t],
         NEW a \in TabTold, a \in TabAnswer, AnswerFits(a, t)'
  PROVE  AnswerHolds(a)'
<1>1. AnswerHolds(a)
  BY DEF TabInv, AnswersHold
<1>2. \A c, d \in a.candidates : c.id = d.id => c = d
  BY <1>1 DEF AnswerHolds
<1>3. \A v \in Tabs : AnswerFits(a, v)'
  BY <1>1, FitsStill DEF AnswerHolds
<1>4. tabLoad \in [Tabs -> Nat] /\ a.doc \in {<<>>} \cup (Tabs \X Nat)
  BY TabFacts DEF PageTyped, TabAnswer
<1>5. \A v \in Tabs : a.doc # <<>> /\ a.doc[1] = v => a.doc[2] <= tabLoad[v]
  BY <1>1 DEF AnswerHolds
<1>6. \A v \in Tabs : tabLoad[v] <= tabLoad'[v] /\ tabLoad[v] \in Nat /\ tabLoad'[v] \in Nat
  BY <1>4 DEF SamePage
<1>7. a.doc # <<>> => a.doc[2] \in Nat
  BY <1>4
<1>8. \A v \in Tabs : a.doc # <<>> /\ a.doc[1] = v => a.doc[2] <= tabLoad'[v]
  BY <1>5, <1>6, <1>7
<1> QED
  BY <1>2, <1>3, <1>8 DEF AnswerHolds

LEMMA ToldTyped ==
  ASSUME TabInv, NEW a \in TabTold
  PROVE  a \in TabAnswer /\ AnswerHolds(a)
<1>1. answers \in Seq(CacheEntry) /\ held \in [Tabs -> Seq(TabAnswer)]
  BY TabFacts DEF AnswersTyped
<1>2. \A i \in DOMAIN answers : answers[i] \in CacheEntry
  BY <1>1
<1>3. \A i \in DOMAIN answers : answers[i].answer \in TabAnswer
  BY <1>2 DEF CacheEntry
<1>4. \A t \in Tabs : ToSet(held[t]) \subseteq TabAnswer
  BY <1>1 DEF ToSet
<1> QED
  BY <1>3, <1>4, TabFacts DEF TabTold, AnswersHold

\* Every answer still fits when those of one tab do.
LEMMA AnswersStill ==
  ASSUME TabInv, NEW t \in Tabs, \A v \in Tabs \ {t} : SamePage(v),
         tabLoad' \in [Tabs -> Nat], tabLoad[t] <= tabLoad'[t],
         TabTold' \subseteq TabTold,
         \A a \in TabAnswer : AnswerHolds(a) => AnswerFits(a, t)'
  PROVE  AnswersHold'
<1> SUFFICES ASSUME NEW a \in TabTold PROVE AnswerHolds(a)'
  BY DEF AnswersHold
<1>1. a \in TabAnswer /\ AnswerHolds(a)
  BY ToldTyped
<1> QED
  BY <1>1, AnswerStill

LEMMA ToldStill ==
  ASSUME answers' = answers, held' = held PROVE TabTold' = TabTold
BY DEF TabTold

LEMMA PageQuiet ==
  ASSUME TabInv, UNCHANGED <<pageVars, epoch, timer>>, TabTold' \subseteq TabTold
  PROVE  PageTyped' /\ TimeTyped' /\ Unnumbered' /\ AnswersHold'
<1>1. /\ tabUrl' = tabUrl /\ tabLoad' = tabLoad /\ layout' = layout /\ ids' = ids /\ numbering' = numbering
      /\ observed' = observed /\ epoch' = epoch /\ timer' = timer
  BY DEF pageVars
<1>2. PageTyped' /\ TimeTyped' /\ Unnumbered'
  BY <1>1, TabFacts DEF PageTyped, TimeTyped, Unnumbered
<1>3. \A a : AnswerHolds(a) => AnswerHolds(a)'
  BY <1>1 DEF AnswerHolds, AnswerFits, Doc
<1> QED
  BY <1>2, <1>3, TabFacts DEF AnswersHold

LEMMA AnswersQuiet ==
  ASSUME TabInv, UNCHANGED <<answers, held>> PROVE AnswersTyped' /\ TabTold' = TabTold
BY TabFacts DEF AnswersTyped, TabTold

LEMMA NetQuiet ==
  ASSUME TabInv, UNCHANGED netVars PROVE NetTyped' /\ ledger' = ledger
BY TabFacts DEF NetTyped, netVars

LEMMA WaitQuiet ==
  ASSUME TabInv, UNCHANGED <<waits, unserved>> PROVE WaitsAlike'
BY TabFacts DEF WaitsAlike

LEMMA HoldsStill ==
  ASSUME NEW c, NEW S, NEW T \in SUBSET S, HoldsTo(c, S)
  PROVE  HoldsTo(c, T)
BY DEF HoldsTo

\* An interaction goes on: its tab carries no number that it did not, and no entry went.
LEMMA CallStill ==
  ASSUME TabInv, NEW v \in Tabs, call'[v] = call[v], ledger'[v] = ledger[v],
         \A k \in Numbers \ {0} : Carries(v, k)' \subseteq Carries(v, k)
  PROVE  CallHolds(v)'
<1>1. CallHolds(v)
  BY TabFacts DEF CallsHold
<1>2. call[v] \in InCall => call[v].id \in Numbers \ {0}
  BY DEF InCall
<1>3. PICK c : c = call[v]
  OBVIOUS
<1>4. c \in InCall =>
        /\ c.count <= Len(ledger[v])
        /\ c.requested /\ c.count < EntryCap => Len(ledger[v]) > c.count
        /\ HoldsTo(c, Carries(v, c.id))
  BY <1>1, <1>3 DEF CallHolds
<1>6. c \in InCall => Carries(v, c.id)' \in SUBSET Carries(v, c.id)
  BY <1>2, <1>3
<1>5. c \in InCall =>
        /\ c.count <= Len(ledger'[v])
        /\ c.requested /\ c.count < EntryCap => Len(ledger'[v]) > c.count
        /\ HoldsTo(c, Carries(v, c.id)')
  BY <1>4, <1>6, HoldsStill
<1> QED
  BY <1>3, <1>5 DEF CallHolds

\* The others' interactions go on when one tab's does.
LEMMA CallsStill ==
  ASSUME TabInv, NEW t \in Tabs,
         \A v \in Tabs \ {t} : /\ call'[v] = call[v] /\ ledger'[v] = ledger[v]
                               /\ ids'[v] = ids[v] /\ layout'[v] = layout[v],
         CallHolds(t)'
  PROVE  CallsHold'
<1> SUFFICES ASSUME NEW v \in Tabs PROVE CallHolds(v)'
  BY DEF CallsHold
<1>1. CASE v = t
  BY <1>1
<1>2. CASE v # t
  <2>1. /\ call'[v] = call[v] /\ ledger'[v] = ledger[v] /\ ids'[v] = ids[v] /\ layout'[v] = layout[v]
    BY <1>2
  <2>2. \A k : Carries(v, k)' = Carries(v, k)
    BY <2>1 DEF Carries
  <2> QED
    BY <2>1, <2>2, CallStill
<1> QED
  BY <1>1, <1>2

-----------------------------------------------------------------------------
(* The page by itself.                                                     *)

\* Only the document and the epoch of one tab go on.
LEMMA PageSteps ==
  ASSUME TabInv, NEW t \in Tabs, \A v \in Tabs \ {t} : SamePage(v),
         UNCHANGED <<answers, held, call, netVars, waits, unserved>>,
         PageTyped', TimeTyped', Unnumbered', tabLoad[t] <= tabLoad'[t],
         \A a \in TabAnswer : AnswerHolds(a) => AnswerFits(a, t)',
         \A k \in Numbers \ {0} : Carries(t, k)' \subseteq Carries(t, k)
  PROVE  TabInv'
<1>1. AnswersTyped' /\ TabTold' = TabTold
  BY AnswersQuiet
<1>2. AnswersHold'
  <2>1. tabLoad' \in [Tabs -> Nat] /\ TabTold' \subseteq TabTold
    BY <1>1 DEF PageTyped
  <2> QED
    BY <2>1, AnswersStill
<1>3. NetTyped' /\ ledger' = ledger /\ call' = call
  BY NetQuiet
<1>4. CallTyped' /\ WaitsAlike'
  BY <1>3, TabFacts, WaitQuiet DEF CallTyped
<1>5. CallsHold'
  <2>1. CallHolds(t)'
    BY <1>3, CallStill
  <2>2. \A v \in Tabs \ {t} : /\ call'[v] = call[v] /\ ledger'[v] = ledger[v]
                              /\ ids'[v] = ids[v] /\ layout'[v] = layout[v]
    BY <1>3 DEF SamePage
  <2> QED
    BY <2>1, <2>2, CallsStill
<1> QED
  BY <1>1, <1>2, <1>3, <1>4, <1>5 DEF TabInv

LEMMA LoadedKeeps ==
  ASSUME TabInv, NEW t \in Tabs, NEW u \in Addresses, NEW d \in Layouts, Loaded(t, u, d),
         UNCHANGED <<epoch, answers, held, call, netVars, waits, unserved>>
  PROVE  TabInv'
<1>1. /\ tabUrl \in [Tabs -> Addresses] /\ tabLoad \in [Tabs -> Nat] /\ layout \in [Tabs -> Layouts]
      /\ ids \in [Tabs -> [Elements -> Numbers]] /\ numbering \in [Tabs -> {"no", "once", "again"}]
      /\ epoch \in [Tabs -> Nat] /\ timer \in [Tabs -> BOOLEAN] /\ observed \in [Tabs -> BOOLEAN]
  BY TabFacts DEF PageTyped, TimeTyped
<1>2. /\ tabUrl' = [tabUrl EXCEPT ![t] = u] /\ tabLoad' = [tabLoad EXCEPT ![t] = @ + 1]
      /\ layout' = [layout EXCEPT ![t] = d] /\ ids' = [ids EXCEPT ![t] = Unstamped]
      /\ timer' = [timer EXCEPT ![t] = FALSE] /\ numbering' = [numbering EXCEPT ![t] = "no"]
      /\ observed' = [observed EXCEPT ![t] = FALSE] /\ epoch' = epoch
  BY DEF Loaded
<1>3. Cardinality(Elements) \in Nat
  BY PageAssumption, FS_CardinalityType
<1>4. Unstamped \in [Elements -> Numbers]
  BY <1>3 DEF Unstamped, Numbers
<1>5. PageTyped'
  BY <1>1, <1>2, <1>4 DEF PageTyped
<1>6. TimeTyped'
  <2>1. timer' \in [Tabs -> BOOLEAN] /\ \A v \in Tabs : timer'[v] => timer[v]
    BY <1>1, <1>2
  <2> QED
    BY <1>2, <2>1, TabFacts DEF TimeTyped
<1>7. \A v \in Tabs \ {t} : SamePage(v)
  BY <1>1, <1>2 DEF SamePage
<1>8. Unnumbered'
  <2>1. \A e \in Elements : ids'[t][e] = 0
    BY <1>1, <1>2 DEF Unstamped
  <2> QED
    BY <1>7, <2>1, TabFacts DEF Unnumbered, SamePage
<1>9. tabLoad'[t] = tabLoad[t] + 1 /\ tabLoad[t] \in Nat
  BY <1>1, <1>2
<1>10. \A a \in TabAnswer : AnswerHolds(a) => AnswerFits(a, t)'
  <2> SUFFICES ASSUME NEW a \in TabAnswer, AnswerHolds(a) PROVE AnswerFits(a, t)'
    OBVIOUS
  <2>1. a.doc # <<>> /\ a.doc[1] = t => a.doc[2] <= tabLoad[t]
    BY DEF AnswerHolds
  <2>2. a.doc # <<t, tabLoad[t] + 1>>
    <3> SUFFICES ASSUME a.doc = <<t, tabLoad[t] + 1>> PROVE FALSE
      OBVIOUS
    <3>1. a.doc # <<>> /\ a.doc[1] = t /\ a.doc[2] = tabLoad[t] + 1
      OBVIOUS
    <3> QED
      BY <1>9, <2>1, <3>1
  <2> QED
    BY <1>9, <2>2 DEF AnswerFits, Doc
<1>11. \A k \in Numbers \ {0} : Carries(t, k)' \subseteq Carries(t, k)
  <2>1. layout'[t] = d /\ \A e \in Elements : ids'[t][e] = 0
    BY <1>1, <1>2 DEF Unstamped
  <2>2. ToSet(d.order) \subseteq Elements
    BY DocumentFits
  <2> QED
    BY <2>1, <2>2 DEF Carries
<1> QED
  BY <1>5, <1>6, <1>7, <1>8, <1>9, <1>10, <1>11, PageSteps

LEMMA PageChangesKeeps ==
  ASSUME TabInv, NEW t \in Tabs, NEW d \in Layouts, PageChanges(t, d)
  PROVE  TabInv'
<1>1. /\ layout \in [Tabs -> Layouts] /\ ids \in [Tabs -> [Elements -> Numbers]]
      /\ epoch \in [Tabs -> Nat] /\ timer \in [Tabs -> BOOLEAN] /\ layout[t] \in Layouts
      /\ ids[t] \in [Elements -> Numbers] /\ observed[t] \in BOOLEAN
  BY TabFacts DEF PageTyped, TimeTyped
<1>2. PICK stay \in SUBSET Elements :
        ids' = [ids EXCEPT ![t] = [e \in Elements |-> IF e \in stay THEN ids[t][e] ELSE 0]]
        /\ stay \subseteq ToSet(layout[t].order)
  <2>1. ToSet(layout[t].order) \subseteq Elements
    BY <1>1, DocumentFits
  <2>2. ids' = [ids EXCEPT ![t] = [e \in Elements |->
          IF {e} \subseteq ToSet(d.order) \cap ToSet(layout[t].order) THEN ids[t][e] ELSE 0]]
    BY DEF PageChanges
  <2>3. ids' = [ids EXCEPT ![t] = [e \in Elements |->
          IF e \in ToSet(d.order) \cap ToSet(layout[t].order) THEN ids[t][e] ELSE 0]]
    BY <2>2
  <2> QED
    BY <2>1, <2>3
<1>3. /\ layout' = [layout EXCEPT ![t] = d] /\ timer' = [timer EXCEPT ![t] = timer[t] \/ observed[t]]
      /\ tabUrl' = tabUrl /\ tabLoad' = tabLoad /\ numbering' = numbering /\ epoch' = epoch
      /\ observed' = observed /\ (observed[t] => epoch[t] < MaxEpoch[t])
      /\ UNCHANGED <<answers, held, call, netVars, waits, unserved>>
  BY DEF PageChanges
<1>4. \A e \in Elements : ids'[t][e] = (IF e \in stay THEN ids[t][e] ELSE 0)
  BY <1>1, <1>2
<1>5. Cardinality(Elements) \in Nat
  BY PageAssumption, FS_CardinalityType
<1>6. [e \in Elements |-> IF e \in stay THEN ids[t][e] ELSE 0] \in [Elements -> Numbers]
  BY <1>1, <1>5 DEF Numbers
<1>7. PageTyped'
  BY <1>1, <1>2, <1>3, <1>6, TabFacts DEF PageTyped
<1>8. TimeTyped'
  <2>1. timer' \in [Tabs -> BOOLEAN] /\ (timer'[t] => timer[t] \/ observed[t])
        /\ \A v \in Tabs : v # t => timer'[v] = timer[v]
    BY <1>1, <1>3
  <2> QED
    BY <1>3, <2>1, TabFacts DEF TimeTyped
<1>9. \A v \in Tabs \ {t} : SamePage(v)
  BY <1>1, <1>2, <1>3 DEF SamePage
<1>10. Unnumbered'
  <2>1. numbering'[t] = "no" => \A e \in Elements : ids'[t][e] = 0
    BY <1>3, <1>4, TabFacts DEF Unnumbered
  <2> QED
    BY <1>9, <2>1, TabFacts DEF Unnumbered, SamePage
<1>11. tabLoad[t] <= tabLoad'[t]
  <2>1. tabLoad[t] \in Nat
    BY TabFacts DEF PageTyped
  <2> QED
    BY <1>3, <2>1
<1>12. \A a \in TabAnswer : AnswerHolds(a) => AnswerFits(a, t)'
  <2> SUFFICES ASSUME NEW a \in TabAnswer, AnswerHolds(a) PROVE AnswerFits(a, t)'
    OBVIOUS
  <2>1. AnswerFits(a, t) /\ timer'[t] = (timer[t] \/ observed[t])
    BY <1>1, <1>3 DEF AnswerHolds
  <2>2. \A e \in Elements : ids'[t][e] # 0 => ids'[t][e] = ids[t][e]
    BY <1>4
  <2> QED
    BY <1>3, <2>1, <2>2 DEF AnswerFits, Doc
<1>13. \A k \in Numbers \ {0} : Carries(t, k)' \subseteq Carries(t, k)
  <2>1. layout'[t] = d /\ ToSet(d.order) \subseteq Elements
    BY <1>1, <1>3, DocumentFits
  <2> QED
    BY <1>2, <1>4, <2>1 DEF Carries
<1> QED
  BY <1>3, <1>7, <1>8, <1>9, <1>10, <1>11, <1>12, <1>13, PageSteps

LEMMA ObserveKeeps ==
  ASSUME TabInv, NEW t \in Tabs, Observe(t)
  PROVE  TabInv'
<1>1. observed \in [Tabs -> BOOLEAN] /\ tabLoad[t] \in Nat
  BY TabFacts DEF PageTyped
<1>2. /\ ~observed[t] /\ observed' = [observed EXCEPT ![t] = TRUE]
      /\ tabUrl' = tabUrl /\ tabLoad' = tabLoad /\ layout' = layout /\ ids' = ids /\ numbering' = numbering
      /\ epoch' = epoch /\ timer' = timer /\ UNCHANGED <<answers, held, call, netVars, waits, unserved>>
  BY DEF Observe
<1>3. PageTyped' /\ TimeTyped' /\ Unnumbered'
  BY <1>1, <1>2, TabFacts DEF PageTyped, TimeTyped, Unnumbered
<1>4. \A v \in Tabs \ {t} : SamePage(v)
  BY <1>1, <1>2 DEF SamePage
<1>5. \A a \in TabAnswer : AnswerHolds(a) => AnswerFits(a, t)'
  BY <1>1, <1>2 DEF AnswerHolds, AnswerFits, Doc
<1>6. \A k \in Numbers \ {0} : Carries(t, k)' \subseteq Carries(t, k)
  BY <1>2 DEF Carries
<1> QED
  BY <1>1, <1>2, <1>3, <1>4, <1>5, <1>6, PageSteps

LEMMA PageHidesKeeps ==
  ASSUME TabInv, NEW t \in Tabs, NEW d \in Layouts, PageHides(t, d)
  PROVE  TabInv'
<1>1. layout \in [Tabs -> Layouts] /\ tabLoad[t] \in Nat
  BY TabFacts DEF PageTyped
<1>2. /\ layout' = [layout EXCEPT ![t] = d] /\ d.order = layout[t].order
      /\ tabUrl' = tabUrl /\ tabLoad' = tabLoad /\ ids' = ids /\ numbering' = numbering
      /\ observed' = observed /\ epoch' = epoch /\ timer' = timer
      /\ UNCHANGED <<answers, held, call, netVars, waits, unserved>>
  BY DEF PageHides
<1>3. layout'[t].order = layout[t].order /\ \A v \in Tabs \ {t} : layout'[v] = layout[v]
  BY <1>1, <1>2
<1>4. PageTyped' /\ TimeTyped' /\ Unnumbered'
  BY <1>1, <1>2, TabFacts DEF PageTyped, TimeTyped, Unnumbered
<1>5. \A v \in Tabs \ {t} : SamePage(v)
  BY <1>2, <1>3 DEF SamePage
<1>6. \A a \in TabAnswer : AnswerHolds(a) => AnswerFits(a, t)'
  BY <1>2, <1>3 DEF AnswerHolds, AnswerFits, Doc
<1>7. \A k \in Numbers \ {0} : Carries(t, k)' \subseteq Carries(t, k)
  BY <1>2, <1>3 DEF Carries
<1> QED
  BY <1>1, <1>2, <1>4, <1>5, <1>6, <1>7, PageSteps

LEMMA NotifyKeeps ==
  ASSUME TabInv, NEW t \in Tabs, Notify(t)
  PROVE  TabInv'
<1>1. /\ epoch \in [Tabs -> Nat] /\ timer \in [Tabs -> BOOLEAN] /\ tabLoad[t] \in Nat
      /\ timer[t] /\ epoch[t] < MaxEpoch[t] /\ MaxEpoch \in [Tabs -> Nat]
  BY TabFacts, PageAssumption DEF TimeTyped, PageTyped, Notify
<1>2. /\ timer' = [timer EXCEPT ![t] = FALSE] /\ epoch' = [epoch EXCEPT ![t] = @ + 1]
      /\ tabUrl' = tabUrl /\ tabLoad' = tabLoad /\ layout' = layout /\ ids' = ids /\ numbering' = numbering
      /\ observed' = observed /\ UNCHANGED <<answers, held, call, netVars, waits, unserved>>
  BY DEF Notify, pageVars
<1>3. /\ epoch'[t] = epoch[t] + 1 /\ timer'[t] = FALSE /\ epoch[t] \in Nat /\ MaxEpoch[t] \in Nat
      /\ \A v \in Tabs \ {t} : epoch'[v] = epoch[v] /\ timer'[v] = timer[v]
  BY <1>1, <1>2
<1>4. PageTyped' /\ Unnumbered'
  BY <1>2, TabFacts DEF PageTyped, Unnumbered
<1>5. TimeTyped'
  <2>1. epoch' \in [Tabs -> Nat] /\ timer' \in [Tabs -> BOOLEAN]
    BY <1>1, <1>2
  <2>2. \A v \in Tabs : epoch'[v] <= MaxEpoch[v] /\ (timer'[v] => epoch'[v] < MaxEpoch[v])
    <3> SUFFICES ASSUME NEW v \in Tabs
                 PROVE  epoch'[v] <= MaxEpoch[v] /\ (timer'[v] => epoch'[v] < MaxEpoch[v])
      OBVIOUS
    <3>1. CASE v = t
      BY <1>1, <1>3, <3>1
    <3>2. CASE v # t
      BY <1>3, <3>2, TabFacts DEF TimeTyped
    <3> QED
      BY <3>1, <3>2
  <2> QED
    BY <2>1, <2>2 DEF TimeTyped
<1>6. \A v \in Tabs \ {t} : SamePage(v)
  BY <1>2, <1>3 DEF SamePage
<1>7. \A a \in TabAnswer : AnswerHolds(a) => AnswerFits(a, t)'
  <2> SUFFICES ASSUME NEW a \in TabAnswer, AnswerHolds(a), a.doc = Doc(t) PROVE AnswerFits(a, t)'
    BY <1>2 DEF AnswerFits, Doc
  <2>1. /\ a.state[2] <= epoch[t] /\ numbering[t] # "no" /\ (a.seen => observed[t])
        /\ numbering[t] = "once" =>
              \A e \in Elements : ids[t][e] # 0 => \E c \in a.candidates : c.id = ids[t][e] /\ c.meant = e
    BY DEF AnswerHolds, AnswerFits
  <2>2. a.state[2] \in Nat
    BY DEF TabAnswer, TabState
  <2>3. a.state[2] <= epoch'[t] /\ a.state[2] < epoch'[t]
    BY <1>3, <2>1, <2>2
  <2> QED
    BY <1>2, <2>1, <2>3 DEF AnswerFits
<1>8. \A k \in Numbers \ {0} : Carries(t, k)' \subseteq Carries(t, k)
  BY <1>2 DEF Carries
<1> QED
  BY <1>1, <1>2, <1>4, <1>5, <1>6, <1>7, <1>8, PageSteps

-----------------------------------------------------------------------------
(* The ledger of requests.                                                 *)

\* Only the ledger of one tab goes on, and it loses no entry.
LEMMA NetSteps ==
  ASSUME TabInv, NEW t \in Tabs,
         UNCHANGED <<pageVars, epoch, timer, answers, held, waits, unserved>>,
         NetTyped', CallTyped',
         \A v \in Tabs \ {t} : call'[v] = call[v] /\ ledger'[v] = ledger[v], CallHolds(t)'
  PROVE  TabInv'
<1>1. AnswersTyped' /\ TabTold' = TabTold
  BY AnswersQuiet
<1>2. PageTyped' /\ TimeTyped' /\ Unnumbered' /\ AnswersHold'
  BY <1>1, PageQuiet
<1>3. WaitsAlike'
  BY WaitQuiet
<1>4. CallsHold'
  BY CallsStill DEF pageVars
<1> QED
  BY <1>1, <1>2, <1>3, <1>4 DEF TabInv

\* An interaction in progress, when the ledger got no shorter.
LEMMA CallLonger ==
  ASSUME TabInv, NEW t \in Tabs, NetTyped', UNCHANGED pageVars, Len(ledger[t]) <= Len(ledger'[t]),
         call'[t] = call[t]
  PROVE  CallHolds(t)'
<1>1. ledger[t] \in Seq(NetEntry) /\ ledger'[t] \in Seq(NetEntry) /\ CallHolds(t)
  BY TabFacts DEF NetTyped, CallsHold
<1>2. PICK m, n \in Nat : m = Len(ledger[t]) /\ n = Len(ledger'[t])
  <2> HIDE DEF NetEntry
  <2> QED
    BY <1>1
<1>3. PICK c : c = call[t]
  OBVIOUS
<1>4. c \in InCall => c.count \in Nat
  BY DEF InCall
<1>5. c \in InCall =>
        /\ c.count <= m
        /\ c.requested /\ c.count < EntryCap => m > c.count
        /\ HoldsTo(c, Carries(t, c.id))
  BY <1>1, <1>2, <1>3 DEF CallHolds
<1>6. c \in InCall =>
        /\ c.count <= n
        /\ c.requested /\ c.count < EntryCap => n > c.count
  BY <1>2, <1>4, <1>5
<1>7. \A k : Carries(t, k)' = Carries(t, k)
  BY DEF Carries, pageVars
<1>8. c \in InCall => HoldsTo(c, Carries(t, c.id)')
  BY <1>5, <1>7
<1> QED
  BY <1>2, <1>3, <1>6, <1>8 DEF CallHolds

LEMMA PendingShrinks ==
  ASSUME NEW S, IsFiniteSet(S), NEW n \in Nat, Cardinality(S) <= n, NEW r
  PROVE  IsFiniteSet(S \ {r}) /\ Cardinality(S \ {r}) <= n
<1>1. IsFiniteSet(S \ {r}) /\ Cardinality(S \ {r}) <= Cardinality(S)
  BY FS_Subset
<1>2. Cardinality(S) \in Nat /\ Cardinality(S \ {r}) \in Nat
  BY <1>1, FS_CardinalityType
<1> QED
  BY <1>1, <1>2

\* An answer to a request, which changes or adds one entry at most.
LEMMA AnswerKeeps ==
  ASSUME TabInv, NEW t \in Tabs, NEW r \in unanswered[t], NEW listed \in Seq(NetEntry),
         Len(listed) <= EntryCap, Len(ledger[t]) <= Len(listed),
         unanswered' = [unanswered EXCEPT ![t] = @ \ {r}],
         ledger' = [ledger EXCEPT ![t] = listed],
         UNCHANGED <<pageVars, epoch, timer, answers, held, call, requests, waits, unserved>>
  PROVE  TabInv'
<1> HIDE DEF NetEntry
<1>1. /\ ledger \in [Tabs -> Seq(NetEntry)] /\ requests \in [Tabs -> Nat]
      /\ unanswered \in [Tabs -> SUBSET (Nat \X PageUrls)]
      /\ \A v \in Tabs : /\ Len(ledger[v]) <= EntryCap
                         /\ IsFiniteSet(unanswered[v]) /\ Cardinality(unanswered[v]) <= requests[v]
                         /\ \A s \in unanswered[v] : s[1] < requests[v]
  BY TabFacts DEF NetTyped
<1>2. /\ ledger'[t] = listed /\ unanswered'[t] = unanswered[t] \ {r} /\ requests' = requests
      /\ \A v \in Tabs \ {t} : ledger'[v] = ledger[v] /\ unanswered'[v] = unanswered[v]
  BY <1>1
<1>3. NetTyped'
  <2>1. ledger' \in [Tabs -> Seq(NetEntry)] /\ requests' \in [Tabs -> Nat]
    BY <1>1, <1>2
  <2>2. unanswered' \in [Tabs -> SUBSET (Nat \X PageUrls)]
    BY <1>1
  <2>3. \A v \in Tabs : /\ Len(ledger'[v]) <= EntryCap
                        /\ IsFiniteSet(unanswered'[v]) /\ Cardinality(unanswered'[v]) <= requests'[v]
                        /\ \A s \in unanswered'[v] : s[1] < requests'[v]
    <3> SUFFICES ASSUME NEW v \in Tabs
                 PROVE  /\ Len(ledger'[v]) <= EntryCap
                        /\ IsFiniteSet(unanswered'[v]) /\ Cardinality(unanswered'[v]) <= requests'[v]
                        /\ \A s \in unanswered'[v] : s[1] < requests'[v]
      OBVIOUS
    <3>1. CASE v = t
      <4>1. requests[t] \in Nat /\ IsFiniteSet(unanswered[t]) /\ Cardinality(unanswered[t]) <= requests[t]
        BY <1>1
      <4>2. IsFiniteSet(unanswered[t] \ {r}) /\ Cardinality(unanswered[t] \ {r}) <= requests[t]
        BY <4>1, PendingShrinks
      <4> QED
        BY <1>1, <1>2, <3>1, <4>2
    <3>2. CASE v # t
      BY <1>1, <1>2, <3>2
    <3> QED
      BY <3>1, <3>2
  <2> QED
    BY <2>1, <2>2, <2>3 DEF NetTyped
<1>4. CallTyped'
  BY TabFacts DEF CallTyped
<1>5. CallHolds(t)'
  <2>1. Len(ledger[t]) <= Len(ledger'[t]) /\ call'[t] = call[t]
    BY <1>2
  <2> QED
    BY <1>3, <2>1, CallLonger
<1>6. \A v \in Tabs \ {t} : call'[v] = call[v] /\ ledger'[v] = ledger[v]
  BY <1>2
<1> QED
  BY <1>3, <1>4, <1>5, <1>6, NetSteps

LEMMA EntryOf ==
  ASSUME NEW u \in PageUrls, NEW said \in {"none", "answered", "failed"}
  PROVE  [url |-> u, status |-> said] \in NetEntry
BY DEF NetEntry

\* The entry that an answer goes to.
LEMMA EntryChanged ==
  ASSUME NEW s \in Seq(NetEntry), NEW i, NEW said \in {"none", "answered", "failed"}
  PROVE  [s EXCEPT ![i].status = said] \in Seq(NetEntry) /\ Len([s EXCEPT ![i].status = said]) = Len(s)
<1>1. i \in DOMAIN s => [s[i] EXCEPT !.status = said] \in NetEntry
  <2>1. i \in DOMAIN s => s[i] \in NetEntry
    <3> HIDE DEF NetEntry
    <3> QED
      OBVIOUS
  <2> QED
    BY <2>1 DEF NetEntry
<1>2. [s EXCEPT ![i].status = said] = [s EXCEPT ![i] = [s[i] EXCEPT !.status = said]]
  OBVIOUS
<1> HIDE DEF NetEntry
<1> QED
  BY <1>1, <1>2, ExceptKeeps

LEMMA NetFacts ==
  ASSUME TabInv, NEW t \in Tabs
  PROVE  /\ ledger[t] \in Seq(NetEntry) /\ Len(ledger[t]) <= EntryCap /\ Len(ledger[t]) \in Nat
         /\ \A r \in unanswered[t] : r[2] \in PageUrls
<1> HIDE DEF NetEntry
<1>1. ledger[t] \in Seq(NetEntry) /\ Len(ledger[t]) <= EntryCap /\ unanswered[t] \in SUBSET (Nat \X PageUrls)
  BY TabFacts DEF NetTyped
<1> QED
  BY <1>1

LEMMA RespondKeeps ==
  ASSUME TabInv, NEW t \in Tabs, NEW r \in unanswered[t], Respond(t, r)
  PROVE  TabInv'
<1>1. /\ ledger[t] \in Seq(NetEntry) /\ Len(ledger[t]) <= EntryCap /\ Len(ledger[t]) \in Nat
      /\ r[2] \in PageUrls
  BY NetFacts
<1>2. [url |-> r[2], status |-> "answered"] \in NetEntry
  BY <1>1, EntryOf
<1>3. /\ unanswered' = [unanswered EXCEPT ![t] = @ \ {r}]
      /\ UNCHANGED <<pageVars, epoch, timer, answers, held, call, requests, waits, unserved>>
  BY DEF Respond
<1>4. CASE Matching(ledger[t], r[2]) = {}
  <2>1. ledger' = [ledger EXCEPT ![t] = AddEntry(ledger[t], [url |-> r[2], status |-> "answered"])]
    BY <1>4 DEF Respond
  <2>2. /\ AddEntry(ledger[t], [url |-> r[2], status |-> "answered"]) \in Seq(NetEntry)
        /\ Len(AddEntry(ledger[t], [url |-> r[2], status |-> "answered"])) <= EntryCap
        /\ Len(ledger[t]) <= Len(AddEntry(ledger[t], [url |-> r[2], status |-> "answered"]))
    BY <1>1, <1>2, EntryAdded
  <2> QED
    BY <1>3, <2>1, <2>2, AnswerKeeps
<1>5. CASE Matching(ledger[t], r[2]) # {}
  <2>1. PICK i : ledger' = [ledger EXCEPT ![t] = [ledger[t] EXCEPT ![i].status = "answered"]]
    BY <1>5 DEF Respond
  <2>2. PICK listed : listed = [ledger[t] EXCEPT ![i].status = "answered"]
    OBVIOUS
  <2>3. listed \in Seq(NetEntry) /\ Len(listed) = Len(ledger[t])
    BY <1>1, <2>2, EntryChanged
  <2>4. ledger' = [ledger EXCEPT ![t] = listed] /\ Len(listed) <= EntryCap /\ Len(ledger[t]) <= Len(listed)
    BY <1>1, <2>1, <2>2, <2>3
  <2> QED
    BY <1>3, <2>3, <2>4, AnswerKeeps
<1> QED
  BY <1>4, <1>5

LEMMA TabFailKeeps ==
  ASSUME TabInv, NEW t \in Tabs, NEW r \in unanswered[t], Fail(t, r)
  PROVE  TabInv'
<1>1. ledger[t] \in Seq(NetEntry) /\ Len(ledger[t]) <= EntryCap /\ Len(ledger[t]) \in Nat
  BY NetFacts
<1>2. /\ unanswered' = [unanswered EXCEPT ![t] = @ \ {r}]
      /\ UNCHANGED <<pageVars, epoch, timer, answers, held, call, requests, waits, unserved>>
  BY DEF Fail
<1>3. \E listed \in Seq(NetEntry) :
        Len(listed) = Len(ledger[t]) /\ ledger' = [ledger EXCEPT ![t] = listed]
  <2>1. CASE Matching(ledger[t], r[2]) = {}
    <3>1. ledger' = [ledger EXCEPT ![t] = ledger[t]]
      BY <2>1 DEF Fail
    <3> QED
      BY <1>1, <3>1
  <2>2. CASE Matching(ledger[t], r[2]) # {}
    <3>1. PICK i : ledger' = [ledger EXCEPT ![t] = [ledger[t] EXCEPT ![i].status = "failed"]]
      BY <2>2 DEF Fail
    <3>2. PICK listed : listed = [ledger[t] EXCEPT ![i].status = "failed"]
      OBVIOUS
    <3>3. listed \in Seq(NetEntry) /\ Len(listed) = Len(ledger[t])
      BY <1>1, <3>2, EntryChanged
    <3> QED
      BY <3>1, <3>2, <3>3
  <2> QED
    BY <2>1, <2>2
<1>4. PICK listed \in Seq(NetEntry) :
        Len(listed) = Len(ledger[t]) /\ ledger' = [ledger EXCEPT ![t] = listed]
  BY <1>3
<1>5. Len(listed) <= EntryCap /\ Len(ledger[t]) <= Len(listed)
  BY <1>1, <1>4
<1> QED
  BY <1>2, <1>4, <1>5, AnswerKeeps

LEMMA OutPhase ==
  ASSUME NEW c \in OutCall
  PROVE  c.phase \notin InProgress
<1>1. CASE c = NoCall
  BY <1>1 DEF NoCall, InProgress
<1>2. ASSUME NEW said, c = Answered(said) PROVE c.phase \notin InProgress
  BY <1>2 DEF Answered, InProgress
<1> QED
  BY <1>1, <1>2 DEF OutCall

LEMMA TabRequestKeeps ==
  ASSUME TabInv, NEW t \in Tabs, NEW u \in PageUrls, Request(t, u)
  PROVE  TabInv'
<1>1. /\ ledger \in [Tabs -> Seq(NetEntry)] /\ requests \in [Tabs -> Nat]
      /\ unanswered \in [Tabs -> SUBSET (Nat \X PageUrls)]
      /\ \A v \in Tabs : /\ Len(ledger[v]) <= EntryCap
                         /\ IsFiniteSet(unanswered[v]) /\ Cardinality(unanswered[v]) <= requests[v]
                         /\ \A s \in unanswered[v] : s[1] < requests[v]
  BY TabFacts DEF NetTyped
<1>2. [url |-> u, status |-> "none"] \in NetEntry
  BY EntryOf
<1> HIDE DEF NetEntry
<1>3. PICK listed : listed = AddEntry(ledger[t], [url |-> u, status |-> "none"])
  OBVIOUS
<1>4. /\ ledger[t] \in Seq(NetEntry) /\ Len(ledger[t]) <= EntryCap /\ Len(ledger[t]) \in Nat
      /\ requests[t] \in Nat
  BY <1>1
<1>5. /\ listed \in Seq(NetEntry) /\ Len(listed) <= EntryCap /\ Len(ledger[t]) <= Len(listed)
      /\ Len(ledger[t]) < EntryCap => Len(listed) = Len(ledger[t]) + 1
  BY <1>2, <1>3, <1>4, EntryAdded
<1>6. /\ requests' = [requests EXCEPT ![t] = @ + 1]
      /\ unanswered' = [unanswered EXCEPT ![t] = @ \cup {<<requests[t], u>>}]
      /\ ledger' = [ledger EXCEPT ![t] = listed]
      /\ call' = [call EXCEPT ![t] =
           IF call[t].phase \in InProgress THEN [call[t] EXCEPT !.requested = TRUE] ELSE call[t]]
      /\ UNCHANGED <<pageVars, epoch, timer, answers, held, waits, unserved>>
  BY <1>3 DEF Request
<1>7. /\ ledger'[t] = listed /\ unanswered'[t] = unanswered[t] \cup {<<requests[t], u>>}
      /\ requests'[t] = requests[t] + 1
      /\ \A v \in Tabs \ {t} : /\ ledger'[v] = ledger[v] /\ unanswered'[v] = unanswered[v]
                               /\ requests'[v] = requests[v]
  BY <1>1, <1>6
<1>8. NetTyped'
  <2>1. ledger' \in [Tabs -> Seq(NetEntry)]
    BY <1>1, <1>5, <1>6
  <2>2. requests' \in [Tabs -> Nat] /\ unanswered' \in [Tabs -> SUBSET (Nat \X PageUrls)]
    BY <1>1, <1>4, <1>6
  <2>3. \A v \in Tabs : /\ Len(ledger'[v]) <= EntryCap
                        /\ IsFiniteSet(unanswered'[v]) /\ Cardinality(unanswered'[v]) <= requests'[v]
                        /\ \A s \in unanswered'[v] : s[1] < requests'[v]
    <3> SUFFICES ASSUME NEW v \in Tabs
                 PROVE  /\ Len(ledger'[v]) <= EntryCap
                        /\ IsFiniteSet(unanswered'[v]) /\ Cardinality(unanswered'[v]) <= requests'[v]
                        /\ \A s \in unanswered'[v] : s[1] < requests'[v]
      OBVIOUS
    <3>1. CASE v = t
      <4>1. /\ IsFiniteSet(unanswered[t]) /\ Cardinality(unanswered[t]) <= requests[t]
            /\ \A s \in unanswered[t] : s[1] \in Nat /\ s[1] < requests[t]
        BY <1>1
      <4>2. <<requests[t], u>> \notin unanswered[t]
        BY <1>4, <4>1
      <4>3. /\ IsFiniteSet(unanswered'[t]) /\ Cardinality(unanswered'[t]) = Cardinality(unanswered[t]) + 1
            /\ Cardinality(unanswered[t]) \in Nat
        BY <1>7, <4>1, <4>2, FS_AddElement, FS_CardinalityType
      <4>4. Cardinality(unanswered'[t]) <= requests'[t]
        BY <1>4, <1>7, <4>1, <4>3
      <4>5. \A s \in unanswered'[t] : s[1] < requests'[t]
        BY <1>4, <1>7, <4>1
      <4>6. Len(ledger'[t]) <= EntryCap
        BY <1>5, <1>7
      <4> QED
        BY <3>1, <4>3, <4>4, <4>5, <4>6
    <3>2. CASE v # t
      BY <1>1, <1>7, <3>2
    <3> QED
      BY <3>1, <3>2
  <2> QED
    BY <2>1, <2>2, <2>3 DEF NetTyped
<1>9. call \in [Tabs -> InCall \cup OutCall] /\ CallHolds(t)
  BY TabFacts DEF CallTyped, CallsHold
<1>10. \A v \in Tabs \ {t} : call'[v] = call[v] /\ ledger'[v] = ledger[v]
  BY <1>6, <1>7, <1>9
<1>11. CASE call[t] \in InCall
  <2>1. PICK c \in InCall : c = call[t]
    BY <1>11
  <2>2. PICK b \in InCall : b = [c EXCEPT !.requested = TRUE]
    BY DEF InCall
  <2>3. /\ b.count = c.count /\ b.count \in Nat /\ b.sole = c.sole /\ b.phase = c.phase /\ b.id = c.id
        /\ b.meant = c.meant /\ b.by = c.by /\ b.on = c.on /\ c.phase \in InProgress
    BY <2>2 DEF InCall
  <2>4. call' = [call EXCEPT ![t] = b]
    BY <1>6, <2>1, <2>2, <2>3
  <2>5. CallTyped' /\ call'[t] = b
    BY <1>9, <2>4 DEF CallTyped
  <2>6. c.count <= Len(ledger[t]) /\ HoldsTo(b, Carries(t, b.id))
    <3>1. c.count <= Len(ledger[t]) /\ HoldsTo(c, Carries(t, c.id))
      BY <1>9, <2>1 DEF CallHolds
    <3> QED
      BY <2>3, <3>1 DEF HoldsTo
  <2>7. b.count <= Len(ledger'[t]) /\ (b.count < EntryCap => Len(ledger'[t]) > b.count)
    <3>1. PICK m, n \in Nat : m = Len(ledger[t]) /\ n = Len(listed)
      BY <1>4, <1>5
    <3>2. EntryCap \in Nat
      BY PageAssumption
    <3>3. m <= n /\ n <= EntryCap /\ b.count <= m /\ (m < EntryCap => n = m + 1) /\ m <= EntryCap
      BY <1>4, <1>5, <2>3, <2>6, <3>1
    <3>4. b.count <= n /\ (b.count < EntryCap => n > b.count)
      BY <2>3, <3>2, <3>3
    <3> QED
      BY <1>7, <3>1, <3>4
  <2>8. \A k : Carries(t, k)' = Carries(t, k)
    BY <1>6 DEF Carries, pageVars
  <2>9. CallHolds(t)'
    BY <2>3, <2>5, <2>6, <2>7, <2>8 DEF CallHolds
  <2> QED
    BY <1>6, <1>8, <1>10, <2>5, <2>9, NetSteps
<1>12. CASE call[t] \notin InCall
  <2>1. call[t] \in OutCall
    BY <1>9, <1>12
  <2>2. call[t].phase \notin InProgress
    BY <2>1, OutPhase
  <2>3. call' = call
    BY <1>6, <1>9, <2>2
  <2>4. CallTyped' /\ CallHolds(t)'
    BY <1>9, <1>12, <2>3 DEF CallTyped, CallHolds
  <2> QED
    BY <1>6, <1>8, <1>10, <2>4, NetSteps
<1> QED
  BY <1>11, <1>12

-----------------------------------------------------------------------------
(* inspect.                                                                *)

LEMMA TellKeeps ==
  ASSUME TabInv, NEW t \in Tabs, NEW answer \in TabAnswer, Tell(t, answer)
  PROVE  /\ held' \in [Tabs -> Seq(TabAnswer)]
         /\ \A v \in Tabs : ToSet(held'[v]) \subseteq ToSet(held[v]) \cup {answer}
<1> HIDE DEF TabAnswer
<1>1. held \in [Tabs -> Seq(TabAnswer)]
  BY TabFacts DEF AnswersTyped
<1>2. PICK s : s = held[t]
  OBVIOUS
<1>3. s \in Seq(TabAnswer) /\ Len(s) \in Nat
  BY <1>1, <1>2
<1>4. PICK recent \in Seq(TabAnswer) :
        recent = (IF Len(s) < 2 THEN s ELSE Tail(s)) /\ ToSet(recent) \subseteq ToSet(s)
  <2>1. CASE Len(s) < 2
    BY <1>3, <2>1
  <2>2. CASE ~(Len(s) < 2)
    <3>1. s # <<>>
      BY <1>3, <2>2
    <3>2. Tail(s) \in Seq(TabAnswer) /\ ToSet(Tail(s)) \subseteq ToSet(s)
      BY <1>3, <3>1, TailKeeps
    <3> QED
      BY <2>2, <3>2
  <2> QED
    BY <2>1, <2>2
<1>5. Append(recent, answer) \in Seq(TabAnswer) /\ ToSet(Append(recent, answer)) \subseteq ToSet(recent) \cup {answer}
  BY AppendKeeps
<1>6. held' = [held EXCEPT ![t] = Append(recent, answer)]
  BY <1>2, <1>4 DEF Tell
<1>7. held'[t] = Append(recent, answer) /\ \A v \in Tabs \ {t} : held'[v] = held[v]
  BY <1>1, <1>6
<1>8. held' \in [Tabs -> Seq(TabAnswer)]
  BY <1>1, <1>5, <1>6
<1>9. \A v \in Tabs : ToSet(held'[v]) \subseteq ToSet(held[v]) \cup {answer}
  <2> SUFFICES ASSUME NEW v \in Tabs PROVE ToSet(held'[v]) \subseteq ToSet(held[v]) \cup {answer}
    OBVIOUS
  <2>1. CASE v = t
    BY <1>2, <1>4, <1>5, <1>7, <2>1
  <2>2. CASE v # t
    <3>1. held'[v] = held[v]
      BY <1>7, <2>2
    <3> QED
      BY <3>1
  <2> QED
    BY <2>1, <2>2
<1> QED
  BY <1>8, <1>9

\* The rest of a step in which no agent acts and nothing is requested.
LEMMA CallsQuiet ==
  ASSUME TabInv, UNCHANGED <<layout, ids, call, ledger>>
  PROVE  CallTyped' /\ CallsHold'
<1>1. CallTyped'
  BY TabFacts DEF CallTyped
<1>2. \A v, k : Carries(v, k)' = Carries(v, k)
  BY DEF Carries
<1>3. \A v \in Tabs : CallHolds(v)'
  BY <1>2, CallStill
<1> QED
  BY <1>1, <1>3 DEF CallsHold

LEMMA InspectAgainKeeps ==
  ASSUME TabInv, NEW t \in Tabs, NEW view \in Selections, InspectAgain(t, view)
  PROVE  TabInv'
<1>1. PICK i \in DOMAIN answers : Tell(t, answers[i].answer)
  BY DEF InspectAgain
<1>2. answers[i].answer \in TabTold
  BY DEF TabTold
<1>3. answers[i].answer \in TabAnswer
  BY <1>2, ToldTyped
<1>4. /\ held' \in [Tabs -> Seq(TabAnswer)]
      /\ \A v \in Tabs : ToSet(held'[v]) \subseteq ToSet(held[v]) \cup {answers[i].answer}
  BY <1>1, <1>3, TellKeeps
<1>5. UNCHANGED <<pageVars, epoch, timer, answers, call, netVars, waits, unserved>>
  BY DEF InspectAgain
<1>6. AnswersTyped'
  BY <1>4, <1>5, TabFacts DEF AnswersTyped
<1>7. TabTold' \subseteq TabTold
  BY <1>2, <1>4, <1>5 DEF TabTold
<1>8. PageTyped' /\ TimeTyped' /\ Unnumbered' /\ AnswersHold'
  BY <1>5, <1>7, PageQuiet
<1>9. NetTyped' /\ WaitsAlike' /\ ledger' = ledger
  BY <1>5, NetQuiet, WaitQuiet
<1>10. CallTyped' /\ CallsHold'
  BY <1>5, <1>9, CallsQuiet DEF pageVars
<1> QED
  BY <1>6, <1>8, <1>9, <1>10 DEF TabInv

\* A new answer is typed and tells each number once.
LEMMA AnswerTyped ==
  ASSUME TabInv, NEW t \in Tabs, NEW view \in Selections
  PROVE  /\ AnswerOf(StateOf(t), layout[t], view, Doc(t), observed[t]) \in TabAnswer
         /\ \A c, d \in Candidates(layout[t], view) : c.id = d.id => c = d
         /\ Stamped(t, view) \in [Elements -> Numbers]
<1>1. layout[t] \in Layouts /\ view \in SUBSET Elements /\ ids[t] \in [Elements -> Numbers]
  BY TabFacts, PageAssumption DEF PageTyped
<1>2. layout[t].order \in Seq(Elements) /\ view \cap layout[t].shown \subseteq view \cap ToSet(layout[t].order)
  BY <1>1, DocumentFits
<1>3. \A e \in view \cap layout[t].shown : Rank(layout[t], view, e) \in Numbers \ {0}
  BY <1>1, <1>2, RankFits
<1>4. Candidates(layout[t], view) \in SUBSET Candidate
  BY <1>1, <1>3 DEF Candidates, Candidate
<1>5. StateOf(t) \in TabState /\ Doc(t) \in Tabs \X Nat
  <2>1. tabUrl[t] \in Addresses /\ epoch[t] \in Nat /\ tabLoad[t] \in Nat
    BY TabFacts DEF PageTyped, TimeTyped
  <2> QED
    BY <2>1 DEF StateOf, TabState, Doc
<1>9. observed[t] \in BOOLEAN
  BY TabFacts DEF PageTyped
<1>6. AnswerOf(StateOf(t), layout[t], view, Doc(t), observed[t]) \in TabAnswer
  BY <1>2, <1>4, <1>5, <1>9 DEF AnswerOf, TabAnswer
<1>7. \A c, d \in Candidates(layout[t], view) : c.id = d.id => c = d
  <2> SUFFICES ASSUME NEW e \in view \cap layout[t].shown, NEW f \in view \cap layout[t].shown,
                      Rank(layout[t], view, e) = Rank(layout[t], view, f)
               PROVE  e = f
    BY DEF Candidates
  <2> QED
    BY <1>1, <1>2, RankApart
<1>8. Stamped(t, view) \in [Elements -> Numbers]
  BY <1>1, <1>3 DEF Stamped
<1> QED
  BY <1>6, <1>7, <1>8

LEMMA CacheKeeps ==
  ASSUME TabInv, NEW entry \in CacheEntry,
         answers' = IF Len(Append(answers, entry)) > InspectCap
                    THEN Tail(Append(answers, entry)) ELSE Append(answers, entry)
  PROVE  /\ answers' \in Seq(CacheEntry) /\ Len(answers') <= InspectCap
         /\ ToSet(answers') \subseteq ToSet(answers) \cup {entry}
<1> HIDE DEF CacheEntry
<1>1. answers \in Seq(CacheEntry) /\ Len(answers) <= InspectCap /\ InspectCap \in Nat /\ Len(answers) \in Nat
  BY TabFacts, PageAssumption DEF AnswersTyped
<1>2. PICK more \in Seq(CacheEntry) : /\ more = Append(answers, entry) /\ Len(more) = Len(answers) + 1
                                      /\ more # <<>> /\ ToSet(more) \subseteq ToSet(answers) \cup {entry}
  BY <1>1, AppendKeeps
<1>3. /\ Tail(more) \in Seq(CacheEntry) /\ Len(Tail(more)) = Len(more) - 1 /\ ToSet(Tail(more)) \subseteq ToSet(more)
  BY <1>2, TailKeeps
<1>4. CASE Len(more) > InspectCap
  <2>1. answers' = Tail(more)
    BY <1>2, <1>4
  <2>2. Len(answers') <= InspectCap
    BY <1>1, <1>2, <1>3, <2>1
  <2> QED
    BY <1>2, <1>3, <2>1, <2>2
<1>5. CASE ~(Len(more) > InspectCap)
  <2>1. answers' = more
    BY <1>2, <1>5
  <2>2. Len(answers') <= InspectCap
    BY <1>1, <1>2, <1>5, <2>1
  <2> QED
    BY <1>2, <2>1, <2>2
<1> QED
  BY <1>4, <1>5

LEMMA InspectKeeps ==
  ASSUME TabInv, NEW t \in Tabs, NEW view \in Selections, Inspect(t, view)
  PROVE  TabInv'
<1>1. PICK answer : answer = AnswerOf(StateOf(t), layout[t], view, Doc(t), observed[t])
  OBVIOUS
<1>2. /\ answer \in TabAnswer /\ Stamped(t, view) \in [Elements -> Numbers]
      /\ \A c, d \in Candidates(layout[t], view) : c.id = d.id => c = d
  BY <1>1, AnswerTyped
<1>3. PICK entry : entry = [key |-> InspectKey(TabProfile[t], view, StateOf(t)), answer |-> answer]
  OBVIOUS
<1>4. /\ answers' = IF Len(Append(answers, entry)) > InspectCap
                    THEN Tail(Append(answers, entry)) ELSE Append(answers, entry)
      /\ Tell(t, answer)
  BY <1>1, <1>3 DEF Inspect
<1>5. /\ ids' = [ids EXCEPT ![t] = Stamped(t, view)]
      /\ timer' = [timer EXCEPT ![t] = @ \/ (observed[t] /\ view \cap layout[t].shown # {})]
      /\ numbering' = [numbering EXCEPT ![t] = IF @ = "no" THEN "once" ELSE "again"]
      /\ tabUrl' = tabUrl /\ tabLoad' = tabLoad /\ layout' = layout /\ epoch' = epoch
      /\ observed' = observed /\ UNCHANGED <<call, netVars, waits, unserved>>
      /\ call[t] = NoCall /\ (observed[t] => epoch[t] < MaxEpoch[t])
  BY DEF Inspect, Reached
<1>6. entry \in CacheEntry
  <2>1. tabUrl[t] \in Addresses /\ epoch[t] \in Nat
    BY TabFacts DEF PageTyped, TimeTyped
  <2>2. InspectKey(TabProfile[t], view, StateOf(t)) \in TabKey
    BY <2>1 DEF InspectKey, TabKey, StateOf, TabState
  <2> QED
    BY <1>2, <1>3, <2>2 DEF CacheEntry
<1>7. /\ answers' \in Seq(CacheEntry) /\ Len(answers') <= InspectCap
      /\ ToSet(answers') \subseteq ToSet(answers) \cup {entry}
  BY <1>4, <1>6, CacheKeeps
<1>8. /\ held' \in [Tabs -> Seq(TabAnswer)]
      /\ \A v \in Tabs : ToSet(held'[v]) \subseteq ToSet(held[v]) \cup {answer}
  BY <1>2, <1>4, TellKeeps
<1>9. AnswersTyped'
  BY <1>7, <1>8 DEF AnswersTyped
<1>10. TabTold' \subseteq TabTold \cup {answer}
  <2>1. entry.answer = answer
    BY <1>3
  <2>2. \A i \in DOMAIN answers' : answers'[i].answer \in TabTold \cup {answer}
    BY <1>7, <2>1 DEF TabTold, ToSet
  <2>3. \A v \in Tabs : ToSet(held'[v]) \subseteq TabTold \cup {answer}
    BY <1>8 DEF TabTold
  <2> QED
    BY <2>2, <2>3 DEF TabTold
<1>11. /\ ids \in [Tabs -> [Elements -> Numbers]] /\ numbering \in [Tabs -> {"no", "once", "again"}]
       /\ timer \in [Tabs -> BOOLEAN] /\ tabLoad \in [Tabs -> Nat] /\ epoch[t] \in Nat
       /\ observed[t] \in BOOLEAN
  BY TabFacts DEF PageTyped, TimeTyped
<1>12. /\ ids'[t] = Stamped(t, view) /\ (timer[t] => timer'[t]) /\ (timer'[t] => timer[t] \/ observed[t])
       /\ numbering'[t] = (IF numbering[t] = "no" THEN "once" ELSE "again")
       /\ \A v \in Tabs \ {t} : ids'[v] = ids[v] /\ timer'[v] = timer[v] /\ numbering'[v] = numbering[v]
  BY <1>5, <1>11
<1>13. PageTyped'
  <2>1. ids' \in [Tabs -> [Elements -> Numbers]] /\ numbering' \in [Tabs -> {"no", "once", "again"}]
    BY <1>2, <1>5, <1>11
  <2> QED
    BY <1>5, <2>1, TabFacts DEF PageTyped
<1>14. TimeTyped'
  <2>1. timer' \in [Tabs -> BOOLEAN]
    BY <1>5, <1>11
  <2> QED
    BY <1>5, <1>12, <2>1, TabFacts DEF TimeTyped
<1>15. \A v \in Tabs \ {t} : SamePage(v)
  BY <1>5, <1>12 DEF SamePage
<1>16. Unnumbered'
  <2>1. numbering'[t] # "no"
    BY <1>12
  <2> QED
    BY <1>12, <2>1, TabFacts DEF Unnumbered
<1>17. AnswersHold'
  <2>1. ASSUME NEW a \in TabTold PROVE AnswerHolds(a)'
    <3>1. a \in TabAnswer /\ AnswerHolds(a)
      BY ToldTyped
    <3>2. AnswerFits(a, t)
      BY <3>1 DEF AnswerHolds
    <3>3. AnswerFits(a, t)'
      BY <1>5, <1>12, <3>2 DEF AnswerFits, Doc
    <3>4. tabLoad' \in [Tabs -> Nat] /\ tabLoad[t] <= tabLoad'[t]
      BY <1>5, <1>11
    <3> QED
      BY <1>15, <3>1, <3>3, <3>4, AnswerStill
  <2>2. AnswerHolds(answer)'
    <3>1. /\ answer.doc = <<t, tabLoad[t]>> /\ answer.candidates = Candidates(layout[t], view)
          /\ answer.order = layout[t].order /\ answer.state[2] = epoch[t] /\ answer.seen = observed[t]
      BY <1>1 DEF AnswerOf, Doc, StateOf
    <3>2. \A c, d \in answer.candidates : c.id = d.id => c = d
      BY <1>2, <3>1
    <3>3. \A v \in Tabs : answer.doc # <<>> /\ answer.doc[1] = v => answer.doc[2] <= tabLoad'[v]
      BY <1>5, <1>11, <3>1
    <3>4. AnswerFits(answer, t)'
      <4>1. numbering'[t] = "once" =>
              \A e \in Elements : ids'[t][e] # 0 => \E c \in answer.candidates : c.id = ids'[t][e] /\ c.meant = e
        <5> SUFFICES ASSUME numbering'[t] = "once", NEW e \in Elements, ids'[t][e] # 0
                     PROVE  \E c \in answer.candidates : c.id = ids'[t][e] /\ c.meant = e
          OBVIOUS
        <5>1. ids[t][e] = 0
          BY <1>12, TabFacts DEF Unnumbered
        <5>2. e \in view \cap layout[t].shown /\ ids'[t][e] = Rank(layout[t], view, e)
          BY <1>12, <5>1 DEF Stamped
        <5>3. [id |-> Rank(layout[t], view, e), meant |-> e] \in answer.candidates
          BY <3>1, <5>2 DEF Candidates
        <5> QED
          BY <5>2, <5>3
      <4>2. numbering'[t] # "no" /\ answer.state[2] <= epoch'[t]
        BY <1>5, <1>11, <1>12, <3>1
      <4> QED
        BY <1>5, <3>1, <4>1, <4>2 DEF AnswerFits
    <3>5. \A v \in Tabs \ {t} : AnswerFits(answer, v)'
      BY <3>1 DEF AnswerFits, Doc
    <3> QED
      BY <3>2, <3>3, <3>4, <3>5 DEF AnswerHolds
  <2> QED
    BY <1>10, <2>1, <2>2 DEF AnswersHold
<1>18. NetTyped' /\ WaitsAlike' /\ ledger' = ledger
  BY <1>5, NetQuiet, WaitQuiet
<1>19. CallTyped'
  BY <1>5, TabFacts DEF CallTyped
<1>20. CallHolds(t)'
  BY <1>5 DEF CallHolds, InCall, NoCall
<1>21. \A v \in Tabs \ {t} : /\ call'[v] = call[v] /\ ledger'[v] = ledger[v]
                              /\ ids'[v] = ids[v] /\ layout'[v] = layout[v]
  BY <1>5, <1>12, <1>18
<1>22. CallsHold'
  BY <1>20, <1>21, CallsStill
<1> QED
  BY <1>9, <1>13, <1>14, <1>16, <1>17, <1>18, <1>19, <1>22 DEF TabInv

-----------------------------------------------------------------------------
(* interact and wait.                                                      *)

\* Only the interaction of one tab goes on.
LEMMA CallSteps ==
  ASSUME TabInv, NEW t \in Tabs, NEW c \in InCall \cup OutCall, call' = [call EXCEPT ![t] = c],
         UNCHANGED <<pageVars, epoch, timer, answers, held, netVars, waits, unserved>>,
         CallHolds(t)'
  PROVE  TabInv'
<1>1. AnswersTyped' /\ TabTold' = TabTold
  BY AnswersQuiet
<1>2. PageTyped' /\ TimeTyped' /\ Unnumbered' /\ AnswersHold'
  BY <1>1, PageQuiet
<1>3. NetTyped' /\ WaitsAlike' /\ ledger' = ledger
  BY NetQuiet, WaitQuiet
<1>4. call \in [Tabs -> InCall \cup OutCall]
  BY TabFacts DEF CallTyped
<1>5. CallTyped' /\ \A v \in Tabs \ {t} : call'[v] = call[v]
  BY <1>4 DEF CallTyped
<1>6. CallsHold'
  <2>1. \A v \in Tabs \ {t} : /\ call'[v] = call[v] /\ ledger'[v] = ledger[v]
                              /\ ids'[v] = ids[v] /\ layout'[v] = layout[v]
    BY <1>3, <1>5 DEF pageVars
  <2> QED
    BY <2>1, CallsStill
<1> QED
  BY <1>1, <1>2, <1>3, <1>5, <1>6 DEF TabInv

\* An interaction that is over, or not begun, has nothing to hold to.
LEMMA CallEnds ==
  ASSUME TabInv, NEW t \in Tabs, NEW c \in OutCall, call' = [call EXCEPT ![t] = c],
         UNCHANGED <<pageVars, epoch, timer, answers, held, netVars, waits, unserved>>
  PROVE  TabInv'
<1>1. call \in [Tabs -> InCall \cup OutCall]
  BY TabFacts DEF CallTyped
<1>2. call'[t] = c
  BY <1>1
<1>3. c \notin InCall
  BY OutPhase DEF InCall
<1>4. CallHolds(t)'
  BY <1>2, <1>3 DEF CallHolds
<1> QED
  BY <1>4, CallSteps

\* What carries the number of a candidate whose document was inspected once.
LEMMA CarriesMeant ==
  ASSUME TabInv, NEW t \in Tabs, NEW answer \in ToSet(held[t]), NEW c \in answer.candidates,
         answer.doc = Doc(t), numbering[t] = "once"
  PROVE  Carries(t, c.id) \subseteq {c.meant}
<1>1. answer \in TabTold
  BY DEF TabTold
<1>2. answer \in TabAnswer /\ AnswerHolds(answer)
  BY <1>1, ToldTyped
<1>3. AnswerFits(answer, t) /\ \A d, e \in answer.candidates : d.id = e.id => d = e
  BY <1>2 DEF AnswerHolds
<1>4. \A e \in Elements : ids[t][e] # 0 => \E d \in answer.candidates : d.id = ids[t][e] /\ d.meant = e
  BY <1>3 DEF AnswerFits
<1>5. c.id # 0
  BY <1>2 DEF TabAnswer, Candidate
<1>6. ToSet(layout[t].order) \subseteq Elements
  <2>1. layout[t] \in Layouts
    BY TabFacts DEF PageTyped
  <2> QED
    BY <2>1, DocumentFits
<1> SUFFICES ASSUME NEW e \in Carries(t, c.id) PROVE e = c.meant
  OBVIOUS
<1>7. e \in Elements /\ ids[t][e] = c.id
  BY <1>6 DEF Carries
<1>8. PICK d \in answer.candidates : d.id = c.id /\ d.meant = e
  BY <1>4, <1>5, <1>7
<1> QED
  BY <1>3, <1>8

LEMMA InteractKeeps ==
  ASSUME TabInv, NEW t \in Tabs, NEW answer \in ToSet(held[t]), NEW c \in answer.candidates,
         NEW x \in {"auto", "network"}, Interact(t, answer, c, x)
  PROVE  TabInv'
<1>1. answer \in TabTold
  BY DEF TabTold
<1>2. answer \in TabAnswer
  BY <1>1, ToldTyped
<1>3. c \in Candidate /\ answer.state \in TabState
  BY <1>2 DEF TabAnswer
<1>4. c.id \in Numbers \ {0} /\ c.meant \in Elements
  BY <1>3 DEF Candidate
<1>5. tabUrl[t] \in Addresses /\ epoch[t] \in Nat /\ Len(ledger[t]) \in Nat
  <2>1. tabUrl[t] \in Addresses /\ epoch[t] \in Nat
    BY TabFacts DEF PageTyped, TimeTyped
  <2> QED
    BY <2>1, NetFacts
<1>6. PICK sole \in BOOLEAN : sole = (answer.doc = Doc(t) /\ numbering[t] = "once")
  OBVIOUS
<1>7. PICK begun : begun =
        [phase |-> "begun", id |-> c.id, meant |-> c.meant, state |-> answer.state, by |-> "none", on |-> "",
         expected |-> x, sole |-> sole, url |-> tabUrl[t], epoch |-> epoch[t], count |-> Len(ledger[t]), requested |-> FALSE]
  OBVIOUS
<1>8. begun \in InCall
  BY <1>3, <1>4, <1>5, <1>7 DEF InCall, InProgress
<1>9. /\ call' = [call EXCEPT ![t] = begun]
      /\ UNCHANGED <<pageVars, epoch, timer, answers, held, netVars, waits, unserved>>
  BY <1>6, <1>7 DEF Interact
<1>10. call'[t] = begun
  BY <1>9, TabFacts DEF CallTyped
<1>11. /\ begun.count = Len(ledger[t]) /\ begun.requested = FALSE /\ begun.sole = sole
       /\ begun.phase = "begun" /\ begun.id = c.id /\ begun.meant = c.meant
  BY <1>7
<1>12. begun.sole => Carries(t, begun.id) \subseteq {begun.meant}
  BY <1>6, <1>11, CarriesMeant
<1>13. ledger' = ledger /\ \A k : Carries(t, k)' = Carries(t, k)
  BY <1>9 DEF netVars, pageVars, Carries
<1>14. CallHolds(t)'
  <2>1. begun.count <= Len(ledger'[t])
    BY <1>5, <1>11, <1>13
  <2>2. begun.sole => Carries(t, begun.id)' \subseteq {begun.meant}
    BY <1>12, <1>13
  <2> QED
    BY <1>10, <1>11, <2>1, <2>2 DEF CallHolds, HoldsTo
<1> QED
  BY <1>8, <1>9, <1>14, CallSteps

LEMMA OutCallIs ==
  /\ NoCall \in OutCall
  /\ \A said \in {"not located", "failed", "verified", "unverified"} : Answered(said) \in OutCall
BY DEF OutCall

LEMMA ReturnKeeps ==
  ASSUME TabInv, NEW t \in Tabs, Return(t)
  PROVE  TabInv'
<1>1. /\ call' = [call EXCEPT ![t] = NoCall]
      /\ UNCHANGED <<pageVars, epoch, timer, answers, held, netVars, waits, unserved>>
  BY DEF Return
<1> QED
  BY <1>1, OutCallIs, CallEnds

LEMMA VerifyKeeps ==
  ASSUME TabInv, NEW t \in Tabs, Verify(t)
  PROVE  TabInv'
<1>1. /\ \E said \in {"verified", "unverified"} : call' = [call EXCEPT ![t] = Answered(said)]
      /\ UNCHANGED <<pageVars, epoch, timer, answers, held, netVars, waits, unserved>>
  BY DEF Verify
<1> QED
  BY <1>1, OutCallIs, CallEnds

\* A step of an interaction in progress, to a phase that it holds to as well.
LEMMA CallGoesOn ==
  ASSUME TabInv, NEW t \in Tabs, NEW b \in InCall, call[t] \in InCall,
         b.count = call[t].count, b.requested = call[t].requested, b.id = call[t].id,
         HoldsTo(call[t], Carries(t, b.id)) => HoldsTo(b, Carries(t, b.id)),
         call' = [call EXCEPT ![t] = b],
         UNCHANGED <<pageVars, epoch, timer, answers, held, netVars, waits, unserved>>
  PROVE  TabInv'
<1>1. call'[t] = b
  BY TabFacts DEF CallTyped
<1>2. ledger' = ledger /\ \A k : Carries(t, k)' = Carries(t, k)
  BY DEF netVars, pageVars, Carries
<1>3. PICK c : c = call[t]
  OBVIOUS
<1>4. /\ c.count <= Len(ledger[t])
      /\ c.requested /\ c.count < EntryCap => Len(ledger[t]) > c.count
      /\ HoldsTo(c, Carries(t, c.id))
  BY <1>3, TabFacts DEF CallsHold, CallHolds
<1>5. /\ b.count <= Len(ledger[t])
      /\ b.requested /\ b.count < EntryCap => Len(ledger[t]) > b.count
      /\ HoldsTo(b, Carries(t, b.id))
  BY <1>3, <1>4
<1>6. CallHolds(t)'
  BY <1>1, <1>2, <1>5 DEF CallHolds
<1> QED
  BY <1>6, CallSteps

\* An interaction that is in progress.
LEMMA InCallIs ==
  ASSUME TabInv, NEW t \in Tabs, call[t].phase \in InProgress
  PROVE  call[t] \in InCall
<1>1. call[t] \in InCall \cup OutCall
  BY TabFacts DEF CallTyped
<1> QED
  BY <1>1, OutPhase

LEMMA CheckKeeps ==
  ASSUME TabInv, NEW t \in Tabs, Check(t)
  PROVE  TabInv'
<1>1. call[t].phase = "begun" /\ UNCHANGED <<pageVars, epoch, timer, answers, held, netVars, waits, unserved>>
  BY DEF Check
<1>2. call[t] \in InCall
  BY <1>1, InCallIs DEF InProgress
<1>3. CASE IsStale(t, call[t].state)
  <2>1. call' = [call EXCEPT ![t] = Answered("not located")]
    BY <1>3 DEF Check
  <2> QED
    BY <1>1, <2>1, OutCallIs, CallEnds
<1>4. CASE ~IsStale(t, call[t].state)
  <2>1. PICK c \in InCall : c = call[t]
    BY <1>2
  <2>2. PICK b : b = [c EXCEPT !.phase = "checked"]
    OBVIOUS
  <2>3. /\ b \in InCall /\ b.count = c.count /\ b.requested = c.requested /\ b.id = c.id
        /\ b.sole = c.sole /\ b.phase = "checked" /\ b.meant = c.meant
    BY <2>2 DEF InCall, InProgress
  <2>4. HoldsTo(c, Carries(t, b.id)) => HoldsTo(b, Carries(t, b.id))
    BY <1>1, <2>1, <2>3 DEF HoldsTo
  <2>5. call' = [call EXCEPT ![t] = b]
    BY <1>4, <2>1, <2>2 DEF Check
  <2> QED
    BY <1>1, <2>1, <2>3, <2>4, <2>5, CallGoesOn
<1> QED
  BY <1>3, <1>4

LEMMA LocateKeeps ==
  ASSUME TabInv, NEW t \in Tabs, Locate(t)
  PROVE  TabInv'
<1>1. call[t].phase = "checked" /\ UNCHANGED <<pageVars, epoch, timer, answers, held, netVars, waits, unserved>>
  BY DEF Locate
<1>2. call[t] \in InCall
  BY <1>1, InCallIs DEF InProgress
<1>3. CASE call' = [call EXCEPT ![t] = Answered("not located")]
  BY <1>1, <1>3, OutCallIs, CallEnds
<1>4. ASSUME NEW by \in {"stamp", "other"}, Found(t, by), by = "other" => Carries(t, call[t].id) = {}
      PROVE  TabInv'
  <2>1. PICK c \in InCall : c = call[t]
    BY <1>2
  <2>2. PICK b : b = [c EXCEPT !.phase = "located", !.by = by]
    OBVIOUS
  <2>3. /\ b \in InCall /\ b.count = c.count /\ b.requested = c.requested /\ b.id = c.id
        /\ b.sole = c.sole /\ b.phase = "located" /\ b.by = by /\ b.meant = c.meant
    BY <2>2 DEF InCall, InProgress
  <2>4. HoldsTo(c, Carries(t, b.id)) => HoldsTo(b, Carries(t, b.id))
    BY <1>1, <1>4, <2>1, <2>3 DEF HoldsTo
  <2>5. call' = [call EXCEPT ![t] = b]
    BY <1>4, <2>1, <2>2 DEF Found
  <2> QED
    BY <1>1, <2>1, <2>3, <2>4, <2>5, CallGoesOn
<1> QED
  BY <1>3, <1>4 DEF Locate

LEMMA ActKeeps ==
  ASSUME TabInv, NEW t \in Tabs, Act(t)
  PROVE  TabInv'
<1>1. /\ call[t].phase = "located"
      /\ UNCHANGED <<pageVars, epoch, timer, answers, held, netVars, waits, unserved>>
  BY DEF Act
<1>2. call[t] \in InCall
  BY <1>1, InCallIs DEF InProgress
<1>3. PICK c \in InCall : c = call[t]
  BY <1>2
<1>4. CASE call' = [call EXCEPT ![t] = Answered("failed")]
  BY <1>1, <1>4, OutCallIs, CallEnds
<1>5. ASSUME NEW e \in Targets(t), call' = [call EXCEPT ![t] = [@ EXCEPT !.phase = "acted", !.on = e]]
      PROVE  TabInv'
  <2>1. e \in Elements \cup {""}
    <3>1. layout[t] \in Layouts
      BY TabFacts DEF PageTyped
    <3> QED
      BY <3>1, DocumentFits DEF Targets, Carries
  <2>2. PICK b : b = [c EXCEPT !.phase = "acted", !.on = e]
    OBVIOUS
  <2>3. /\ b \in InCall /\ b.count = c.count /\ b.requested = c.requested /\ b.sole = c.sole
        /\ b.phase = "acted" /\ b.on = e /\ b.meant = c.meant /\ b.by = c.by /\ b.id = c.id
    BY <2>1, <2>2 DEF InCall, InProgress
  <2>4. call' = [call EXCEPT ![t] = b]
    BY <1>3, <1>5, <2>2
  <2>5. c.by = "stamp" => e \in Carries(t, b.id)
    BY <1>3, <2>3 DEF Targets
  <2>6. HoldsTo(c, Carries(t, b.id)) => HoldsTo(b, Carries(t, b.id))
    BY <1>1, <1>3, <2>3, <2>5 DEF HoldsTo
  <2> QED
    BY <1>1, <1>3, <2>3, <2>4, <2>6, CallGoesOn
<1> QED
  BY <1>4, <1>5 DEF Act

LEMMA WaitKeeps ==
  ASSUME TabInv, NEW t \in Tabs, Wait(t)
  PROVE  TabInv'
<1>1. /\ waits \in [Tabs -> Nat] /\ unserved \in [Tabs -> Nat] /\ WaitLimit \in Nat
      /\ \A v \in Tabs : unserved[v] = waits[v] /\ waits[v] <= WaitLimit
  BY TabFacts, PageAssumption DEF WaitsAlike
<1>2. UNCHANGED <<pageVars, epoch, timer, answers, held, call, netVars>>
  BY DEF Wait
<1>3. /\ waits' = [waits EXCEPT ![t] = IF waits[t] + 1 > WaitLimit THEN 0 ELSE waits[t] + 1]
      /\ unserved' = [unserved EXCEPT ![t] =
           IF waits[t] + 1 > WaitLimit THEN 0 ELSE IF unserved[t] > WaitLimit THEN unserved[t] ELSE unserved[t] + 1]
  BY DEF Wait, WaitCount
<1>4. PICK n \in Nat : n = (IF waits[t] + 1 > WaitLimit THEN 0 ELSE waits[t] + 1) /\ n <= WaitLimit
  BY <1>1
<1>5. waits' = [waits EXCEPT ![t] = n] /\ unserved' = [unserved EXCEPT ![t] = n]
  <2>1. waits' = [waits EXCEPT ![t] = n]
    BY <1>3, <1>4
  <2>2. ~(unserved[t] > WaitLimit) /\ unserved[t] = waits[t]
    BY <1>1
  <2> QED
    BY <1>3, <1>4, <2>1, <2>2
<1>6. WaitsAlike'
  <2>1. waits' \in [Tabs -> Nat] /\ unserved' \in [Tabs -> Nat]
    BY <1>1, <1>5
  <2>2. \A v \in Tabs : unserved'[v] = waits'[v] /\ waits'[v] <= WaitLimit
    BY <1>1, <1>4, <1>5
  <2> QED
    BY <2>1, <2>2 DEF WaitsAlike
<1>7. AnswersTyped' /\ TabTold' = TabTold
  BY <1>2, AnswersQuiet
<1>8. PageTyped' /\ TimeTyped' /\ Unnumbered' /\ AnswersHold'
  BY <1>2, <1>7, PageQuiet
<1>9. NetTyped' /\ ledger' = ledger
  BY <1>2, NetQuiet
<1>10. CallTyped' /\ CallsHold'
  BY <1>2, <1>9, CallsQuiet DEF pageVars
<1> QED
  BY <1>6, <1>7, <1>8, <1>9, <1>10 DEF TabInv

-----------------------------------------------------------------------------
(* The invariant.                                                          *)

LEMMA EarlierFits ==
  ASSUME NEW p \in EarlierProfiles, NEW view \in Selections, NEW u \in Addresses, NEW d \in Layouts
  PROVE  /\ [key |-> InspectKey(p, view, <<u, 0>>), answer |-> AnswerOf(<<u, 0>>, d, view, <<>>, TRUE)] \in CacheEntry
         /\ \A c, b \in Candidates(d, view) : c.id = b.id => c = b
<1>1. view \in SUBSET Elements
  BY PageAssumption
<1>2. d.order \in Seq(Elements) /\ view \cap d.shown \subseteq view \cap ToSet(d.order)
  BY DocumentFits
<1>3. \A e \in view \cap d.shown : Rank(d, view, e) \in Numbers \ {0}
  BY <1>1, <1>2, RankFits
<1>4. Candidates(d, view) \in SUBSET Candidate
  BY <1>1, <1>3 DEF Candidates, Candidate
<1>5. <<u, 0>> \in TabState
  BY DEF TabState
<1>6. AnswerOf(<<u, 0>>, d, view, <<>>, TRUE) \in TabAnswer
  BY <1>2, <1>4, <1>5 DEF AnswerOf, TabAnswer
<1>7. InspectKey(p, view, <<u, 0>>) \in TabKey
  BY <1>5 DEF InspectKey, TabKey
<1>8. \A c, b \in Candidates(d, view) : c.id = b.id => c = b
  <2> SUFFICES ASSUME NEW e \in view \cap d.shown, NEW f \in view \cap d.shown,
                      Rank(d, view, e) = Rank(d, view, f)
               PROVE  e = f
    BY DEF Candidates
  <2> QED
    BY <1>1, <1>2, RankApart
<1> QED
  BY <1>6, <1>7, <1>8 DEF CacheEntry

LEMMA TabInitSafe == TabInit => TabInv
<1> SUFFICES ASSUME TabInit PROVE TabInv
  OBVIOUS
<1>1. Cardinality(Elements) \in Nat /\ \A t \in Tabs : MaxEpoch[t] \in Nat /\ InspectCap \in Nat \ {0} /\ EntryCap \in Nat
  BY PageAssumption, FS_CardinalityType
<1>2. Unstamped \in [Elements -> Numbers] /\ \A e \in Elements : Unstamped[e] = 0
  BY <1>1 DEF Unstamped, Numbers
<1>3. PageTyped
  BY <1>2 DEF PageTyped, TabInit
<1>4. TimeTyped
  BY <1>1 DEF TimeTyped, TabInit
<1>5. answers \in {<<>>} \cup EarlierAnswers /\ held = [t \in Tabs |-> <<>>]
  BY DEF TabInit
<1> DEFINE Earlier(p, view, u, d) ==
      [key |-> InspectKey(p, view, <<u, 0>>), answer |-> AnswerOf(<<u, 0>>, d, view, <<>>, TRUE)]
<1>15. answers # <<>> =>
         \E p \in EarlierProfiles, view \in Selections, u \in Addresses, d \in Layouts :
           answers = <<Earlier(p, view, u, d)>>
  <2>1. EarlierAnswers = {<<Earlier(p, view, u, d)>> :
          p \in EarlierProfiles, view \in Selections, u \in Addresses, d \in Layouts}
    BY DEF EarlierAnswers
  <2> HIDE DEF Earlier
  <2> QED
    BY <1>5, <2>1
<1>6. \A i \in DOMAIN answers : /\ answers[i] \in CacheEntry /\ answers[i].answer.doc = <<>>
                                 /\ \A c, b \in answers[i].answer.candidates : c.id = b.id => c = b
  <2>1. CASE answers = <<>>
    BY <2>1
  <2>2. ASSUME NEW p \in EarlierProfiles, NEW view \in Selections, NEW u \in Addresses, NEW d \in Layouts,
               answers = <<Earlier(p, view, u, d)>>
        PROVE  \A i \in DOMAIN answers : /\ answers[i] \in CacheEntry /\ answers[i].answer.doc = <<>>
                                         /\ \A c, b \in answers[i].answer.candidates : c.id = b.id => c = b
    <3>1. PICK entry : entry = Earlier(p, view, u, d)
      OBVIOUS
    <3>2. entry \in CacheEntry /\ \A c, b \in Candidates(d, view) : c.id = b.id => c = b
      BY <3>1, EarlierFits
    <3>3. entry.answer.doc = <<>> /\ entry.answer.candidates = Candidates(d, view)
      BY <3>1 DEF AnswerOf
    <3>4. answers = <<entry>>
      BY <2>2, <3>1
    <3>5. \A i \in DOMAIN answers : answers[i] = entry
      BY <3>4
    <3> QED
      BY <3>2, <3>3, <3>5
  <2> QED
    BY <1>15, <2>1, <2>2, Zenon
<1>7. \A t \in Tabs : held[t] = <<>>
  BY <1>5
<1>8. AnswersTyped
  <2> HIDE DEF CacheEntry, TabAnswer
  <2>1. held \in [Tabs -> Seq(TabAnswer)]
    BY <1>5
  <2>2. answers \in Seq(CacheEntry) /\ Len(answers) <= 1
    <3>1. CASE answers = <<>>
      BY <3>1
    <3>2. CASE answers # <<>>
      <4>1. PICK entry : answers = <<entry>>
        BY <1>15, <3>2, Zenon
      <4>2. entry \in CacheEntry
        BY <1>6, <4>1
      <4> QED
        BY <4>1, <4>2
    <3> QED
      BY <3>1, <3>2
  <2>3. Len(answers) \in Nat /\ InspectCap \in Nat \ {0}
    BY <2>2, PageAssumption
  <2>4. Len(answers) <= InspectCap
    BY <2>2, <2>3
  <2> QED
    BY <2>1, <2>2, <2>4 DEF AnswersTyped
<1>9. AnswersHold
  <2> SUFFICES ASSUME NEW a \in TabTold PROVE AnswerHolds(a)
    BY DEF AnswersHold
  <2>1. PICK i \in DOMAIN answers : a = answers[i].answer
    BY <1>7 DEF TabTold, ToSet
  <2>2. a.doc = <<>> /\ \A c, b \in a.candidates : c.id = b.id => c = b
    BY <1>6, <2>1
  <2>3. \A t \in Tabs : a.doc # Doc(t)
    BY <2>2 DEF Doc
  <2> QED
    BY <2>2, <2>3 DEF AnswerHolds, AnswerFits
<1>10. Unnumbered
  BY <1>2 DEF Unnumbered, TabInit
<1>11. call = [t \in Tabs |-> NoCall] /\ NoCall \in OutCall /\ NoCall \notin InCall
  <2>1. \A c \in InCall : c.phase \in InProgress
    BY DEF InCall
  <2> QED
    BY <2>1, OutCallIs, OutPhase DEF TabInit
<1>12. CallTyped /\ CallsHold
  BY <1>11 DEF CallTyped, CallsHold, CallHolds
<1>13. NetTyped
  <2> HIDE DEF NetEntry
  <2>1. IsFiniteSet({}) /\ Cardinality({}) = 0
    BY FS_EmptySet
  <2>2. \A t \in Tabs : ledger[t] = <<>> /\ unanswered[t] = {} /\ requests[t] = 0
    BY DEF TabInit
  <2>3. ledger \in [Tabs -> Seq(NetEntry)] /\ requests \in [Tabs -> Nat]
    BY DEF TabInit
  <2>4. unanswered \in [Tabs -> SUBSET (Nat \X PageUrls)]
    BY DEF TabInit
  <2>6. \A t \in Tabs : /\ IsFiniteSet(unanswered[t]) /\ Cardinality(unanswered[t]) <= requests[t]
                        /\ \A r \in unanswered[t] : r[1] < requests[t]
    <3> SUFFICES ASSUME NEW t \in Tabs
                 PROVE  /\ IsFiniteSet(unanswered[t]) /\ Cardinality(unanswered[t]) <= requests[t]
                        /\ \A r \in unanswered[t] : r[1] < requests[t]
      OBVIOUS
    <3>1. unanswered[t] = {} /\ requests[t] = 0
      BY <2>2
    <3>2. IsFiniteSet(unanswered[t]) /\ Cardinality(unanswered[t]) = 0
      BY <2>1, <3>1, Zenon
    <3>3. Cardinality(unanswered[t]) <= requests[t]
      BY <3>1, <3>2
    <3> QED
      BY <3>1, <3>2, <3>3
  <2>5. \A t \in Tabs : Len(ledger[t]) <= EntryCap
    BY <1>1, <2>2
  <2> QED
    BY <2>3, <2>4, <2>5, <2>6 DEF NetTyped
<1>14. WaitsAlike
  BY PageAssumption DEF WaitsAlike, TabInit
<1> QED
  BY <1>3, <1>4, <1>8, <1>9, <1>10, <1>12, <1>13, <1>14 DEF TabInv

LEMMA TabNextSafe == TabInv /\ [TabNext]_tabVars => TabInv'
<1> SUFFICES ASSUME TabInv, [TabNext]_tabVars PROVE TabInv'
  OBVIOUS
<1>1. CASE UNCHANGED tabVars
  <2>1. UNCHANGED <<pageVars, epoch, timer, answers, held, call, netVars, waits, unserved>>
    BY <1>1 DEF tabVars, pageVars, netVars
  <2>2. AnswersTyped' /\ TabTold' = TabTold
    BY <2>1, AnswersQuiet
  <2>3. PageTyped' /\ TimeTyped' /\ Unnumbered' /\ AnswersHold'
    BY <2>1, <2>2, PageQuiet
  <2>4. NetTyped' /\ WaitsAlike' /\ ledger' = ledger
    BY <2>1, NetQuiet, WaitQuiet
  <2>5. CallTyped' /\ CallsHold'
    BY <2>1, <2>4, CallsQuiet DEF pageVars
  <2> QED
    BY <2>2, <2>3, <2>4, <2>5 DEF TabInv
<1>2. ASSUME NEW t \in Tabs, NEW u \in Addresses, NEW d \in Layouts, PageMoves(t, u, d) PROVE TabInv'
  BY <1>2, LoadedKeeps DEF PageMoves
<1>3. ASSUME NEW t \in Tabs, NEW u \in Addresses, NEW d \in Layouts, Navigate(t, u, d) PROVE TabInv'
  BY <1>3, LoadedKeeps DEF Navigate
<1>4. ASSUME NEW t \in Tabs, NEW d \in Layouts, PageChanges(t, d) \/ PageHides(t, d) PROVE TabInv'
  BY <1>4, PageChangesKeeps, PageHidesKeeps
<1>5. ASSUME NEW t \in Tabs, NEW u \in PageUrls, Request(t, u) PROVE TabInv'
  BY <1>5, TabRequestKeeps
<1>6. ASSUME NEW t \in Tabs, NEW r \in unanswered[t], Respond(t, r) \/ Fail(t, r) PROVE TabInv'
  BY <1>6, RespondKeeps, TabFailKeeps
<1>7. ASSUME NEW t \in Tabs, NEW view \in Selections, Inspect(t, view) \/ InspectAgain(t, view) PROVE TabInv'
  BY <1>7, InspectKeeps, InspectAgainKeeps
<1>8. ASSUME NEW t \in Tabs, NEW answer \in ToSet(held[t]), NEW c \in answer.candidates,
             NEW x \in {"auto", "network"}, Interact(t, answer, c, x)
      PROVE  TabInv'
  BY <1>8, InteractKeeps
<1>9. ASSUME NEW t \in Tabs, Observe(t) \/ Check(t) \/ Locate(t) PROVE TabInv'
  BY <1>9, ObserveKeeps, CheckKeeps, LocateKeeps
<1>10. ASSUME NEW t \in Tabs, Notify(t) \/ Act(t) \/ Verify(t) \/ Return(t) \/ Wait(t) PROVE TabInv'
  BY <1>10, NotifyKeeps, ActKeeps, VerifyKeeps, ReturnKeeps, WaitKeeps
<1> QED
  BY <1>1, <1>2, <1>3, <1>4, <1>5, <1>6, <1>7, <1>8, <1>9, <1>10, Zenon DEF TabNext

LEMMA TabInvTells == TabInv => ToolsSafe
<1> SUFFICES ASSUME TabInv PROVE ToolsSafe
  OBVIOUS
<1>1. \A t \in Tabs : \A i \in DOMAIN held[t] : held[t][i] \in TabTold /\ held[t][i] \in TabAnswer /\ AnswerHolds(held[t][i])
  BY ToldTyped DEF TabTold, ToSet
<1>2. TabTypeOK
  <2>1. \A t \in Tabs : tabUrl[t] \in Addresses /\ layout[t] \in Layouts /\ ids[t] \in [Elements -> Numbers]
    BY TabFacts DEF PageTyped
  <2>2. \A t \in Tabs : epoch[t] \in 0..MaxEpoch[t]
    <3>1. \A t \in Tabs : epoch[t] \in Nat /\ epoch[t] <= MaxEpoch[t] /\ MaxEpoch[t] \in Nat
      BY TabFacts, PageAssumption DEF TimeTyped
    <3> QED
      BY <3>1
  <2>3. \A t \in Tabs : \A e \in Elements : ids[t][e] <= Cardinality(Elements)
    BY <2>1 DEF Numbers
  <2>4. \A t \in Tabs : Len(ledger[t]) <= EntryCap /\ Cardinality(unanswered[t]) <= requests[t]
    BY TabFacts DEF NetTyped
  <2>5. \A t \in Tabs : \A i \in DOMAIN held[t] : \A c, d \in held[t][i].candidates : c.id = d.id => c = d
    BY <1>1 DEF AnswerHolds
  <2>6. Len(answers) <= InspectCap
    BY TabFacts DEF AnswersTyped
  <2> QED
    BY <2>1, <2>2, <2>3, <2>4, <2>5, <2>6 DEF TabTypeOK
<1>3. \A t \in Tabs : call[t].phase = "acted" => call[t] \in InCall
  BY InCallIs DEF InProgress
<1>4. ActsOnNamed
  <2> SUFFICES ASSUME NEW t \in Tabs, call[t].phase = "acted"
               PROVE  IF call[t].by = "stamp" THEN call[t].sole => call[t].on = call[t].meant
                                              ELSE Carries(t, call[t].id) = {}
    BY DEF ActsOnNamed
  <2>1. CallHolds(t) /\ call[t] \in InCall
    BY <1>3, TabFacts DEF CallsHold
  <2> QED
    BY <2>1 DEF CallHolds, HoldsTo
<1>5. SettledIsSeen
  <2> SUFFICES ASSUME NEW t \in Tabs, NEW i \in DOMAIN held[t], NEW a, a = held[t][i],
                      ~timer[t], a.doc = Doc(t), a.seen, a.order # layout[t].order
               PROVE  IsStale(t, a.state)
    BY DEF SettledIsSeen
  <2>1. a.state \in TabState /\ AnswerFits(a, t) /\ epoch[t] \in Nat
    BY <1>1, TabFacts DEF AnswerHolds, TabAnswer, TimeTyped
  <2>2. a.state[2] < epoch[t]
    BY <2>1 DEF AnswerFits
  <2>3. a.state # <<tabUrl[t], epoch[t]>>
    <3> SUFFICES ASSUME a.state = <<tabUrl[t], epoch[t]>> PROVE FALSE
      OBVIOUS
    <3>1. a.state[2] = epoch[t]
      OBVIOUS
    <3> QED
      BY <2>1, <2>2, <3>1
  <2> QED
    BY <2>3 DEF IsStale, StateOf
<1>6. NetworkNoticed
  <2> SUFFICES ASSUME NEW t \in Tabs, call[t].phase = "acted", call[t].requested, call[t].count < EntryCap
               PROVE  "network" \in Changes(t)
    BY DEF NetworkNoticed
  <2>1. CallHolds(t) /\ call[t] \in InCall
    BY <1>3, TabFacts DEF CallsHold
  <2>2. Len(ledger[t]) > call[t].count
    BY <2>1 DEF CallHolds
  <2> QED
    BY <2>2 DEF Changes
<1>7. WaitsBounded
  BY TabFacts DEF WaitsAlike, WaitsBounded
<1> QED
  BY <1>2, <1>4, <1>5, <1>6, <1>7 DEF ToolsSafe

(* Whatever pages do by themselves, an interaction acts on the element     *)
(* that the inspection named so, and on another only when none carries its *)
(* number; what was read before an observer and has changed is stale when  *)
(* the page has settled; a request that is begun meanwhile is noticed; and *)
(* an agent that only waits is told so (locator-engine.js:47-166,          *)
(* page-state.js:30, interact.js:212, wait.js:76).                         *)
THEOREM ToolsAreSafe == TabSpec => []ToolsSafe
<1>1. TabSpec => []TabInv
  BY TabInitSafe, TabNextSafe, PTL DEF TabSpec
<1> QED
  BY <1>1, TabInvTells, PTL

-----------------------------------------------------------------------------
(* The working memory of an agent: the notes of a tool result are well     *)
(* formed, each note leaves its list all that was heard while there is     *)
(* room, and the deque holds a failure that a turn looks back at.          *)

\* What holds of 0 and of the next number holds of all up to n.
LEMMA StepByStep ==
  ASSUME NEW n \in Nat, NEW T, 0 \in T, \A i \in 0..(n - 1) : i \in T => i + 1 \in T
  PROVE  \A i \in 0..n : i \in T
<1> DEFINE Bad == {U \in SUBSET (0..n) : \E i \in 0..n : U = 0..i /\ i \notin T}
<1> SUFFICES ASSUME NEW j \in 0..n, j \notin T PROVE FALSE
  OBVIOUS
<1>1. Bad \subseteq FiniteSubsetsOf(0..n) /\ IsFiniteSet(0..n)
  <2>1. IsFiniteSet(0..n)
    BY FS_Interval
  <2>2. \A U \in SUBSET (0..n) : IsFiniteSet(U)
    BY <2>1, FS_Subset
  <2> QED
    BY <2>1, <2>2, Zenon DEF FiniteSubsetsOf
<1>2. Bad # {}
  <2>1. 0..j \in SUBSET (0..n)
    OBVIOUS
  <2> QED
    BY <2>1
<1>3. PICK U \in Bad : \A V \in Bad : <<V, U>> \notin StrictSubsetOrdering(0..n)
  <2> HIDE DEF Bad
  <2> QED
    BY <1>1, <1>2, FS_StrictSubsetOrderingWellFounded, WFMin
<1>4. PICK i \in 0..n : U = 0..i /\ i \notin T
  BY <1>3
<1>5. i # 0 /\ i - 1 \in 0..(n - 1) /\ i - 1 \notin T
  <2>1. i # 0
    BY <1>4
  <2>2. i - 1 \in 0..(n - 1) /\ (i - 1) + 1 = i
    BY <2>1
  <2>3. i - 1 \in T => (i - 1) + 1 \in T
    BY <2>2
  <2> QED
    BY <1>4, <2>1, <2>2, <2>3
<1>6. 0..(i - 1) \in Bad
  <2>1. 0..(i - 1) \in SUBSET (0..n) /\ i - 1 \in 0..n
    BY <1>5
  <2> QED
    BY <1>5, <2>1
<1>7. <<0..(i - 1), U>> \in StrictSubsetOrdering(0..n)
  <2>1. i \in U /\ i \notin 0..(i - 1) /\ 0..(i - 1) \subseteq U /\ U \in SUBSET (0..n) /\ 0..(i - 1) \in SUBSET (0..n)
    BY <1>4, <1>5
  <2> QED
    BY <2>1 DEF StrictSubsetOrdering
<1> QED
  BY <1>3, <1>6, <1>7

-----------------------------------------------------------------------------
\* A recursive function over the notes is what it says.
LEMMA NotedEach ==
  ASSUME NEW n \in Nat, NEW notes, NEW base
  PROVE  \E g : g = [i \in 0..n |-> IF i = 0 THEN base ELSE Noted(g[i - 1], notes[i])]
<1> DEFINE T == {m \in 0..n : \E g : g = [i \in 0..m |-> IF i = 0 THEN base ELSE Noted(g[i - 1], notes[i])]}
<1>1. 0 \in T
  <2> DEFINE g == [i \in 0..0 |-> base]
  <2>1. g = [i \in 0..0 |-> IF i = 0 THEN base ELSE Noted(g[i - 1], notes[i])]
    OBVIOUS
  <2> HIDE DEF g
  <2>2. \E f : f = [i \in 0..0 |-> IF i = 0 THEN base ELSE Noted(f[i - 1], notes[i])]
    BY <2>1
  <2>3. 0 \in 0..n
    OBVIOUS
  <2> QED
    BY <2>2, <2>3
<1>2. ASSUME NEW m \in 0..(n - 1), m \in T PROVE m + 1 \in T
  <2>1. PICK g : g = [i \in 0..m |-> IF i = 0 THEN base ELSE Noted(g[i - 1], notes[i])]
    BY <1>2
  <2> DEFINE h == [i \in 0..(m + 1) |-> IF i = m + 1 THEN Noted(g[m], notes[m + 1]) ELSE g[i]]
  <2>2. \A i \in 0..m : g[i] = IF i = 0 THEN base ELSE Noted(g[i - 1], notes[i])
    BY <2>1
  <2>3. ASSUME NEW i \in 0..(m + 1)
        PROVE  h[i] = IF i = 0 THEN base ELSE Noted(h[i - 1], notes[i])
    <3>1. CASE i = m + 1
      <4>1. h[i - 1] = g[m] /\ i # 0 /\ i - 1 = m
        BY <3>1
      <4>2. h[i] = Noted(g[m], notes[m + 1])
        BY <3>1
      <4> HIDE DEF h
      <4> QED
        BY <3>1, <4>1, <4>2
    <3>2. CASE i # m + 1
      <4>1. h[i] = g[i] /\ i \in 0..m
        BY <3>2
      <4>2. i # 0 => h[i - 1] = g[i - 1]
        BY <3>2
      <4> HIDE DEF h
      <4> QED
        BY <2>2, <4>1, <4>2
    <3> QED
      BY <3>1, <3>2
  <2>4. h = [i \in 0..(m + 1) |-> IF i = 0 THEN base ELSE Noted(h[i - 1], notes[i])]
    <3>1. h = [i \in 0..(m + 1) |-> h[i]]
      OBVIOUS
    <3> HIDE DEF h
    <3> QED
      BY <2>3, <3>1
  <2>5. m + 1 \in 0..n
    OBVIOUS
  <2> HIDE DEF h
  <2> QED
    BY <2>4, <2>5
<1>3. n \in T
  <2> HIDE DEF T
  <2> QED
    BY <1>1, <1>2, StepByStep
<1> QED
  BY <1>3

LEMMA Remembered ==
  ASSUME NEW notes, IsList(notes), Remember(notes)
  PROVE  \E g : /\ g[0] = signals /\ signals' = g[Len(notes)]
                /\ \A i \in 1..Len(notes) : g[i] = Noted(g[i - 1], notes[i])
<1> DEFINE After[i \in 0..Len(notes)] == IF i = 0 THEN signals ELSE Noted(After[i - 1], notes[i])
<1>1. signals' = After[Len(notes)]
  BY DEF Remember
<1>2. Len(notes) \in Nat
  BY LenProperties DEF IsList
<1>3. \E g : g = [i \in 0..Len(notes) |-> IF i = 0 THEN signals ELSE Noted(g[i - 1], notes[i])]
  <2> HIDE DEF After
  <2> DEFINE n == Len(notes)
  <2>1. n \in Nat
    BY <1>2
  <2> HIDE DEF n
  <2>2. \A base : \E g : g = [i \in 0..n |-> IF i = 0 THEN base ELSE Noted(g[i - 1], notes[i])]
    BY <2>1, NotedEach
  <2> QED
    BY <2>2 DEF n
<1>4. After = [i \in 0..Len(notes) |-> IF i = 0 THEN signals ELSE Noted(After[i - 1], notes[i])]
  BY <1>3
<1> HIDE DEF After
<1>5. \A i \in 0..Len(notes) : After[i] = IF i = 0 THEN signals ELSE Noted(After[i - 1], notes[i])
  BY <1>4
<1>6. /\ After[0] = signals
      /\ \A i \in 1..Len(notes) : After[i] = Noted(After[i - 1], notes[i])
  BY <1>2, <1>5
<1> QED
  BY <1>1, <1>6

-----------------------------------------------------------------------------
\* Lists, and lists of lists.
LEMMA ListIn ==
  /\ \A W, s : s \in Seq(W) => IsList(s) /\ ToSet(s) \subseteq W
  /\ \A W, s : IsList(s) /\ ToSet(s) \subseteq W => s \in Seq(W)
<1>1. ASSUME NEW W, NEW s, s \in Seq(W) PROVE IsList(s) /\ ToSet(s) \subseteq W
  <2>1. Len(s) \in Nat /\ s \in [1..Len(s) -> W] /\ DOMAIN s = 1..Len(s)
    BY <1>1, LenProperties
  <2>2. s \in [1..Len(s) -> ToSet(s)]
    BY <2>1 DEF ToSet
  <2>3. s \in Seq(ToSet(s))
    BY <2>1, <2>2, SeqDef
  <2> QED
    BY <2>1, <2>3 DEF IsList, ToSet
<1>2. ASSUME NEW W, NEW s, IsList(s), ToSet(s) \subseteq W PROVE s \in Seq(W)
  BY <1>2, SeqMonotonic DEF IsList
<1> QED
  BY <1>1, <1>2

LEMMA ListShape ==
  ASSUME NEW s, IsList(s)
  PROVE  Len(s) \in Nat /\ DOMAIN s = 1..Len(s) /\ \A i \in DOMAIN s : s[i] \in ToSet(s)
BY LenProperties DEF IsList, ToSet

\* A function on the places of a list is a list.
LEMMA PlacesList ==
  ASSUME NEW list, IsList(list), NEW f, DOMAIN f = DOMAIN list, f = [i \in DOMAIN list |-> f[i]]
  PROVE  IsList(f)
<1>1. Len(list) \in Nat /\ DOMAIN list = 1..Len(list)
  BY ListShape
<1>2. f \in [1..Len(list) -> ToSet(f)]
  BY <1>1 DEF ToSet
<1> QED
  BY <1>1, <1>2, SeqDef DEF IsList

LEMMA JoinedEach ==
  ASSUME NEW n \in Nat \ {0}, NEW lists
  PROVE  \E g : g = [i \in 1..n |-> IF i = 1 THEN lists[i] ELSE g[i - 1] \o lists[i]]
<1> DEFINE T == {m \in 0..(n - 1) :
                   \E g : g = [i \in 1..(m + 1) |-> IF i = 1 THEN lists[i] ELSE g[i - 1] \o lists[i]]}
<1>1. 0 \in T
  <2> DEFINE g == [i \in 1..(0 + 1) |-> lists[i]]
  <2>1. g = [i \in 1..(0 + 1) |-> IF i = 1 THEN lists[i] ELSE g[i - 1] \o lists[i]]
    OBVIOUS
  <2> HIDE DEF g
  <2>2. \E f : f = [i \in 1..(0 + 1) |-> IF i = 1 THEN lists[i] ELSE f[i - 1] \o lists[i]]
    BY <2>1
  <2>3. 0 \in 0..(n - 1)
    OBVIOUS
  <2> QED
    BY <2>2, <2>3
<1>2. ASSUME NEW m \in 0..((n - 1) - 1), m \in T PROVE m + 1 \in T
  <2>1. PICK g : g = [i \in 1..(m + 1) |-> IF i = 1 THEN lists[i] ELSE g[i - 1] \o lists[i]]
    BY <1>2
  <2> DEFINE h == [i \in 1..((m + 1) + 1) |-> IF i = m + 2 THEN g[m + 1] \o lists[m + 2] ELSE g[i]]
  <2>2. \A i \in 1..(m + 1) : g[i] = IF i = 1 THEN lists[i] ELSE g[i - 1] \o lists[i]
    BY <2>1
  <2>3. ASSUME NEW i \in 1..((m + 1) + 1)
        PROVE  h[i] = IF i = 1 THEN lists[i] ELSE h[i - 1] \o lists[i]
    <3>1. CASE i = m + 2
      <4>1. h[i - 1] = g[m + 1] /\ i # 1
        BY <3>1
      <4>2. h[i] = g[m + 1] \o lists[m + 2]
        BY <3>1
      <4> HIDE DEF h
      <4> QED
        BY <3>1, <4>1, <4>2
    <3>2. CASE i # m + 2
      <4>1. h[i] = g[i] /\ i \in 1..(m + 1)
        BY <3>2
      <4>2. i # 1 => h[i - 1] = g[i - 1]
        BY <3>2
      <4> HIDE DEF h
      <4> QED
        BY <2>2, <4>1, <4>2
    <3> QED
      BY <3>1, <3>2
  <2>4. h = [i \in 1..((m + 1) + 1) |-> IF i = 1 THEN lists[i] ELSE h[i - 1] \o lists[i]]
    <3>1. h = [i \in 1..((m + 1) + 1) |-> h[i]]
      OBVIOUS
    <3> HIDE DEF h
    <3> QED
      BY <2>3, <3>1
  <2>5. m + 1 \in 0..(n - 1)
    OBVIOUS
  <2> HIDE DEF h
  <2> QED
    BY <2>4, <2>5
<1>3. n - 1 \in T
  <2> DEFINE k == n - 1
  <2>1. k \in Nat
    OBVIOUS
  <2>2. \A m \in 0..(k - 1) : m \in T => m + 1 \in T
    BY <1>2
  <2> HIDE DEF T, k
  <2>3. k \in T
    BY <1>1, <2>1, <2>2, StepByStep
  <2> QED
    BY <2>3 DEF k
<1>4. (n - 1) + 1 = n
  OBVIOUS
<1> QED
  BY <1>3, <1>4

LEMMA TogetherIn ==
  ASSUME NEW W, NEW lists \in Seq(Seq(W))
  PROVE  Together(lists) \in Seq(W)
<1>1. Len(lists) \in Nat /\ \A i \in 1..Len(lists) : lists[i] \in Seq(W)
  BY LenProperties, ElementOfSeq
<1>2. CASE Len(lists) = 0
  <2>1. lists = <<>>
    BY <1>2, EmptySeq
  <2> QED
    BY <1>2, <2>1, EmptySeq DEF Together, FlattenSeq
<1>3. CASE Len(lists) # 0
  <2> DEFINE flatten[i \in 1..Len(lists)] == IF i = 1 THEN lists[i] ELSE flatten[i - 1] \o lists[i]
  <2>1. Together(lists) = flatten[Len(lists)]
    BY <1>3 DEF Together, FlattenSeq
  <2>2. \E g : g = [i \in 1..Len(lists) |-> IF i = 1 THEN lists[i] ELSE g[i - 1] \o lists[i]]
    <3> HIDE DEF flatten
    <3> DEFINE n == Len(lists)
    <3>1. n \in Nat \ {0}
      BY <1>1, <1>3
    <3> HIDE DEF n
    <3>2. \E g : g = [i \in 1..n |-> IF i = 1 THEN lists[i] ELSE g[i - 1] \o lists[i]]
      BY <3>1, JoinedEach
    <3> QED
      BY <3>2 DEF n
  <2>3. flatten = [i \in 1..Len(lists) |-> IF i = 1 THEN lists[i] ELSE flatten[i - 1] \o lists[i]]
    BY <2>2
  <2> HIDE DEF flatten
  <2>4. \A i \in 1..Len(lists) : flatten[i] = IF i = 1 THEN lists[i] ELSE flatten[i - 1] \o lists[i]
    BY <2>3
  <2> DEFINE T == {m \in 0..(Len(lists) - 1) : flatten[m + 1] \in Seq(W)}
             k == Len(lists) - 1
  <2>5. 0 \in T
    BY <1>1, <1>3, <2>4
  <2>6. k \in Nat
    BY <1>1, <1>3
  <2>7. ASSUME NEW m \in 0..(k - 1), m \in T PROVE m + 1 \in T
    <3>1. (m + 1) + 1 \in 1..Len(lists) /\ (m + 1) + 1 # 1 /\ ((m + 1) + 1) - 1 = m + 1 /\ m + 1 \in 0..(Len(lists) - 1)
      BY <1>1, <2>6
    <3>2. flatten[(m + 1) + 1] = flatten[m + 1] \o lists[(m + 1) + 1]
      BY <2>4, <3>1
    <3>3. flatten[m + 1] \in Seq(W) /\ lists[(m + 1) + 1] \in Seq(W)
      BY <1>1, <2>7, <3>1
    <3>4. flatten[m + 1] \o lists[(m + 1) + 1] \in Seq(W)
      BY <3>3, ConcatProperties
    <3> QED
      BY <3>1, <3>2, <3>4
  <2> HIDE DEF T, k
  <2>8. k \in T
    BY <2>5, <2>6, <2>7, StepByStep
  <2>9. k + 1 = Len(lists)
    BY <1>1 DEF k
  <2> QED
    BY <2>1, <2>8, <2>9 DEF T
<1> QED
  BY <1>2, <1>3

-----------------------------------------------------------------------------
\* A note goes to a list there is, under a cap that is one of the list's.
NoteOk(n) ==
  /\ n.key \in SignalKeys
  /\ \/ n.cap = 0
     \/ n.key = "server_labels" /\ n.cap = LabelCap
     \/ n.key = "selectors" /\ n.cap = SelectorCap
NotesOk(notes) == IsList(notes) /\ \A i \in DOMAIN notes : NoteOk(notes[i])

LEMMA EachList ==
  ASSUME NEW list, IsList(list), NEW f, DOMAIN f = DOMAIN list, f = [i \in DOMAIN list |-> f[i]],
         \A i \in DOMAIN list : IsList(f[i])
  PROVE  IsList(Together(f))
<1> DEFINE W == UNION {ToSet(f[i]) : i \in DOMAIN list}
<1>1. \A i \in DOMAIN list : f[i] \in Seq(W)
  BY ListIn
<1>2. IsList(f)
  BY PlacesList
<1>3. ToSet(f) \subseteq Seq(W)
  BY <1>1 DEF ToSet
<1>4. f \in Seq(Seq(W))
  BY <1>2, <1>3, ListIn
<1>5. Together(f) \in Seq(W)
  BY <1>4, TogetherIn
<1> QED
  BY <1>5, ListIn

LEMMA EachOk ==
  ASSUME NEW list, IsList(list), NEW f, DOMAIN f = DOMAIN list, f = [i \in DOMAIN list |-> f[i]],
         \A i \in DOMAIN list : NotesOk(f[i])
  PROVE  NotesOk(Together(f))
<1> DEFINE W == UNION {ToSet(f[i]) : i \in DOMAIN list}
<1>1. \A i \in DOMAIN list : f[i] \in Seq(W)
  BY ListIn DEF NotesOk
<1>2. IsList(f)
  BY PlacesList
<1>3. ToSet(f) \subseteq Seq(W)
  BY <1>1 DEF ToSet
<1>4. f \in Seq(Seq(W))
  BY <1>2, <1>3, ListIn
<1>5. Together(f) \in Seq(W)
  BY <1>4, TogetherIn
<1>6. IsList(Together(f)) /\ \A i \in DOMAIN Together(f) : Together(f)[i] \in W
  BY <1>5, ListIn DEF ToSet
<1>7. \A n \in W : NoteOk(n)
  BY DEF NotesOk, ToSet
<1> QED
  BY <1>6, <1>7 DEF NotesOk

LEMMA JoinedParts ==
  ASSUME NEW s, NEW t, IsList(s), IsList(t)
  PROVE  IsList(s \o t) /\ ToSet(s \o t) \subseteq ToSet(s) \cup ToSet(t)
<1> DEFINE W == ToSet(s) \cup ToSet(t)
<1>1. s \in Seq(W) /\ t \in Seq(W)
  BY ListIn
<1>2. s \o t \in Seq(W)
  BY <1>1, ConcatProperties
<1> QED
  BY <1>2, ListIn

LEMMA JoinedOk ==
  ASSUME NEW s, NEW t, NotesOk(s), NotesOk(t)
  PROVE  NotesOk(s \o t)
<1>1. IsList(s) /\ IsList(t) /\ \A n \in ToSet(s) \cup ToSet(t) : NoteOk(n)
  BY DEF NotesOk, ToSet
<1> DEFINE r == s \o t
<1>2. IsList(r) /\ ToSet(r) \subseteq ToSet(s) \cup ToSet(t)
  BY <1>1, JoinedParts
<1> HIDE DEF r
<1>3. \A i \in DOMAIN r : NoteOk(r[i])
  BY <1>1, <1>2 DEF ToSet
<1>4. NotesOk(r)
  BY <1>2, <1>3 DEF NotesOk
<1> QED
  BY <1>4 DEF r

LEMMA FewOk ==
  /\ IsList(<<>>) /\ NotesOk(<<>>)
  /\ \A a : IsList(<<a>>) /\ (NoteOk(a) => NotesOk(<<a>>))
  /\ \A a, b : NoteOk(a) /\ NoteOk(b) => NotesOk(<<a, b>>)
<1>1. IsList(<<>>) /\ NotesOk(<<>>)
  BY DEF IsList, ToSet, NotesOk
<1>2. ASSUME NEW a PROVE IsList(<<a>>) /\ (NoteOk(a) => NotesOk(<<a>>))
  BY DEF IsList, ToSet, NotesOk
<1>3. ASSUME NEW a, NEW b, NoteOk(a), NoteOk(b) PROVE NotesOk(<<a, b>>)
  BY <1>3 DEF IsList, ToSet, NotesOk
<1> QED
  BY <1>1, <1>2, <1>3

-----------------------------------------------------------------------------
\* What is read out of a tool result is such notes.
LEMMA NoteFine == \A key \in SignalKeys : \A v : NoteOk(Note(key, v))
BY DEF NoteOk, Note

LEMMA CaptureOk == \A u : NotesOk(CaptureUrl(u))
<1> SUFFICES ASSUME NEW u PROVE NotesOk(CaptureUrl(u))
  OBVIOUS
<1>1. {"critical_links", "url_patterns", "pagination_patterns", "stream_urls", "stream_hosts"} \subseteq SignalKeys
  BY DEF SignalKeys
<1>2. NotesOk(<<Note("critical_links", u), Note("url_patterns", PatternOf[u])>>)
  BY <1>1, NoteFine, FewOk
<1>3. NotesOk(IF u \in PagedLike THEN <<Note("pagination_patterns", PatternOf[u])>> ELSE <<>>)
  BY <1>1, NoteFine, FewOk
<1>4. NotesOk(IF u \in StreamLike THEN <<Note("stream_urls", u), Note("stream_hosts", HostOf[u])>> ELSE <<>>)
  BY <1>1, NoteFine, FewOk
<1>5. CaptureUrl(u) = (<<Note("critical_links", u), Note("url_patterns", PatternOf[u])>>
                        \o (IF u \in PagedLike THEN <<Note("pagination_patterns", PatternOf[u])>> ELSE <<>>))
                      \o (IF u \in StreamLike THEN <<Note("stream_urls", u), Note("stream_hosts", HostOf[u])>> ELSE <<>>)
  BY DEF CaptureUrl
<1> QED
  BY <1>2, <1>3, <1>4, <1>5, JoinedOk

LEMMA CapturesOk ==
  ASSUME NEW list, IsList(list)
  PROVE  NotesOk(Each(CaptureUrl, list))
<1> DEFINE f == [i \in DOMAIN list |-> CaptureUrl(list[i])]
<1>1. Each(CaptureUrl, list) = Together(f)
  BY DEF Each
<1>2. DOMAIN f = DOMAIN list /\ f = [i \in DOMAIN list |-> f[i]] /\ \A i \in DOMAIN list : NotesOk(f[i])
  BY CaptureOk
<1> HIDE DEF f
<1> QED
  BY <1>1, <1>2, EachOk

LEMMA KnownList ==
  ASSUME NEW list, IsList(list)
  PROVE  IsList(Known(list))
<1> DEFINE f == [i \in DOMAIN list |-> IF list[i] = NoWorkUrl THEN <<>> ELSE <<list[i]>>]
<1>1. Known(list) = Together(f)
  BY DEF Each, Known
<1>2. DOMAIN f = DOMAIN list /\ f = [i \in DOMAIN list |-> f[i]] /\ \A i \in DOMAIN list : IsList(f[i])
  BY FewOk
<1> HIDE DEF f
<1> QED
  BY <1>1, <1>2, EachList

LEMMA NotesFine ==
  ASSUME NEW list, IsList(list)
  PROVE  /\ \A key \in SignalKeys : NotesOk(Notes(key, list))
         /\ NotesOk(CappedNotes("selectors", list, SelectorCap))
         /\ NotesOk(CappedNotes("server_labels", list, LabelCap))
<1>1. ASSUME NEW key \in SignalKeys PROVE NotesOk(Notes(key, list))
  <2>1. DOMAIN Notes(key, list) = DOMAIN list /\ Notes(key, list) = [i \in DOMAIN list |-> Notes(key, list)[i]]
        /\ \A i \in DOMAIN list : NoteOk(Notes(key, list)[i])
    BY NoteFine DEF Notes
  <2> QED
    BY <2>1, PlacesList DEF NotesOk
<1> DEFINE f == CappedNotes("selectors", list, SelectorCap)
           g == CappedNotes("server_labels", list, LabelCap)
<1>2. /\ DOMAIN f = DOMAIN list /\ f = [i \in DOMAIN list |-> f[i]]
      /\ \A i \in DOMAIN list : f[i].key = "selectors" /\ f[i].cap = SelectorCap
      /\ DOMAIN g = DOMAIN list /\ g = [i \in DOMAIN list |-> g[i]]
      /\ \A i \in DOMAIN list : g[i].key = "server_labels" /\ g[i].cap = LabelCap
  BY DEF CappedNotes
<1> HIDE DEF f, g
<1>3. IsList(f) /\ IsList(g)
  BY <1>2, PlacesList
<1>4. \A i \in DOMAIN list : NoteOk(f[i]) /\ NoteOk(g[i])
  BY <1>2 DEF NoteOk, SignalKeys
<1>5. NotesOk(f) /\ NotesOk(g)
  BY <1>2, <1>3, <1>4 DEF NotesOk
<1> QED
  BY <1>1, <1>5 DEF f, g

LEMMA ResultShape ==
  ASSUME NEW p \in ToolResults
  PROVE  /\ IsList(p.urls) /\ IsList(p.selectors) /\ IsList(p.counts) /\ IsList(p.candidates)
         /\ IsList(p.frontier) /\ IsList(p.activations) /\ IsList(p.blockers) /\ IsList(p.change)
         /\ IsList(p.servers) /\ \A i \in DOMAIN p.servers : IsList(p.servers[i].streams)
<1>1. \A a \in {"urls", "selectors", "counts", "candidates", "frontier", "activations", "blockers",
                   "change", "servers"} : IsList(p[a])
  BY WorkAssumption
<1>2. \A i \in DOMAIN p.servers : IsList(p.servers[i].streams)
  BY WorkAssumption
<1> QED
  BY <1>1, <1>2

LEMMA NestedLists ==
  ASSUME NEW p \in ToolResults
  PROVE  IsList(NestedUrls(p)) /\ IsList(NestedLabels(p)) /\ IsList(NestedCounts(p))
<1> USE ResultShape
<1> DEFINE targets == p.frontier \o p.activations \o p.blockers \o p.change
           named == p.frontier \o p.activations \o p.servers
           f1 == [i \in DOMAIN p.candidates |-> <<p.candidates[i].url>>]
           f2 == [i \in DOMAIN targets |-> <<targets[i].url>>]
           f3 == [i \in DOMAIN p.servers |-> <<p.servers[i].iframe>> \o p.servers[i].streams]
           f4 == [i \in DOMAIN named |-> <<named[i].label>>]
<1>1. IsList(targets) /\ IsList(named)
  BY JoinedParts
<1>2. NestedUrls(p) = p.urls \o Together(f1) \o Known(Together(f2)) \o Known(Together(f3))
  BY DEF NestedUrls, Each
<1>3. NestedLabels(p) = Together(f4)
  BY DEF NestedLabels, Each
<1>4. DOMAIN f1 = DOMAIN p.candidates /\ f1 = [i \in DOMAIN p.candidates |-> f1[i]]
      /\ \A i \in DOMAIN p.candidates : IsList(f1[i])
  BY FewOk
<1>5. DOMAIN f2 = DOMAIN targets /\ f2 = [i \in DOMAIN targets |-> f2[i]] /\ \A i \in DOMAIN targets : IsList(f2[i])
  <2> HIDE DEF targets
  <2> QED
    BY FewOk
<1>6. DOMAIN f3 = DOMAIN p.servers /\ f3 = [i \in DOMAIN p.servers |-> f3[i]]
      /\ \A i \in DOMAIN p.servers : IsList(f3[i])
  <2>1. \A i \in DOMAIN p.servers : IsList(<<p.servers[i].iframe>> \o p.servers[i].streams)
    BY FewOk, JoinedParts
  <2> QED
    BY <2>1
<1>7. DOMAIN f4 = DOMAIN named /\ f4 = [i \in DOMAIN named |-> f4[i]] /\ \A i \in DOMAIN named : IsList(f4[i])
  <2> HIDE DEF named
  <2> QED
    BY FewOk
<1> HIDE DEF f1, f2, f3, f4, targets, named
<1>8. IsList(Together(f1)) /\ IsList(Together(f2)) /\ IsList(Together(f3)) /\ IsList(Together(f4))
  BY <1>1, <1>4, <1>5, <1>6, <1>7, EachList
<1>9. IsList(Known(Together(f2))) /\ IsList(Known(Together(f3)))
  BY <1>8, KnownList
<1> QED
  BY <1>2, <1>3, <1>8, <1>9, JoinedParts DEF NestedCounts

LEMMA HostingOk ==
  ASSUME NEW p \in ToolResults
  PROVE  NotesOk(HostingNotes(p))
<1> DEFINE f == [i \in DOMAIN p.candidates |-> IF IsCandidate(p.candidates[i]) THEN <<p.candidates[i]>> ELSE <<>>]
           good == Together(f)
           g == [i \in DOMAIN good |-> <<Note("hosting_candidate_urls", good[i].url)>> \o CaptureUrl(good[i].url)]
<1>1. HostingNotes(p) = Notes("match_records", good) \o Together(g)
  BY DEF HostingNotes, Each
<1>2. DOMAIN f = DOMAIN p.candidates /\ f = [i \in DOMAIN p.candidates |-> f[i]]
      /\ \A i \in DOMAIN p.candidates : IsList(f[i])
  BY FewOk
<1> HIDE DEF f
<1>3. IsList(good)
  BY <1>2, EachList, ResultShape
<1> HIDE DEF good
<1>4. {"hosting_candidate_urls", "match_records"} \subseteq SignalKeys
  BY DEF SignalKeys
<1>5. \A i \in DOMAIN good : NotesOk(<<Note("hosting_candidate_urls", good[i].url)>> \o CaptureUrl(good[i].url))
  BY <1>4, NoteFine, FewOk, CaptureOk, JoinedOk
<1>6. DOMAIN g = DOMAIN good /\ g = [i \in DOMAIN good |-> g[i]] /\ \A i \in DOMAIN good : NotesOk(g[i])
  BY <1>5
<1> HIDE DEF g
<1>7. NotesOk(Together(g))
  BY <1>3, <1>6, EachOk
<1>8. NotesOk(Notes("match_records", good))
  BY <1>3, <1>4, NotesFine
<1> QED
  BY <1>1, <1>7, <1>8, JoinedOk

\* The URL of a target, if it has one.
LEMMA TargetUrlOk == \A u : NotesOk(Each(CaptureUrl, Known(<<u>>)))
<1> SUFFICES ASSUME NEW u PROVE NotesOk(Each(CaptureUrl, Known(<<u>>)))
  OBVIOUS
<1>1. IsList(Known(<<u>>))
  BY FewOk, KnownList
<1> QED
  BY <1>1, CapturesOk

LEMMA TargetsOk ==
  ASSUME NEW list, IsList(list), NEW key \in SignalKeys
  PROVE  NotesOk(TargetNotes(key, list))
<1> DEFINE f == [i \in DOMAIN list |-> <<Note(key, list[i])>> \o Each(CaptureUrl, Known(<<list[i].url>>))]
<1>1. TargetNotes(key, list) = Together(f)
  BY DEF TargetNotes, Each
<1>2. \A i \in DOMAIN list : NotesOk(<<Note(key, list[i])>> \o Each(CaptureUrl, Known(<<list[i].url>>)))
  BY NoteFine, FewOk, TargetUrlOk, JoinedOk
<1>3. DOMAIN f = DOMAIN list /\ f = [i \in DOMAIN list |-> f[i]] /\ \A i \in DOMAIN list : NotesOk(f[i])
  BY <1>2
<1> HIDE DEF f
<1> QED
  BY <1>1, <1>3, EachOk

LEMMA FrontierOk ==
  ASSUME NEW p \in ToolResults
  PROVE  NotesOk(FrontierNotes(p)) /\ NotesOk(ChangeNotes(p))
<1>1. {"server_frontier", "server_labels", "observed_changes"} \subseteq SignalKeys
  BY DEF SignalKeys
<1> DEFINE list == p.frontier
           f == [i \in DOMAIN list |-> <<Note("server_frontier", list[i]), Note("server_labels", list[i].label)>>
                                       \o Each(CaptureUrl, Known(<<list[i].url>>))]
<1>2. FrontierNotes(p) = Together(f)
  BY DEF FrontierNotes, Each
<1>3. \A i \in DOMAIN list : NotesOk(<<Note("server_frontier", list[i]), Note("server_labels", list[i].label)>>
                                     \o Each(CaptureUrl, Known(<<list[i].url>>)))
  BY <1>1, NoteFine, FewOk, TargetUrlOk, JoinedOk
<1>4. DOMAIN f = DOMAIN list /\ f = [i \in DOMAIN list |-> f[i]] /\ \A i \in DOMAIN list : NotesOk(f[i])
  BY <1>3
<1>5. IsList(list) /\ IsList(p.change)
  BY ResultShape
<1> HIDE DEF f, list
<1>6. NotesOk(FrontierNotes(p))
  BY <1>2, <1>4, <1>5, EachOk
<1>7. ChangeNotes(p) = TargetNotes("observed_changes", p.change)
  BY DEF ChangeNotes, TargetNotes, Each
<1> QED
  BY <1>1, <1>5, <1>6, <1>7, TargetsOk

LEMMA ServerOk ==
  ASSUME NEW s, IsList(s.streams)
  PROVE  NotesOk(ServerNotes(s))
<1>1. {"server_labels", "server_screenshots", "iframe_urls", "server_stream_urls", "activated_servers",
       "server_records"} \subseteq SignalKeys
  BY DEF SignalKeys
<1> DEFINE list == s.streams
           f == [i \in DOMAIN list |-> <<Note("server_stream_urls", list[i])>> \o CaptureUrl(list[i])]
           frame == Known(<<s.iframe>>)
           g == [i \in DOMAIN frame |-> <<Note("iframe_urls", frame[i])>> \o CaptureUrl(frame[i])]
           up == IF s.up THEN <<Note("activated_servers", s.label)>> ELSE <<>>
<1>2. ServerNotes(s) = <<Note("server_labels", s.label), Note("server_screenshots", s.label)>>
                       \o Together(g) \o Together(f) \o up \o <<Note("server_records", s)>>
  BY DEF ServerNotes, StreamNotes, Each
<1>3. \A i \in DOMAIN list : NotesOk(<<Note("server_stream_urls", list[i])>> \o CaptureUrl(list[i]))
  BY <1>1, NoteFine, FewOk, CaptureOk, JoinedOk
<1>4. DOMAIN f = DOMAIN list /\ f = [i \in DOMAIN list |-> f[i]] /\ \A i \in DOMAIN list : NotesOk(f[i])
  BY <1>3
<1>5. IsList(frame)
  BY FewOk, KnownList
<1> HIDE DEF frame
<1>6. \A i \in DOMAIN frame : NotesOk(<<Note("iframe_urls", frame[i])>> \o CaptureUrl(frame[i]))
  BY <1>1, NoteFine, FewOk, CaptureOk, JoinedOk
<1>7. DOMAIN g = DOMAIN frame /\ g = [i \in DOMAIN frame |-> g[i]] /\ \A i \in DOMAIN frame : NotesOk(g[i])
  BY <1>6
<1> HIDE DEF f, g
<1>8. NotesOk(Together(f)) /\ NotesOk(Together(g))
  BY <1>4, <1>5, <1>7, EachOk
<1>9. /\ NotesOk(up) /\ NotesOk(<<Note("server_records", s)>>)
      /\ NotesOk(<<Note("server_labels", s.label), Note("server_screenshots", s.label)>>)
  BY <1>1, NoteFine, FewOk
<1> HIDE DEF up
<1> QED
  BY <1>2, <1>8, <1>9, JoinedOk

LEMMA IngestedOk ==
  ASSUME NEW p \in ToolResults
  PROVE  NotesOk(Reading[p])
<1>1. {"visible_live_counts", "activation_targets", "blocker_targets"} \subseteq SignalKeys
  BY DEF SignalKeys
<1> DEFINE f == [i \in DOMAIN p.servers |-> ServerNotes(p.servers[i])]
<1>2. \A i \in DOMAIN p.servers : NotesOk(ServerNotes(p.servers[i]))
  BY ResultShape, ServerOk
<1>3. DOMAIN f = DOMAIN p.servers /\ f = [i \in DOMAIN p.servers |-> f[i]] /\ \A i \in DOMAIN p.servers : NotesOk(f[i])
  BY <1>2
<1>4. Each(ServerNotes, p.servers) = Together(f)
  BY DEF Each
<1> HIDE DEF f
<1>5. NotesOk(Each(ServerNotes, p.servers))
  BY <1>3, <1>4, ResultShape, EachOk
<1>6. NotesOk(Each(CaptureUrl, NestedUrls(p)))
  BY NestedLists, CapturesOk
<1>7. /\ NotesOk(CappedNotes("selectors", p.selectors, SelectorCap))
      /\ NotesOk(CappedNotes("server_labels", NestedLabels(p), LabelCap))
      /\ NotesOk(Notes("visible_live_counts", NestedCounts(p)))
  BY <1>1, ResultShape, NestedLists, NotesFine
<1>8. NotesOk(HostingNotes(p)) /\ NotesOk(FrontierNotes(p)) /\ NotesOk(ChangeNotes(p))
  BY HostingOk, FrontierOk
<1>9. NotesOk(TargetNotes("activation_targets", p.activations)) /\ NotesOk(TargetNotes("blocker_targets", p.blockers))
  BY <1>1, ResultShape, TargetsOk
<1> DEFINE a == Each(CaptureUrl, NestedUrls(p))
           b == Each(ServerNotes, p.servers)
<1>10. Ingested(p) = a \o CappedNotes("selectors", p.selectors, SelectorCap)
                       \o CappedNotes("server_labels", NestedLabels(p), LabelCap)
                       \o Notes("visible_live_counts", NestedCounts(p))
                       \o HostingNotes(p) \o FrontierNotes(p)
                       \o TargetNotes("activation_targets", p.activations)
                       \o TargetNotes("blocker_targets", p.blockers)
                       \o ChangeNotes(p) \o b
  BY DEF Ingested
<1>11. NotesOk(a) /\ NotesOk(b)
  BY <1>5, <1>6
<1> HIDE DEF a, b
<1>12. NotesOk(Ingested(p))
  BY <1>7, <1>8, <1>9, <1>10, <1>11, JoinedOk
<1> QED
  BY <1>12 DEF Reading

\* What a call was about, and what the text of an error says.
LEMMA ArgumentsOk ==
  ASSUME NEW a \in ToolArgs
  PROVE  NotesOk(ArgumentNotes(a))
<1>1. IsList(a.urls) /\ IsList(a.selectors)
  BY WorkAssumption
<1>2. NotesOk(Each(CaptureUrl, a.urls)) /\ NotesOk(CappedNotes("selectors", a.selectors, SelectorCap))
  BY <1>1, CapturesOk, NotesFine
<1> DEFINE x == Each(CaptureUrl, a.urls)
           y == CappedNotes("selectors", a.selectors, SelectorCap)
<1>3. ArgumentNotes(a) = x \o y
  BY DEF ArgumentNotes
<1> HIDE DEF x, y
<1>4. NotesOk(x) /\ NotesOk(y)
  BY <1>2 DEF x, y
<1> QED
  BY <1>3, <1>4, JoinedOk

LEMMA ErrorsOk ==
  ASSUME NEW p \in ToolResults
  PROVE  NotesOk(ErrorNotes(p))
<1>1. "visible_live_counts" \in SignalKeys
  BY DEF SignalKeys
<1> QED
  BY <1>1, ResultShape, NestedLists, NotesFine DEF ErrorNotes

-----------------------------------------------------------------------------
\* One list, under its caps.
LEMMA LastOfIs ==
  ASSUME NEW W, NEW list \in Seq(W), NEW n \in Nat
  PROVE  /\ LastOf(list, n) \in Seq(W)
         /\ Len(list) <= n => LastOf(list, n) = list
         /\ Len(list) > n => /\ Len(LastOf(list, n)) = n
                             /\ \A i \in 1..n : LastOf(list, n)[i] = list[(Len(list) - n) + i]
<1>1. Len(list) \in Nat
  BY LenProperties
<1>2. CASE Len(list) <= n
  BY <1>1, <1>2 DEF LastOf
<1>3. CASE Len(list) > n
  <2>1. LastOf(list, n) = SubSeq(list, Len(list) - n + 1, Len(list))
    BY <1>1, <1>3 DEF LastOf
  <2> DEFINE k == Len(list) - n
  <2>2. k \in Nat /\ k + 1 \in 1..(Len(list) + 1) /\ Len(list) \in (k + 1 - 1)..Len(list)
    BY <1>1, <1>3
  <2>3. SubSeq(list, k + 1, Len(list)) = [i \in 1..n |-> list[k + i]]
    <3>1. Len(list) - (k + 1) + 1 = n /\ \A i \in 1..n : (i + (k + 1)) - 1 = k + i
      BY <1>1, <2>2
    <3> QED
      BY <1>1, <2>2, <3>1
  <2>4. [i \in 1..n |-> list[k + i]] \in [1..n -> W]
    BY <1>1, <2>2, ElementOfSeq
  <2>5. [i \in 1..n |-> list[k + i]] \in Seq(W) /\ Len([i \in 1..n |-> list[k + i]]) = n
    <3>1. [i \in 1..n |-> list[k + i]] \in Seq(W)
      <4>1. Seq(W) = UNION {[1..m -> W] : m \in Nat}
        BY SeqDef
      <4>2. [1..n -> W] \in {[1..m -> W] : m \in Nat}
        OBVIOUS
      <4> HIDE DEF k
      <4> QED
        BY <2>4, <4>1, <4>2
    <3>2. Len([i \in 1..n |-> list[k + i]]) = n
      OBVIOUS
    <3> QED
      BY <3>1, <3>2
  <2> QED
    BY <1>3, <2>1, <2>3, <2>5
<1> QED
  BY <1>1, <1>2, <1>3

\* A list without repetitions is no longer than a set it is from is large.
LEMMA ListFits ==
  ASSUME NEW W, IsFiniteSet(W), NEW list \in Seq(W), IsInjective(list)
  PROVE  Len(list) <= Cardinality(W) /\ Cardinality(W) \in Nat
<1>1. Len(list) \in Nat /\ DOMAIN list = 1..Len(list) /\ list \in [1..Len(list) -> W]
  BY LenProperties
<1>2. Cardinality(W) \in Nat
  BY FS_CardinalityType
<1>3. IsFiniteSet(1..Len(list)) /\ Cardinality(1..Len(list)) = Len(list)
  BY <1>1, FS_Interval
<1>4. CASE Cardinality(W) < Len(list)
  <2>1. \E x, y \in 1..Len(list) : x # y /\ list[x] = list[y]
    BY <1>1, <1>3, <1>4, FS_PigeonHole
  <2> QED
    BY <1>1, <2>1 DEF IsInjective
<1> QED
  BY <1>1, <1>2, <1>4

Held(sig, all, k) ==
  /\ sig \in Seq(all) /\ Len(sig) <= SignalLimit(k) /\ IsInjective(sig) /\ IsFiniteSet(all)
  /\ Cardinality(all) <= SmallestCap(k) => ToSet(sig) = all

LEMMA CapsAre ==
  ASSUME NEW k \in SignalKeys
  PROVE  /\ SignalLimit(k) \in Nat \ {0} /\ SmallestCap(k) \in Nat \ {0} /\ SmallestCap(k) <= SignalLimit(k)
         /\ \A n : NoteOk(n) /\ n.key = k =>
              /\ CapOf(n) \in Nat \ {0} /\ SmallestCap(k) <= CapOf(n) /\ CapOf(n) <= SignalLimit(k)
              /\ CapOf(n) \in {SmallestCap(k), SignalLimit(k)}
<1>1. /\ BaseCap \in Nat \ {0} /\ RaisedCap \in Nat /\ BaseCap <= RaisedCap
      /\ LabelCap \in Nat \ {0} /\ LabelCap <= BaseCap /\ SelectorCap \in Nat \ {0} /\ SelectorCap <= BaseCap
  BY WorkAssumption
<1>2. SignalLimit(k) \in Nat \ {0} /\ BaseCap <= SignalLimit(k)
  BY <1>1 DEF SignalLimit
<1>3. /\ k = "server_labels" => SmallestCap(k) = LabelCap
      /\ k = "selectors" => SmallestCap(k) = SelectorCap
      /\ k \notin {"server_labels", "selectors"} => SmallestCap(k) = SignalLimit(k)
  BY DEF SmallestCap
<1>4. SmallestCap(k) \in Nat \ {0} /\ SmallestCap(k) <= SignalLimit(k)
  BY <1>1, <1>2, <1>3
<1>5. ASSUME NEW n, NoteOk(n), n.key = k
      PROVE  /\ CapOf(n) \in Nat \ {0} /\ SmallestCap(k) <= CapOf(n) /\ CapOf(n) <= SignalLimit(k)
             /\ CapOf(n) \in {SmallestCap(k), SignalLimit(k)}
  <2>1. CASE n.cap = 0
    BY <1>2, <1>4, <1>5, <2>1 DEF CapOf
  <2>2. CASE n.cap # 0
    <3>1. CapOf(n) = n.cap /\ n.cap = SmallestCap(k)
      BY <1>3, <1>5, <2>2 DEF CapOf, NoteOk
    <3> QED
      BY <1>4, <3>1
  <2> QED
    BY <2>1, <2>2
<1> QED
  BY <1>2, <1>4, <1>5

\* A list that is not just as long as the smaller of two caps.
Uncut(sig, k) == SmallestCap(k) = SignalLimit(k) \/ Len(sig) # SmallestCap(k)

LEMMA CappedHolds ==
  ASSUME NEW k \in SignalKeys, NEW sig, NEW all, Held(sig, all, k), NEW v,
         NEW c \in Nat \ {0}, SmallestCap(k) <= c, c <= SignalLimit(k),
         c \in {SmallestCap(k), SignalLimit(k)}
  PROVE  /\ Held(Capped(sig, v, c), all \cup {v}, k)
         /\ Uncut(Capped(sig, v, c), k) => v \in ToSet(Capped(sig, v, c))
<1> DEFINE W == all \cup {v}
           long == Appended(sig, v)
           new == LastOf(long, c)
<1>1. /\ sig \in Seq(all) /\ Len(sig) <= SignalLimit(k) /\ IsInjective(sig) /\ IsFiniteSet(all)
      /\ Cardinality(all) <= SmallestCap(k) => ToSet(sig) = all
  BY DEF Held
<1>2. IsFiniteSet(W) /\ sig \in Seq(W) /\ v \in W
  BY <1>1, FS_AddElement, SeqMonotonic
<1>3. Len(sig) \in Nat /\ DOMAIN sig = 1..Len(sig) /\ SmallestCap(k) \in Nat /\ SignalLimit(k) \in Nat
  BY <1>1, LenProperties, CapsAre
<1>4. Capped(sig, v, c) = new
  BY DEF Capped
\* with the value, before the oldest go
<1>5. /\ long \in Seq(W) /\ IsInjective(long) /\ ToSet(long) = ToSet(sig) \cup {v}
      /\ v \notin ToSet(sig) => Len(long) = Len(sig) + 1 /\ long[Len(long)] = v
      /\ v \in ToSet(sig) => long = sig
  <2>1. CASE v \in ToSet(sig)
    <3>1. long = sig
      BY <2>1 DEF Appended
    <3> HIDE DEF long
    <3> QED
      BY <1>1, <1>2, <2>1, <3>1
  <2>2. CASE v \notin ToSet(sig)
    <3>1. long = Append(sig, v)
      BY <2>2 DEF Appended
    <3>2. /\ long \in Seq(W) /\ Len(long) = Len(sig) + 1 /\ long[Len(sig) + 1] = v
          /\ \A i \in 1..Len(sig) : long[i] = sig[i]
      BY <1>2, <3>1, AppendProperties
    <3> HIDE DEF long
    <3>3. DOMAIN long = 1..(Len(sig) + 1)
      BY <3>2, LenProperties
    <3>4. \A i \in 1..Len(sig) : sig[i] # v
      BY <1>3, <2>2 DEF ToSet
    <3>5. IsInjective(long)
      <4>1. \A i, j \in 1..Len(sig) : sig[i] = sig[j] => i = j
        BY <1>1, <1>3 DEF IsInjective
      <4>2. \A i, j \in 1..(Len(sig) + 1) : long[i] = long[j] => i = j
        BY <1>3, <3>2, <3>4, <4>1
      <4> QED
        BY <3>3, <4>2 DEF IsInjective
    <3>6. ToSet(long) = ToSet(sig) \cup {v}
      <4>1. \A x : x \in ToSet(long) <=> \E i \in 1..(Len(sig) + 1) : x = long[i]
        BY <3>3 DEF ToSet
      <4>2. \A x : x \in ToSet(sig) <=> \E i \in 1..Len(sig) : x = sig[i]
        BY <1>3 DEF ToSet
      <4>3. \A x : x \in ToSet(long) <=> x \in ToSet(sig) \/ x = v
        BY <1>3, <3>2, <4>1, <4>2
      <4> QED
        BY <4>3
    <3> QED
      BY <2>2, <3>2, <3>5, <3>6
  <2> QED
    BY <2>1, <2>2
<1> HIDE DEF long
<1>6. Len(long) \in Nat /\ DOMAIN long = 1..Len(long)
  BY <1>5, LenProperties
<1>7. /\ new \in Seq(W) /\ (Len(long) <= c => new = long)
      /\ Len(long) > c => Len(new) = c /\ \A i \in 1..c : new[i] = long[(Len(long) - c) + i]
  BY <1>5, LastOfIs
<1>8. Len(new) <= SignalLimit(k)
  BY <1>3, <1>6, <1>7
<1> HIDE DEF new
<1>9. DOMAIN new = 1..Len(new) /\ Len(new) \in Nat
  BY <1>7, LenProperties
<1>10. IsInjective(new)
  <2>1. CASE Len(long) <= c
    BY <1>5, <1>7, <2>1
  <2>2. CASE Len(long) > c
    <3>1. \A i \in 1..c : (Len(long) - c) + i \in 1..Len(long) /\ new[i] = long[(Len(long) - c) + i]
      BY <1>6, <1>7, <2>2
    <3>2. \A x, y \in 1..Len(long) : long[x] = long[y] => x = y
      BY <1>5, <1>6 DEF IsInjective
    <3>3. \A i, j \in 1..c : new[i] = new[j] => i = j
      BY <1>6, <3>1, <3>2
    <3>4. DOMAIN new = 1..c
      BY <1>7, <1>9, <2>2
    <3> QED
      BY <3>3, <3>4 DEF IsInjective
  <2> QED
    BY <1>3, <1>6, <2>1, <2>2
<1>11. Cardinality(W) <= SmallestCap(k) => ToSet(new) = W
  <2> SUFFICES ASSUME Cardinality(W) <= SmallestCap(k) PROVE ToSet(new) = W
    OBVIOUS
  <2>1. Len(long) <= Cardinality(W) /\ Cardinality(W) \in Nat
    BY <1>2, <1>5, ListFits
  <2>2. new = long
    BY <1>3, <1>6, <1>7, <2>1
  <2>3. Cardinality(all) <= Cardinality(W) /\ Cardinality(all) \in Nat
    BY <1>1, <1>2, FS_Subset, FS_CardinalityType
  <2>4. ToSet(sig) = all
    BY <1>1, <1>3, <2>1, <2>3
  <2> QED
    BY <1>5, <2>2, <2>4
<1>12. Uncut(new, k) => v \in ToSet(new)
  <2> SUFFICES ASSUME Uncut(new, k) PROVE v \in ToSet(new)
    OBVIOUS
  <2>1. CASE Len(long) <= c
    BY <1>5, <1>7, <2>1
  <2>2. CASE Len(long) > c
    <3>0. c = SignalLimit(k)
      BY <1>7, <2>2 DEF Uncut
    <3>1. v \notin ToSet(sig)
      BY <1>1, <1>3, <1>5, <2>2, <3>0
    <3>2. long[Len(long)] = v /\ (Len(long) - c) + c = Len(long) /\ c \in 1..c
      BY <1>5, <1>6, <3>1
    <3>3. new[c] = v /\ c \in DOMAIN new
      BY <1>7, <1>9, <2>2, <3>2
    <3> QED
      BY <3>3 DEF ToSet
  <2> QED
    BY <1>3, <1>6, <2>1, <2>2
<1>13. Held(new, W, k)
  BY <1>2, <1>7, <1>8, <1>10, <1>11 DEF Held
<1> QED
  BY <1>4, <1>12, <1>13

-----------------------------------------------------------------------------
\* All notes of a result, one by one.
LEMMA GreatestPlace ==
  ASSUME NEW n \in Nat, NEW S, S \subseteq 1..n, S # {}
  PROVE  \E c \in S : \A d \in S : d <= c
<1> DEFINE T == {i \in 0..n : (\E c \in S : c <= i) => \E c \in S : c <= i /\ \A d \in S : d <= i => d <= c}
<1>1. 0 \in T
  OBVIOUS
<1>2. ASSUME NEW i \in 0..(n - 1), i \in T PROVE i + 1 \in T
  <2>1. CASE i + 1 \in S
    BY <2>1
  <2>2. CASE i + 1 \notin S
    <3>1. \A d \in S : d <= i + 1 => d <= i
      BY <2>2
    <3>2. (\E c \in S : c <= i) => \E c \in S : c <= i /\ \A d \in S : d <= i => d <= c
      BY <1>2
    <3>3. (\E c \in S : c <= i + 1) => \E c \in S : c <= i + 1 /\ \A d \in S : d <= i + 1 => d <= c
      BY <3>1, <3>2
    <3> QED
      BY <3>3
  <2> QED
    BY <2>1, <2>2
<1>3. n \in T
  <2> HIDE DEF T
  <2> QED
    BY <1>1, <1>2, StepByStep
<1>4. (\E c \in S : c <= n) => \E c \in S : c <= n /\ \A d \in S : d <= n => d <= c
  BY <1>3
<1>5. \A d \in S : d <= n
  OBVIOUS
<1> HIDE DEF T
<1> QED
  BY <1>4, <1>5

AllHeard(notes, i, k) == heard[k] \cup {notes[j].value : j \in {m \in 1..i : notes[m].key = k}}
LastHeard(v, notes, i, k) ==
  \/ (\A j \in 1..i : notes[j].key # k) /\ v = latest[k]
  \/ \E j \in 1..i : notes[j].key = k /\ v = notes[j].value /\ \A m \in (j + 1)..i : notes[m].key # k

Fresh(sig, all, v, k) == all # {} /\ Uncut(sig, k) => v \in ToSet(sig)

ListsHeld ==
  /\ DOMAIN signals = SignalKeys /\ signals = [k \in SignalKeys |-> signals[k]]
  /\ \A k \in SignalKeys : Held(signals[k], heard[k], k) /\ Fresh(signals[k], heard[k], latest[k], k)

\* What Remember leaves, in terms of the places of the notes.
LEMMA HeardAll ==
  ASSUME NEW notes, IsList(notes), Remember(notes), NEW k \in SignalKeys
  PROVE  heard'[k] = AllHeard(notes, Len(notes), k) /\ LastHeard(latest'[k], notes, Len(notes), k)
<1>1. Len(notes) \in Nat /\ DOMAIN notes = 1..Len(notes)
  BY ListShape
<1>2. heard'[k] = heard[k] \cup {n.value : n \in {m \in ToSet(notes) : m.key = k}}
  BY DEF Remember
<1>3. {n.value : n \in {m \in ToSet(notes) : m.key = k}}
        = {notes[j].value : j \in {m \in 1..Len(notes) : notes[m].key = k}}
  BY <1>1 DEF ToSet
<1> DEFINE of == {i \in DOMAIN notes : notes[i].key = k}
<1>4. latest'[k] = IF of = {} THEN latest[k] ELSE notes[CHOOSE i \in of : \A j \in of : j <= i].value
  BY DEF Remember
<1>5. LastHeard(latest'[k], notes, Len(notes), k)
  <2>1. CASE of = {}
    <3>1. \A j \in 1..Len(notes) : notes[j].key # k
      BY <1>1, <2>1
    <3>2. latest'[k] = latest[k]
      BY <1>4, <2>1
    <3> QED
      BY <3>1, <3>2 DEF LastHeard
  <2>2. CASE of # {}
    <3>1. of \subseteq 1..Len(notes)
      BY <1>1
    <3>2. \E i \in of : \A j \in of : j <= i
      <4> HIDE DEF of
      <4> QED
        BY <1>1, <2>2, <3>1, GreatestPlace
    <3>3. PICK i \in of : latest'[k] = notes[i].value /\ \A j \in of : j <= i
      <4> HIDE DEF of
      <4> QED
        BY <1>4, <2>2, <3>2
    <3>4. \A m \in (i + 1)..Len(notes) : notes[m].key # k
      BY <1>1, <3>1, <3>3
    <3>5. i \in 1..Len(notes) /\ notes[i].key = k
      BY <1>1
    <3> QED
      BY <3>3, <3>4, <3>5 DEF LastHeard
  <2> QED
    BY <2>1, <2>2
<1> QED
  BY <1>2, <1>3, <1>5 DEF AllHeard

LEMMA RememberHolds ==
  ASSUME ListsHeld, NEW notes, NotesOk(notes), Remember(notes), workPage' = workPage
  PROVE  ListsHeld'
<1>1. IsList(notes) /\ \A i \in DOMAIN notes : NoteOk(notes[i])
  BY DEF NotesOk
<1>2. Len(notes) \in Nat /\ DOMAIN notes = 1..Len(notes)
  BY <1>1, ListShape
<1>3. PICK g : /\ g[0] = signals /\ signals' = g[Len(notes)]
               /\ \A i \in 1..Len(notes) : g[i] = Noted(g[i - 1], notes[i])
  BY <1>1, Remembered
<1> DEFINE n == Len(notes)
           T == {i \in 0..n :
                   /\ DOMAIN g[i] = SignalKeys /\ g[i] = [k \in SignalKeys |-> g[i][k]]
                   /\ \A k \in SignalKeys :
                        /\ Held(g[i][k], AllHeard(notes, i, k), k)
                        /\ \A v : LastHeard(v, notes, i, k) => Fresh(g[i][k], AllHeard(notes, i, k), v, k)}
<1>4. 0 \in T
  <2>1. \A k \in SignalKeys : AllHeard(notes, 0, k) = heard[k] /\ \A v : LastHeard(v, notes, 0, k) => v = latest[k]
    BY DEF AllHeard, LastHeard
  <2>2. 0 \in 0..n
    BY <1>2
  <2> QED
    BY <1>3, <2>1, <2>2 DEF ListsHeld
<1>5. ASSUME NEW i \in 0..(n - 1), i \in T PROVE i + 1 \in T
  <2> DEFINE j == i + 1
             note == notes[j]
             c == CapOf(note)
  <2>1. j \in 1..n /\ j - 1 = i /\ j \in 0..n /\ i \in 0..n
    BY <1>2
  <2>2. NoteOk(note) /\ note.key \in SignalKeys
    BY <1>1, <1>2, <2>1 DEF NoteOk
  <2>3. /\ DOMAIN g[i] = SignalKeys /\ g[i] = [k \in SignalKeys |-> g[i][k]]
        /\ \A k \in SignalKeys :
             /\ Held(g[i][k], AllHeard(notes, i, k), k)
             /\ \A v : LastHeard(v, notes, i, k) => Fresh(g[i][k], AllHeard(notes, i, k), v, k)
    BY <1>5
  <2>4. g[j] = Noted(g[i], note)
    BY <1>3, <2>1
  <2>5. /\ c \in Nat \ {0} /\ SmallestCap(note.key) <= c /\ c <= SignalLimit(note.key)
        /\ c \in {SmallestCap(note.key), SignalLimit(note.key)}
    BY <2>2, CapsAre
  <2>6. g[j] = [g[i] EXCEPT ![note.key] = Capped(g[i][note.key], note.value, c)]
    BY <2>4 DEF Noted
  <2> HIDE DEF c, T
  <2>7. /\ DOMAIN g[j] = SignalKeys /\ g[j] = [k \in SignalKeys |-> g[j][k]]
        /\ g[j][note.key] = Capped(g[i][note.key], note.value, c)
        /\ \A k \in SignalKeys : k # note.key => g[j][k] = g[i][k]
    BY <2>2, <2>3, <2>6
  <2>8. ASSUME NEW k \in SignalKeys
        PROVE  /\ Held(g[j][k], AllHeard(notes, j, k), k)
               /\ \A v : LastHeard(v, notes, j, k) => Fresh(g[j][k], AllHeard(notes, j, k), v, k)
    <3>1. CASE k = note.key
      <4>1. AllHeard(notes, j, k) = AllHeard(notes, i, k) \cup {note.value}
        <5>1. \A m : m \in 1..j <=> m \in 1..i \/ m = j
          BY <1>2
        <5> HIDE DEF j
        <5> QED
          BY <3>1, <5>1 DEF AllHeard
      <4>2. \A v : LastHeard(v, notes, j, k) => v = note.value
        <5>1. ASSUME NEW v, LastHeard(v, notes, j, k) PROVE v = note.value
          <6>1. ~ \A m \in 1..j : notes[m].key # k
            BY <2>1, <3>1
          <6>2. PICK m \in 1..j : /\ notes[m].key = k /\ v = notes[m].value
                                  /\ \A l \in (m + 1)..j : notes[l].key # k
            BY <5>1, <6>1 DEF LastHeard
          <6>3. m = j
            BY <1>2, <3>1, <6>2
          <6> QED
            BY <6>2, <6>3
        <5> QED
          BY <5>1
      <4>3. Held(g[i][k], AllHeard(notes, i, k), k)
        BY <2>3
      <4> HIDE DEF j, note
      <4>4. /\ Held(Capped(g[i][k], note.value, c), AllHeard(notes, i, k) \cup {note.value}, k)
            /\ Uncut(Capped(g[i][k], note.value, c), k) => note.value \in ToSet(Capped(g[i][k], note.value, c))
        BY <2>5, <3>1, <4>3, CappedHolds
      <4>5. g[j][k] = Capped(g[i][k], note.value, c)
        BY <2>7, <3>1
      <4> QED
        BY <4>1, <4>2, <4>4, <4>5 DEF Fresh
    <3>2. CASE k # note.key
      <4>1. \A m \in 1..j : notes[m].key = k => m \in 1..i
        BY <1>2, <3>2
      <4>2. 1..i \subseteq 1..j
        BY <1>2
      <4>3. AllHeard(notes, j, k) = AllHeard(notes, i, k)
        BY <4>1, <4>2 DEF AllHeard
      <4>4. \A v : LastHeard(v, notes, j, k) => LastHeard(v, notes, i, k)
        <5>1. \A m \in 1..i : \A l \in (m + 1)..i : l \in (m + 1)..j
          BY <1>2
        <5> QED
          BY <4>1, <4>2, <5>1 DEF LastHeard
      <4>5. g[j][k] = g[i][k]
        BY <2>7, <3>2
      <4> HIDE DEF j, note
      <4>6. /\ Held(g[i][k], AllHeard(notes, i, k), k)
            /\ \A v : LastHeard(v, notes, i, k) => Fresh(g[i][k], AllHeard(notes, i, k), v, k)
        BY <2>3
      <4> QED
        BY <4>3, <4>4, <4>5, <4>6
    <3> QED
      BY <3>1, <3>2
  <2> QED
    BY <2>1, <2>7, <2>8 DEF T
<1>6. n \in T
  <2>1. n \in Nat
    BY <1>2
  <2> HIDE DEF T, n
  <2> QED
    BY <2>1, <1>4, <1>5, StepByStep
<1>7. /\ DOMAIN signals' = SignalKeys /\ signals' = [k \in SignalKeys |-> signals'[k]]
      /\ \A k \in SignalKeys :
           /\ Held(signals'[k], AllHeard(notes, Len(notes), k), k)
           /\ \A v : LastHeard(v, notes, Len(notes), k) => Fresh(signals'[k], AllHeard(notes, Len(notes), k), v, k)
  BY <1>3, <1>6
<1>8. \A k \in SignalKeys : Held(signals'[k], heard'[k], k) /\ Fresh(signals'[k], heard'[k], latest'[k], k)
  BY <1>1, <1>7, HeardAll
<1>9. \A k : SignalLimit(k)' = SignalLimit(k) /\ SmallestCap(k)' = SmallestCap(k)
  BY DEF SignalLimit, SmallestCap
<1>10. \A k \in SignalKeys : Held(signals[k], heard[k], k)' /\ Fresh(signals[k], heard[k], latest[k], k)'
  BY <1>8, <1>9 DEF Held, Fresh, Uncut
<1> QED
  BY <1>7, <1>10 DEF ListsHeld

-----------------------------------------------------------------------------
\* The deque: a failure within what a turn looks back at is still there.
EntriesSeen == [kind: {"observation", "tool", "navigation"},
                status: {"", "started", "success", "error"}, blocked: BOOLEAN]

DequeHeld ==
  /\ entries \in Seq(EntriesSeen) /\ Len(entries) <= WindowSize
  /\ sinceFail \in 0..LookBack
  /\ sinceFail < LookBack =>
       sinceFail < Len(entries) /\ Failed(entries[Len(entries) - sinceFail])

LEMMA LogHolds ==
  ASSUME DequeHeld, NEW new \in Seq(EntriesSeen), Log(new)
  PROVE  DequeHeld'
<1> DEFINE long == entries \o new
           n == IF \E i \in DOMAIN new : Failed(new[i])
                  THEN Len(new) - (CHOOSE i \in DOMAIN new : Failed(new[i]))
                  ELSE sinceFail + Len(new)
<1>1. /\ entries \in Seq(EntriesSeen) /\ Len(entries) \in Nat /\ Len(new) \in Nat
      /\ DOMAIN new = 1..Len(new) /\ sinceFail \in Nat
      /\ WindowSize \in Nat /\ LookBack \in Nat \ {0} /\ LookBack <= WindowSize
  <2>1. entries \in Seq(EntriesSeen) /\ sinceFail \in 0..LookBack
    BY DEF DequeHeld
  <2>2. WindowSize \in Nat /\ LookBack \in Nat \ {0} /\ LookBack <= WindowSize
    BY WorkAssumption
  <2> QED
    BY <2>1, <2>2, LenProperties
<1>2. /\ long \in Seq(EntriesSeen) /\ Len(long) = Len(entries) + Len(new)
      /\ \A i \in 1..Len(long) : long[i] = IF i <= Len(entries) THEN entries[i] ELSE new[i - Len(entries)]
  BY <1>1, ConcatProperties
<1>3. entries' = LastOf(long, WindowSize) /\ sinceFail' = IF n < LookBack THEN n ELSE LookBack
  BY DEF Log, Kept
\* the failed entry that is counted from
<1>4. n \in Nat /\ (n < LookBack => n < Len(long) /\ Failed(long[Len(long) - n]))
  <2>1. CASE \E i \in DOMAIN new : Failed(new[i])
    <3>1. PICK i \in 1..Len(new) : Failed(new[i]) /\ n = Len(new) - i
      BY <1>1, <2>1
    <3> HIDE DEF long, n
    <3>2. Len(long) - n = Len(entries) + i /\ Len(entries) + i \in 1..Len(long) /\ ~(Len(entries) + i <= Len(entries))
      BY <1>1, <1>2, <3>1
    <3>3. long[Len(entries) + i] = new[i]
      BY <1>1, <1>2, <3>1, <3>2
    <3> QED
      BY <1>1, <1>2, <3>1, <3>2, <3>3
  <2>2. CASE ~ \E i \in DOMAIN new : Failed(new[i])
    <3>1. n = sinceFail + Len(new)
      BY <2>2
    <3> HIDE DEF long, n
    <3>2. ASSUME n < LookBack PROVE n < Len(long) /\ Failed(long[Len(long) - n])
      <4>1. sinceFail < Len(entries) /\ Failed(entries[Len(entries) - sinceFail])
        BY <1>1, <3>1, <3>2 DEF DequeHeld
      <4>2. /\ Len(long) - n = Len(entries) - sinceFail /\ n < Len(long)
            /\ Len(entries) - sinceFail \in 1..Len(long) /\ Len(entries) - sinceFail <= Len(entries)
        BY <1>1, <1>2, <3>1, <4>1
      <4>3. long[Len(long) - n] = entries[Len(entries) - sinceFail]
        BY <1>2, <4>2
      <4> QED
        BY <4>1, <4>2, <4>3
    <3> QED
      BY <1>1, <3>1, <3>2
  <2> QED
    BY <2>1, <2>2
<1> HIDE DEF long, n
\* ... is among those the deque keeps
<1>5. /\ entries' \in Seq(EntriesSeen) /\ Len(entries') <= WindowSize
      /\ n < LookBack => n < Len(entries') /\ entries'[Len(entries') - n] = long[Len(long) - n]
  <2>1. Len(long) \in Nat
    BY <1>1, <1>2
  <2>2. CASE Len(long) <= WindowSize
    <3>1. entries' = long
      BY <1>1, <1>2, <1>3, <2>2, LastOfIs
    <3> QED
      BY <1>2, <1>4, <2>2, <3>1
  <2>3. CASE Len(long) > WindowSize
    <3>1. /\ entries' \in Seq(EntriesSeen) /\ Len(entries') = WindowSize
          /\ \A i \in 1..WindowSize : entries'[i] = long[(Len(long) - WindowSize) + i]
      <4>1. long \in Seq(EntriesSeen) /\ WindowSize \in Nat /\ entries' = LastOf(long, WindowSize)
        BY <1>1, <1>2, <1>3
      <4>2. LET last == LastOf(long, WindowSize)
            IN  /\ last \in Seq(EntriesSeen) /\ Len(last) = WindowSize
                /\ \A i \in 1..WindowSize : last[i] = long[(Len(long) - WindowSize) + i]
        BY <4>1, <2>3, LastOfIs
      <4> QED
        BY <4>1, <4>2
    <3>2. ASSUME n < LookBack
          PROVE  n < Len(entries') /\ entries'[Len(entries') - n] = long[Len(long) - n]
      <4>1. /\ WindowSize - n \in 1..WindowSize
            /\ (Len(long) - WindowSize) + (WindowSize - n) = Len(long) - n /\ n < WindowSize
        BY <1>1, <1>4, <2>1, <3>2
      <4>2. entries'[WindowSize - n] = long[Len(long) - n]
        BY <3>1, <4>1
      <4> QED
        BY <3>1, <4>1, <4>2
    <3> QED
      BY <1>1, <3>1, <3>2
  <2> QED
    BY <1>1, <2>1, <2>2, <2>3
<1>6. sinceFail' \in 0..LookBack /\ (sinceFail' < LookBack => sinceFail' = n /\ n < LookBack)
  BY <1>1, <1>3, <1>4
<1>7. sinceFail' < LookBack => sinceFail' < Len(entries') /\ Failed(entries'[Len(entries') - sinceFail'])
  BY <1>4, <1>5, <1>6
<1> QED
  BY <1>5, <1>6, <1>7 DEF DequeHeld

LEMMA FailureSeen ==
  ASSUME DequeHeld PROVE FailureTold
<1> SUFFICES ASSUME sinceFail < LookBack PROVE Blockers # {}
  BY DEF FailureTold, Told, Move
<1>1. /\ entries \in Seq(EntriesSeen) /\ Len(entries) \in Nat /\ sinceFail \in Nat
      /\ LookBack \in Nat /\ sinceFail < Len(entries) /\ Failed(entries[Len(entries) - sinceFail])
  <2>1. entries \in Seq(EntriesSeen) /\ sinceFail \in 0..LookBack /\ LookBack \in Nat
    BY WorkAssumption DEF DequeHeld
  <2>2. sinceFail < Len(entries) /\ Failed(entries[Len(entries) - sinceFail])
    BY DEF DequeHeld
  <2> QED
    BY <2>1, <2>2, LenProperties
<1>2. /\ Recent \in Seq(EntriesSeen) /\ (Len(entries) <= LookBack => Recent = entries)
      /\ Len(entries) > LookBack =>
           Len(Recent) = LookBack
           /\ \A i \in 1..LookBack : Recent[i] = entries[(Len(entries) - LookBack) + i]
  BY <1>1, LastOfIs DEF Recent
<1> HIDE DEF Recent
<1>3. DOMAIN Recent = 1..Len(Recent) /\ Len(Recent) \in Nat
  BY <1>2, LenProperties
<1>4. \E i \in DOMAIN Recent : Failed(Recent[i])
  <2>1. CASE Len(entries) <= LookBack
    <3>1. Len(entries) - sinceFail \in 1..Len(entries) /\ Recent = entries
      BY <1>1, <1>2, <2>1
    <3> QED
      BY <1>1, <1>3, <3>1
  <2>2. CASE Len(entries) > LookBack
    <3>1. /\ LookBack - sinceFail \in 1..LookBack
          /\ (Len(entries) - LookBack) + (LookBack - sinceFail) = Len(entries) - sinceFail
      BY <1>1
    <3>2. Recent[LookBack - sinceFail] = entries[Len(entries) - sinceFail] /\ DOMAIN Recent = 1..LookBack
      BY <1>2, <1>3, <2>2, <3>1
    <3> QED
      BY <1>1, <3>1, <3>2
  <2> QED
    BY <1>1, <2>1, <2>2
<1> QED
  BY <1>4 DEF Blockers

-----------------------------------------------------------------------------
\* The inductive invariant: what the lists hold and what the deque holds.
WorkInv ==
  /\ workPage \in WorkPages /\ calling \subseteq ToolArgs /\ callsSeen \in 0..MaxCallsSeen
  /\ ListsHeld /\ DequeHeld

LEMMA WorkInvSafe ==
  ASSUME WorkInv PROVE WorkSafe
<1>1. \A k \in SignalKeys : Held(signals[k], heard[k], k) /\ Fresh(signals[k], heard[k], latest[k], k)
  BY DEF WorkInv, ListsHeld
<1>2. \A k \in SignalKeys : /\ Len(signals[k]) <= SignalLimit(k) /\ IsInjective(signals[k])
                            /\ signals[k] \in Seq(heard[k])
                            /\ Cardinality(heard[k]) <= SmallestCap(k) => ToSet(signals[k]) = heard[k]
  BY <1>1 DEF Held
<1>3. \A k \in SignalKeys : ToSet(signals[k]) \subseteq heard[k]
  <2> TAKE k \in SignalKeys
  <2>1. signals[k] \in Seq(heard[k])
    BY <1>2
  <2> QED
    BY <2>1, LenProperties, ElementOfSeq DEF ToSet
<1>4. WorkTypeOK
  BY <1>2, <1>3 DEF WorkTypeOK, WorkInv, DequeHeld
<1>5. HeardKept
  BY <1>2 DEF HeardKept
<1>6. FreshSurvive
  BY <1>1 DEF FreshSurvive, Fresh, Uncut
<1>7. FailureTold
  BY FailureSeen DEF WorkInv
<1> QED
  BY <1>4, <1>5, <1>6, <1>7 DEF WorkSafe

LEMMA WorkStarts ==
  ASSUME WorkInit PROVE WorkInv
<1>1. /\ workPage \in WorkPages /\ calling \subseteq ToolArgs /\ callsSeen \in 0..MaxCallsSeen
  <2>1. workPage \in WorkPages /\ calling = {} /\ callsSeen = 0
    BY DEF WorkInit
  <2>2. MaxCallsSeen \in Nat
    BY WorkAssumption
  <2>3. callsSeen \in 0..MaxCallsSeen
    BY <2>1, <2>2
  <2> QED
    BY <2>1, <2>3, Zenon
<1>2. \A k \in SignalKeys : signals[k] = <<>> /\ heard[k] = {}
  BY DEF WorkInit
<1>3. \A k \in SignalKeys : Held(<<>>, {}, k)
  <2> TAKE k \in SignalKeys
  <2>1. SignalLimit(k) \in Nat
    BY CapsAre
  <2>2. IsFiniteSet({})
    BY FS_EmptySet
  <2>3. ToSet(<<>>) = {} /\ IsInjective(<<>>) /\ <<>> \in Seq({}) /\ Len(<<>>) = 0
    BY DEF ToSet, IsInjective
  <2> QED
    BY <2>1, <2>2, <2>3 DEF Held
<1>4. ListsHeld
  <2>1. DOMAIN signals = SignalKeys /\ signals = [k \in SignalKeys |-> signals[k]]
    BY DEF WorkInit
  <2> QED
    BY <1>2, <1>3, <2>1 DEF ListsHeld, Fresh
<1>5. DequeHeld
  <2>1. entries = <<>> /\ sinceFail = LookBack
    BY DEF WorkInit
  <2>2. WindowSize \in Nat /\ LookBack \in Nat
    BY WorkAssumption
  <2>3. entries \in Seq(EntriesSeen) /\ Len(entries) = 0
    BY <2>1
  <2> QED
    BY <2>1, <2>2, <2>3 DEF DequeHeld
<1> QED
  BY <1>1, <1>4, <1>5 DEF WorkInv

\* What leaves the lists and the page alone leaves them as good.
LEMMA ListsStay ==
  ASSUME ListsHeld, UNCHANGED <<workPage, signals, heard, latest>>
  PROVE  ListsHeld'
<1>1. \A k : SignalLimit(k)' = SignalLimit(k) /\ SmallestCap(k)' = SmallestCap(k)
  BY DEF SignalLimit, SmallestCap
<1> QED
  BY <1>1 DEF ListsHeld, Held, Fresh, Uncut

LEMMA WorkSteps ==
  ASSUME WorkInv, [WorkNext]_workVars PROVE WorkInv'
<1>0. /\ workPage \in WorkPages /\ calling \subseteq ToolArgs /\ callsSeen \in 0..MaxCallsSeen
      /\ ListsHeld /\ DequeHeld /\ MaxCallsSeen \in Nat
  BY WorkAssumption DEF WorkInv
<1>1. ASSUME NEW blocked \in BOOLEAN, ModelSpeaks(blocked) PROVE WorkInv'
  <2>1. Log(<<Entry("observation", "", blocked)>>) /\ UNCHANGED <<workPage, signals, calling, callsSeen, heard, latest>>
    BY <1>1 DEF ModelSpeaks
  <2>2. <<Entry("observation", "", blocked)>> \in Seq(EntriesSeen)
    BY DEF Entry, EntriesSeen
  <2>3. DequeHeld'
    BY <1>0, <2>1, <2>2, LogHolds
  <2>4. ListsHeld'
    BY <1>0, <2>1, ListsStay
  <2> QED
    BY <1>0, <2>1, <2>3, <2>4 DEF WorkInv
<1>2. ASSUME NEW a \in ToolArgs, NEW warned \in BOOLEAN, NEW visits \in 0..Len(a.urls),
             StartCall(a, warned, visits)
      PROVE  WorkInv'
  <2> DEFINE before == IF warned THEN <<Entry("observation", "", FALSE)>> ELSE <<>>
             begun == <<Entry("tool", "started", FALSE)>>
             going == [i \in 1..visits |-> Entry("navigation", "", FALSE)]
             new == before \o begun \o going
  <2>1. /\ callsSeen < MaxCallsSeen /\ calling' = {a} /\ callsSeen' = callsSeen + 1
        /\ Log(new) /\ UNCHANGED <<workPage, signals, heard, latest>>
    BY <1>2 DEF StartCall
  <2>2. new \in Seq(EntriesSeen)
    <3>1. /\ Entry("observation", "", FALSE) \in EntriesSeen /\ Entry("tool", "started", FALSE) \in EntriesSeen
          /\ Entry("navigation", "", FALSE) \in EntriesSeen
      BY DEF Entry, EntriesSeen
    <3>2. visits \in Nat
      <4>1. Len(a.urls) \in Nat
        BY WorkAssumption, LenProperties DEF IsList
      <4> QED
        BY <4>1
    <3>3. before \in Seq(EntriesSeen) /\ begun \in Seq(EntriesSeen)
      <4>1. \A e : e \in EntriesSeen => <<e>> \in Seq(EntriesSeen)
        <5> HIDE DEF EntriesSeen
        <5> QED
          OBVIOUS
      <4>2. <<>> \in Seq(EntriesSeen)
        OBVIOUS
      <4> QED
        BY <3>1, <4>1, <4>2
    <3>4. going \in Seq(EntriesSeen)
      <4> DEFINE e == Entry("navigation", "", FALSE)
      <4>1. e \in EntriesSeen
        BY <3>1
      <4> HIDE DEF e, EntriesSeen
      <4>2. [i \in 1..visits |-> e] \in [1..visits -> EntriesSeen]
        BY <4>1
      <4>3. [i \in 1..visits |-> e] \in Seq(EntriesSeen)
        BY <3>2, <4>2, SeqDef
      <4> QED
        BY <4>3 DEF e
    <3> HIDE DEF before, begun, going
    <3>5. before \o begun \in Seq(EntriesSeen)
      BY <3>3, ConcatProperties
    <3> QED
      BY <3>4, <3>5, ConcatProperties
  <2> HIDE DEF new
  <2>3. DequeHeld'
    BY <1>0, <2>1, <2>2, LogHolds
  <2>4. ListsHeld'
    BY <1>0, <2>1, ListsStay
  <2> QED
    BY <1>0, <2>1, <2>3, <2>4 DEF WorkInv
<1>3. ASSUME NEW a \in ToolArgs, NEW p \in ToolResults, NEW status \in {"success", "error"},
             NEW blocked \in BOOLEAN, FinishCall(a, p, status, blocked)
      PROVE  WorkInv'
  <2> DEFINE told == <<Entry("tool", status, blocked)>> \o Asked(a)
             given == IF status = "success" THEN Reading[p] ELSE ErrorNotes(p)
             notes == ArgumentNotes(a) \o given
  <2>1. /\ calling' = {} /\ Log(told) /\ Remember(notes)
        /\ workPage' = workPage /\ callsSeen' = callsSeen
    BY <1>3 DEF FinishCall
  <2>2. told \in Seq(EntriesSeen)
    <3>1. Entry("tool", status, blocked) \in EntriesSeen /\ Entry("observation", "", FALSE) \in EntriesSeen
      BY DEF Entry, EntriesSeen
    <3>2. \A e : e \in EntriesSeen => <<e>> \in Seq(EntriesSeen)
      <4> HIDE DEF EntriesSeen
      <4> QED
        OBVIOUS
    <3>3. Asked(a) \in Seq(EntriesSeen)
      <4>1. <<>> \in Seq(EntriesSeen)
        OBVIOUS
      <4> QED
        BY <3>1, <3>2, <4>1 DEF Asked
    <3> QED
      BY <3>1, <3>2, <3>3, ConcatProperties
  <2>3. NotesOk(notes)
    <3>1. NotesOk(given)
      BY IngestedOk, ErrorsOk
    <3>2. NotesOk(ArgumentNotes(a))
      BY ArgumentsOk
    <3> HIDE DEF given
    <3> QED
      BY <3>1, <3>2, JoinedOk
  <2> HIDE DEF told, notes
  <2>4. DequeHeld'
    BY <1>0, <2>1, <2>2, LogHolds
  <2>5. ListsHeld'
    BY <1>0, <2>1, <2>3, RememberHolds
  <2> QED
    BY <1>0, <2>1, <2>4, <2>5 DEF WorkInv
<1>4. CASE UNCHANGED workVars
  <2>1. UNCHANGED <<workPage, signals, heard, latest, calling, callsSeen, entries, sinceFail>>
    BY <1>4 DEF workVars
  <2>2. ListsHeld'
    BY <1>0, <2>1, ListsStay
  <2>3. DequeHeld'
    BY <1>0, <2>1 DEF DequeHeld
  <2> QED
    BY <1>0, <2>1, <2>2, <2>3 DEF WorkInv
<1> QED
  BY <1>1, <1>2, <1>3, <1>4 DEF WorkNext

(* Whatever the tools give, for any caps: what an agent remembers within   *)
(* its invocation is right.                                                *)
THEOREM WorkIsSafe == WorkSpec => []WorkSafe
<1>1. WorkInit => WorkInv
  BY WorkStarts
<1>2. WorkInv /\ [WorkNext]_workVars => WorkInv'
  BY WorkSteps
<1>3. WorkInv => WorkSafe
  BY WorkInvSafe
<1> QED
  BY <1>1, <1>2, <1>3, PTL DEF WorkSpec
====
