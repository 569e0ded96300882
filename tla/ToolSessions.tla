---------------------------- MODULE ToolSessions ----------------------------
(***************************************************************************)
(* The MCP sessions of the tool playground.  One session per profile is    *)
(* kept open and shared by the requests; one that was not used for 15      *)
(* minutes is closed by the next request.  Opening and closing happen      *)
(* outside the lock: two requests may open at once, and a session may be   *)
(* closed while another request is about to use it.  A call that fails is  *)
(* tried once more.                                                        *)
(*                                                                         *)
(* The model has one profile.  Between two awaits a request is atomic; the *)
(* awaits are the ones of the lock, of opening, of closing and of the call. *)
(***************************************************************************)
EXTENDS Naturals

CONSTANTS
    Callers,       \* requests that may be in progress at a time
    MaxOpened      \* bound on the sessions ever opened

ASSUME ToolAssumption == MaxOpened \in Nat

Connections == 1..MaxOpened
NoSession == 0

VARIABLES
    kept,      \* _playground_tool_sessions[session_key], or NoSession
    expired,   \* it was not used for the time to live
    conn,      \* of each session: "new", "opening", "open", "broken", "closed"
    toolStage, \* where a request stands
    inHand,    \* the session it has in hand, or NoSession
    try,       \* which try of its call this is
    closing    \* the server is shutting down

toolVars == <<kept, expired, conn, toolStage, inHand, try, closing>>

ToolInit ==
    /\ kept = NoSession /\ expired = FALSE
    /\ conn = [s \in Connections |-> "new"]
    /\ toolStage = [c \in Callers |-> "away"] /\ inHand = [c \in Callers |-> NoSession]
    /\ try = [c \in Callers |-> 1]
    /\ closing = FALSE

Unopened == {s \in Connections : conn[s] = "new"}

At(c, from, to) == toolStage[c] = from /\ toolStage' = [toolStage EXCEPT ![c] = to]

\* _cleanup_expired_playground_tool_sessions collects what has expired.
Swept == IF kept # NoSession /\ expired THEN "expire" ELSE "look"

Arrive(c) ==
    /\ ~closing
    /\ At(c, "away", Swept)
    /\ UNCHANGED <<kept, expired, conn, inHand, try, closing>>

AfterTaking == NoSession

\* _close_playground_tool_session: takes what is under the key by now ...
TakeExpired(c) ==
    /\ At(c, "expire", IF kept = NoSession THEN "look" ELSE "exit")
    /\ kept' = AfterTaking /\ expired' = FALSE
    /\ inHand' = [inHand EXCEPT ![c] = kept]
    /\ UNCHANGED <<conn, try, closing>>

\* ... and leaves it; an error of that is logged.
ExitExpired(c) ==
    /\ At(c, "exit", "look")
    /\ conn' = [conn EXCEPT ![inHand[c]] = "closed"]
    /\ inHand' = [inHand EXCEPT ![c] = NoSession]
    /\ UNCHANGED <<kept, expired, try, closing>>

\* A kept session is used; its time starts anew.
UseKept(c) ==
    /\ kept # NoSession
    /\ At(c, "look", "call")
    /\ inHand' = [inHand EXCEPT ![c] = kept] /\ expired' = FALSE
    /\ UNCHANGED <<kept, conn, try, closing>>

\* agent_tools(profile).__aenter__ begins.
Open(c) ==
    /\ kept = NoSession
    /\ At(c, "look", "opening")
    /\ \E s \in Unopened :
          /\ \A t \in Unopened : s <= t
          /\ conn' = [conn EXCEPT ![s] = "opening"] /\ inHand' = [inHand EXCEPT ![c] = s]
    /\ UNCHANGED <<kept, expired, try, closing>>

Opened(c) ==
    /\ At(c, "opening", "store")
    /\ conn' = [conn EXCEPT ![inHand[c]] = "open"]
    /\ UNCHANGED <<kept, expired, inHand, try, closing>>

\* The retry of _call_mcp_tool closes the session under the key `profile`; the
\* sessions have other keys, so nothing is closed.
AfterFailure(c) ==
    IF try[c] = 1
    THEN /\ toolStage' = [toolStage EXCEPT ![c] = Swept]
         /\ try' = [try EXCEPT ![c] = 2]
    ELSE /\ toolStage' = [toolStage EXCEPT ![c] = "away"]
         /\ try' = [try EXCEPT ![c] = 1]

\* The server does not answer, or the tools do not load in time: agent_tools
\* leaves the session before it raises.
OpenFails(c) ==
    /\ toolStage[c] = "opening"
    /\ conn' = [conn EXCEPT ![inHand[c]] = "closed"]
    /\ AfterFailure(c)
    /\ inHand' = [inHand EXCEPT ![c] = NoSession]
    /\ UNCHANGED <<kept, expired, closing>>

OverwriteKept(c) == TRUE     \* mutant of MayKeep
MayKeep(c) == kept = NoSession

Keep(c) ==
    /\ MayKeep(c)
    /\ At(c, "store", "call")
    /\ kept' = inHand[c] /\ expired' = FALSE
    /\ UNCHANGED <<conn, inHand, try, closing>>

\* Another request was first.
CloseDuplicate(c) ==
    /\ ~MayKeep(c)
    /\ At(c, "store", "refind")
    /\ conn' = [conn EXCEPT ![inHand[c]] = "closed"]
    /\ inHand' = [inHand EXCEPT ![c] = NoSession]
    /\ UNCHANGED <<kept, expired, try, closing>>

UseSurviving(c) ==
    /\ kept # NoSession
    /\ At(c, "refind", "call")
    /\ inHand' = [inHand EXCEPT ![c] = kept] /\ expired' = FALSE
    /\ UNCHANGED <<kept, conn, try, closing>>

\* It has expired meanwhile: a KeyError, and so a failure of the call.
NoSurvivor(c) ==
    /\ toolStage[c] = "refind" /\ kept = NoSession
    /\ AfterFailure(c)
    /\ UNCHANGED <<kept, expired, conn, inHand, closing>>

Answer(c) ==
    /\ At(c, "call", "away")
    /\ conn[inHand[c]] = "open"
    /\ inHand' = [inHand EXCEPT ![c] = NoSession]
    /\ try' = [try EXCEPT ![c] = 1]
    /\ UNCHANGED <<kept, expired, conn, closing>>

\* The session is broken or closed, or the tool itself fails.
CallFails(c) ==
    /\ toolStage[c] = "call"
    /\ AfterFailure(c)
    /\ inHand' = [inHand EXCEPT ![c] = NoSession]
    /\ UNCHANGED <<kept, expired, conn, closing>>

-----------------------------------------------------------------------------
\* The tools server reaps or loses a session.
Break(s) ==
    /\ conn[s] = "open"
    /\ conn' = [conn EXCEPT ![s] = "broken"]
    /\ UNCHANGED <<kept, expired, toolStage, inHand, try, closing>>

Expire ==
    /\ kept # NoSession /\ ~expired /\ expired' = TRUE
    /\ UNCHANGED <<kept, conn, toolStage, inHand, try, closing>>

\* Shutdown, when the requests are done: _close_all_playground_tool_sessions.
CloseAll ==
    /\ kept' = NoSession
    /\ conn' = [s \in Connections |-> IF s = kept THEN "closed" ELSE conn[s]]

ShutDown ==
    /\ ~closing /\ \A c \in Callers : toolStage[c] = "away"
    /\ closing' = TRUE
    /\ CloseAll
    /\ UNCHANGED <<expired, toolStage, inHand, try>>

RequestTool(c) ==
    \/ TakeExpired(c) \/ ExitExpired(c) \/ UseKept(c) \/ Open(c) \/ Opened(c) \/ OpenFails(c)
    \/ Keep(c) \/ CloseDuplicate(c) \/ UseSurviving(c) \/ NoSurvivor(c)
    \/ Answer(c) \/ CallFails(c)

ToolNext ==
    \/ \E c \in Callers : Arrive(c) \/ RequestTool(c)
    \/ \E s \in Connections : Break(s)
    \/ Expire \/ ShutDown

ToolSpec == ToolInit /\ [][ToolNext]_toolVars

-----------------------------------------------------------------------------
Stages == {"away", "expire", "exit", "look", "opening", "store", "refind", "call"}
Alive(s) == conn[s] \in {"opening", "open", "broken"}

ToolTypeOK ==
    /\ kept \in Connections \cup {NoSession} /\ expired \in BOOLEAN /\ closing \in BOOLEAN
    /\ conn \in [Connections -> {"new", "opening", "open", "broken", "closed"}]
    /\ toolStage \in [Callers -> Stages] /\ inHand \in [Callers -> Connections \cup {NoSession}]
    /\ try \in [Callers -> {1, 2}]

\* A session that was opened is kept, or in the hands of the one request that
\* opens, keeps or closes it: none is left open with nobody to close it.
SessionsOwned ==
    \A s \in Connections : Alive(s) =>
        \/ kept = s
        \/ \E c \in Callers : inHand[c] = s /\ toolStage[c] \in {"opening", "store", "exit"}

\* A request never begins its call on a session that is closed, though another
\* request may have decided to close the session it looks at.
GivenAlive ==
    [][\A c \in Callers : toolStage[c] # "call" /\ toolStage'[c] = "call" =>
          conn[inHand'[c]] \in {"open", "broken"}]_toolVars

\* After shutdown every session that was opened is closed.
NoneLeftOpen == closing => \A s \in Connections : ~Alive(s)

\* A session is alive while a request uses it, and has an owner who closes
\* it.
SessionsSafe ==
    /\ [](ToolTypeOK /\ SessionsOwned /\ NoneLeftOpen)
    /\ GivenAlive
=============================================================================
