-------------------------- MODULE BrowserSessions --------------------------
(***************************************************************************)
(* The browser tools server: connections of the agents (mcp-server.js),    *)
(* the browsers they share (runtime/session-manager.js) and the cookie jar *)
(* of a host that browsers are seeded from and merged back into            *)
(* (shared/browser-state.js).  One Node process: a step is what runs       *)
(* between two awaits.  Every scope here is a scope of one profile and one *)
(* host, so all browsers share one jar.                                    *)
(*                                                                         *)
(* A connection is used once: a client that finds its connection reaped    *)
(* opens another.  A browser bears the name of the connection whose        *)
(* request launched it.                                                    *)
(***************************************************************************)
EXTENDS Integers, FiniteSets

CONSTANTS
    Conns,      \* connections
    Scopes,     \* scope keys
    Cookies,    \* cookies a page may set
    Forbidden,  \* the ones sanitizeStorageState strips: credentials, trackers
    MaxServerCrashes, \* crashes of the server that are considered
    MaxJarFaults      \* reads and writes of the jar that fail while it lives

NoBrowser == "none"

ASSUME BrowserAssumption ==
    /\ IsFiniteSet(Conns) /\ NoBrowser \notin Conns
    /\ Forbidden \subseteq Cookies /\ MaxServerCrashes \in Nat /\ MaxJarFaults \in Nat

VARIABLES
    conn,      \* "new", "launching", "joining", "open", "gone"
    scope,     \* the scope a connection asked for
    holds,     \* the browser of an open connection
    current,   \* SessionManager.sessions: the browser of a scope
    inFlight,  \* SessionManager.inFlightLaunches
    browser,   \* "none", "starting", "open", "closing", "merging", "writing", "closed", "dead"
    refs,      \* refCount of a browser's record
    pageGone,  \* the page of the browser closed by itself
    merged,    \* what a merge under way will write
    jar,       \* cookies in storageState.json when it was last whole
    torn,      \* the file is being rewritten, or was left so by a crash or a failed write
    blind,     \* the merge under way could not read the file
    lock,      \* the browser whose close holds the jar's lock
    jarFaults, serverCrashes

connVars    == <<conn, scope, holds>>
managerVars == <<current, inFlight, refs>>
jarVars     == <<jar, torn, blind, lock, merged, jarFaults>>
sVars == <<connVars, managerVars, browser, pageGone, jarVars, serverCrashes>>

SInit ==
    /\ conn = [c \in Conns |-> "new"]
    /\ scope = [c \in Conns |-> NoBrowser]
    /\ holds = [c \in Conns |-> NoBrowser]
    /\ current = [s \in Scopes |-> NoBrowser] /\ inFlight = [s \in Scopes |-> NoBrowser]
    /\ browser = [c \in Conns |-> "none"] /\ refs = [c \in Conns |-> 0]
    /\ pageGone = [c \in Conns |-> FALSE]
    /\ merged = [c \in Conns |-> {}]
    /\ jar = {} /\ torn = FALSE /\ blind = [c \in Conns |-> FALSE] /\ lock = NoBrowser
    /\ jarFaults = 0 /\ serverCrashes = 0

\* loadHostJar: a file that cannot be read or parsed counts as no jar.
Jar(unread) == IF unread \/ torn THEN {} ELSE jar

\* A fault of the file system that the server survives.
Fault(happens) ==
    /\ happens => jarFaults < MaxJarFaults
    /\ jarFaults' = jarFaults + (IF happens THEN 1 ELSE 0)

\* sanitizeStorageState
Sanitized(found) == found \ Forbidden

-----------------------------------------------------------------------------
(* Acquiring: acquireSession, and the handler that stores the connection.  *)
(* Nothing but promise reactions runs between the end of a launch and the  *)
(* stored connections of all who waited for it.                            *)

Usable(b) == b # NoBrowser /\ browser[b] = "open" /\ ~pageGone[b]

Request(c, s, state) ==
    /\ conn[c] = "new"
    /\ scope' = [scope EXCEPT ![c] = s]
    /\ conn' = [conn EXCEPT ![c] = state]

\* The record found is shared.
Attach(c, s) ==
    /\ Request(c, s, "open") /\ Usable(current[s])
    /\ refs' = [refs EXCEPT ![current[s]] = @ + 1]
    /\ holds' = [holds EXCEPT ![c] = current[s]]
    /\ UNCHANGED <<current, inFlight, browser, pageGone, jarVars, serverCrashes>>

MayLaunch(s) == inFlight[s] = NoBrowser

Join(c, s) ==
    /\ Request(c, s, "joining") /\ ~Usable(current[s]) /\ ~MayLaunch(s)
    /\ UNCHANGED <<holds, managerVars, browser, pageGone, jarVars, serverCrashes>>

\* _launchIsolatedSession; the cookies it is seeded with are not followed
Launch(c, s) ==
    /\ Request(c, s, "launching") /\ ~Usable(current[s]) /\ MayLaunch(s)
    /\ inFlight' = [inFlight EXCEPT ![s] = c]
    /\ browser' = [browser EXCEPT ![c] = "starting"]
    /\ UNCHANGED <<holds, current, refs, pageGone, jarVars, serverCrashes>>

Waiting(c) == {d \in Conns : conn[d] = "joining" /\ scope[d] = scope[c]} \cup {c}

FirstCount(c) == Cardinality(Waiting(c))

\* The new record replaces whatever the map holds for the scope.
Launched(c) ==
    /\ browser[c] = "starting"
    /\ browser' = [browser EXCEPT ![c] = "open"]
    /\ refs' = [refs EXCEPT ![c] = FirstCount(c)]
    /\ current' = [current EXCEPT ![scope[c]] = c]
    /\ inFlight' = [inFlight EXCEPT ![scope[c]] = NoBrowser]
    /\ conn' = [d \in Conns |-> IF d \in Waiting(c) THEN "open" ELSE conn[d]]
    /\ holds' = [d \in Conns |-> IF d \in Waiting(c) THEN c ELSE holds[d]]
    /\ UNCHANGED <<scope, pageGone, jarVars, serverCrashes>>

LaunchFails(c) ==
    /\ browser[c] = "starting"
    /\ browser' = [browser EXCEPT ![c] = "closed"]
    /\ inFlight' = [inFlight EXCEPT ![scope[c]] = NoBrowser]
    /\ conn' = [d \in Conns |-> IF d \in Waiting(c) THEN "gone" ELSE conn[d]]
    /\ UNCHANGED <<scope, holds, current, refs, pageGone, jarVars, serverCrashes>>

-----------------------------------------------------------------------------
(* Releasing: closeSession for a DELETE, for a closed transport, and for a *)
(* connection that was idle for the time to live.  A client that went away *)
(* while its browser was launched is not noticed: its connection is stored *)
(* like any other and waits for the idle timer.                            *)

Dropped(s) == refs[current[s]] <= 1

\* releaseSession looks the record up by its scope.
Release(c) ==
    LET s == scope[c]  b == current[scope[c]]
    IN  /\ conn[c] = "open"
        /\ conn' = [conn EXCEPT ![c] = "gone"]
        /\ holds' = [holds EXCEPT ![c] = NoBrowser]
        /\ IF b = NoBrowser
             THEN UNCHANGED <<refs, current, browser>>
             ELSE /\ refs' = [refs EXCEPT ![b] = IF Dropped(s) THEN 0 ELSE @ - 1]
                  /\ current' = [current EXCEPT ![s] = IF Dropped(s) THEN NoBrowser ELSE @]
                  /\ browser' = [browser EXCEPT ![b] = IF Dropped(s) THEN "closing" ELSE @]
        /\ UNCHANGED <<scope, inFlight, pageGone, jarVars, serverCrashes>>

\* The record's close(): mergeBackToHostJar under the jar's lock, then the
\* context.  `found` is what the context has collected, whatever its seed was.
LockIgnored == TRUE                  \* mutant of LockFree
LockFree == lock = NoBrowser
Unlocked == NoBrowser

BeginMerge(b, found, unread) ==
    /\ browser[b] = "closing" /\ LockFree /\ Fault(unread)
    /\ lock' = b
    /\ merged' = [merged EXCEPT ![b] = Jar(unread) \cup Sanitized(found)]
    /\ blind' = [blind EXCEPT ![b] = unread \/ torn]
    /\ browser' = [browser EXCEPT ![b] = "merging"]
    /\ UNCHANGED <<connVars, managerVars, pageGone, jar, torn, serverCrashes>>

\* The context does not give its state any more: nothing is merged.
SkipMerge(b) ==
    /\ browser[b] = "closing" /\ LockFree
    /\ browser' = [browser EXCEPT ![b] = "closed"]
    /\ UNCHANGED <<connVars, managerVars, pageGone, jarVars, serverCrashes>>

\* writeFile truncates the file first.
BeginWrite(b) ==
    /\ browser[b] = "merging"
    /\ torn' = TRUE
    /\ browser' = [browser EXCEPT ![b] = "writing"]
    /\ UNCHANGED <<connVars, managerVars, pageGone, jar, blind, lock, merged, jarFaults, serverCrashes>>

\* Whatever became of the merge, the lock is given back and the context closed.
Merged(b) ==
    /\ lock' = Unlocked
    /\ merged' = [merged EXCEPT ![b] = {}] /\ blind' = [blind EXCEPT ![b] = FALSE]
    /\ browser' = [browser EXCEPT ![b] = "closed"]
    /\ UNCHANGED <<connVars, managerVars, pageGone, serverCrashes>>

EndWrite(b) ==
    /\ browser[b] = "writing"
    /\ jar' = merged[b] /\ torn' = FALSE
    /\ Merged(b) /\ UNCHANGED jarFaults

\* The catch of mergeBackToHostJar: a file not opened is whole, one that was
\* truncated stays torn.
MergeFails(b) ==
    /\ browser[b] \in {"merging", "writing"} /\ Fault(TRUE)
    /\ Merged(b) /\ UNCHANGED <<jar, torn>>

-----------------------------------------------------------------------------
PageCloses(b) ==
    /\ browser[b] = "open" /\ ~pageGone[b]
    /\ pageGone' = [pageGone EXCEPT ![b] = TRUE]
    /\ UNCHANGED <<connVars, managerVars, browser, jarVars, serverCrashes>>

\* The process dies with its maps and its browsers; the file stays as it is.
ServerCrash ==
    /\ serverCrashes < MaxServerCrashes
    /\ serverCrashes' = serverCrashes + 1
    /\ conn' = [c \in Conns |-> IF conn[c] = "new" THEN "new" ELSE "gone"]
    /\ holds' = [c \in Conns |-> NoBrowser]
    /\ current' = [s \in Scopes |-> NoBrowser] /\ inFlight' = [s \in Scopes |-> NoBrowser]
    /\ browser' = [c \in Conns |-> IF browser[c] = "none" THEN "none" ELSE "dead"]
    /\ lock' = NoBrowser
    /\ refs' = [c \in Conns |-> 0]
    /\ merged' = [c \in Conns |-> {}] /\ blind' = [c \in Conns |-> FALSE]
    /\ UNCHANGED <<scope, pageGone, jar, torn, jarFaults>>

SNext ==
    \/ \E c \in Conns :
          \/ \E s \in Scopes : Attach(c, s) \/ Join(c, s) \/ Launch(c, s)
          \/ Launched(c) \/ LaunchFails(c) \/ Release(c)
          \/ \E found \in SUBSET Cookies, unread \in BOOLEAN : BeginMerge(c, found, unread)
          \/ SkipMerge(c) \/ BeginWrite(c) \/ EndWrite(c) \/ MergeFails(c)
          \/ PageCloses(c)
    \/ ServerCrash

\* A launch has a time limit, the idle timer releases every connection that is
\* not used, and a close that was begun goes on.
SFairness ==
    \A c \in Conns :
        /\ WF_sVars(Launched(c) \/ LaunchFails(c)) /\ WF_sVars(Release(c))
        /\ SF_sVars(SkipMerge(c) \/ \E found \in SUBSET Cookies : BeginMerge(c, found, FALSE))
        /\ WF_sVars(BeginWrite(c) \/ EndWrite(c) \/ MergeFails(c))

SSpec == SInit /\ [][SNext]_sVars /\ SFairness

-----------------------------------------------------------------------------
\* The types; a record in the map is open and has a reference.
STypeOK ==
    /\ conn \in [Conns -> {"new", "launching", "joining", "open", "gone"}]
    /\ scope \in [Conns -> Scopes \cup {NoBrowser}]
    /\ holds \in [Conns -> Conns \cup {NoBrowser}]
    /\ current \in [Scopes -> Conns \cup {NoBrowser}] /\ inFlight \in [Scopes -> Conns \cup {NoBrowser}]
    /\ browser \in [Conns -> {"none", "starting", "open", "closing", "merging", "writing",
                              "closed", "dead"}]
    /\ refs \in [Conns -> Int]
    /\ \A s \in Scopes : current[s] # NoBrowser => refs[current[s]] >= 1 /\ browser[current[s]] = "open"
    /\ pageGone \in [Conns -> BOOLEAN]
    /\ merged \in [Conns -> SUBSET Cookies]
    /\ jar \in SUBSET Cookies /\ torn \in BOOLEAN /\ blind \in [Conns -> BOOLEAN]
    /\ lock \in Conns \cup {NoBrowser}
    /\ jarFaults \in 0..MaxJarFaults /\ serverCrashes \in 0..MaxServerCrashes

\* No page of a browser of the scope has closed by itself.
Undisturbed(s) == \A c \in Conns : scope[c] = s => ~pageGone[c]

Holders(b) == {c \in Conns : conn[c] = "open" /\ holds[c] = b}

\* A browser is not closed under a connection that uses it, and every
\* connection is counted: releaseSession closes at zero, and joined launches,
\* attached connections and the launcher are one reference each.
HeldStaysOpen ==
    \A s \in Scopes : Undisturbed(s) =>
        /\ \A c \in Conns : conn[c] = "open" /\ scope[c] = s =>
              holds[c] = current[s] /\ browser[holds[c]] = "open"
        /\ current[s] # NoBrowser => refs[current[s]] = Cardinality(Holders(current[s]))

\* One scope has one browser: whatever requests arrive, a second one is
\* running only when the page of the first had closed.
OneBrowserPerScope ==
    \A b, c \in Conns :
        /\ b # c /\ scope[b] = scope[c]
        /\ browser[b] \in {"starting", "open"} /\ browser[c] \in {"starting", "open"}
        => pageGone[b] \/ pageGone[c]

\* Credentials and tracker cookies never enter the jar, so no later browser of
\* the host is seeded with them either.
JarClean == jar \cap Forbidden = {}

\* Merges of browsers that close at the same time lose nothing: what the jar
\* holds stays in it, but for a merge that could not read the file.  Such a merge
\* writes what its own browser had over all that was there.
JarKeeps == [][jar \subseteq jar' \/ \E b \in Conns : blind[b] /\ browser[b] = "writing"]_sVars

\* A file is unreadable, and a merge overwrites what it did not see, only after
\* the file system failed, or the process died: no order of closes does it.
LossExplained ==
    /\ torn /\ lock = NoBrowser => jarFaults + serverCrashes > 0
    /\ \A b \in Conns : blind[b] => jarFaults + serverCrashes > 0

\* A browser is closed in the end, also when its clients vanished during the
\* launch or never said goodbye; one whose page closed by itself can be
\* forgotten in the map's favour of its successor and is excepted.
BrowsersClose ==
    <>[](\A c \in Conns : browser[c] \in {"none", "closed", "dead"} \/ pageGone[c])

\* Browsers are counted right while requests come and go, and what they leave
\* in the jar of their host is clean and stays until a read or a write of it
\* fails (session-manager.js:55-240, browser-state.js:79-89, 190-246).
BrowsersSafe ==
    /\ [](STypeOK /\ HeldStaysOpen /\ OneBrowserPerScope /\ JarClean /\ LossExplained)
    /\ JarKeeps
=============================================================================
