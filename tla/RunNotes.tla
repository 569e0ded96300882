------------------------------ MODULE RunNotes ------------------------------
(***************************************************************************)
(* The decisions of a run.  Operators write some; the console writes the   *)
(* others: each tab that shows the run derives decisions from the events   *)
(* it has, and posts the whole list whenever it changes.  The server       *)
(* compares the list with what is stored and creates, updates and deletes  *)
(* row by row, each in a transaction of its own, on a worker thread; so    *)
(* two lists, of one tab or of two, may be worked off at the same time.    *)
(***************************************************************************)
EXTENDS Naturals

CONSTANTS
    Requests,       \* sync-logs requests that may be worked off at one time
    MaxDecisions,   \* bound on the events of the run that are decisions
    MaxDecisionRows \* bound on the rows ever created

ASSUME NotesAssumption == MaxDecisions \in Nat /\ MaxDecisionRows \in Nat

Manual == 0                  \* the key of an operator's own decision
Keys == 1..MaxDecisions      \* auto_key: decision:seq-<n>

VARIABLES
    decisions,  \* run_decisions: records [id, key, edited]
    lastId,     \* of the rows
    occurred,   \* decision events of the run so far
    working,    \* the requests in progress
    items,      \* keys of a request's list that remain to be worked off
    sent,       \* all keys of the list
    found,      \* the row it found for a key, or 0
    alone,      \* no other request and no operator has written since it began
    overlapped  \* two requests have been in progress at one time

noteVars == <<decisions, lastId, occurred, working, items, sent, found, alone, overlapped>>

NoItem == [k \in Keys |-> 0]

NotesInit ==
    /\ decisions = {} /\ lastId = 0 /\ occurred = 0 /\ working = {}
    /\ items = [q \in Requests |-> {}] /\ sent = [q \in Requests |-> {}]
    /\ found = [q \in Requests |-> NoItem]
    /\ alone = [q \in Requests |-> TRUE] /\ overlapped = FALSE

Decision(id, key, edited) == [id |-> id, key |-> key, edited |-> edited]
Automatic == {d \in decisions : d.key # Manual}
IsStored(id) == \E d \in decisions : d.id = id

-----------------------------------------------------------------------------
Happen ==
    /\ occurred < MaxDecisions /\ occurred' = occurred + 1
    /\ UNCHANGED <<decisions, lastId, working, items, sent, found, alone, overlapped>>

\* For each key the row that is listed last, so the newest.
Newest(k) ==
    LET ids == {d.id : d \in {a \in Automatic : a.key = k}}
    IN  IF ids = {} THEN 0 ELSE CHOOSE i \in ids : \A j \in ids : j <= i

\* The list of a tab that has received the first n events: none yet when the
\* page has just been opened.  The stored decisions are read once, now.
Post(q, n) ==
    /\ q \notin working
    /\ working' = working \cup {q}
    /\ items' = [items EXCEPT ![q] = 1..n] /\ sent' = [sent EXCEPT ![q] = 1..n]
    /\ found' = [found EXCEPT ![q] = [k \in Keys |-> Newest(k)]]
    /\ alone' = [p \in Requests |-> p = q /\ working = {}]
    /\ overlapped' = (overlapped \/ working # {})
    /\ UNCHANGED <<decisions, lastId, occurred>>

First(q) == CHOOSE k \in items[q] : \A j \in items[q] : k <= j
Taken(q) == items' = [items EXCEPT ![q] = @ \ {First(q)}]

CreateItem(q) ==
    /\ q \in working /\ items[q] # {} /\ found[q][First(q)] = 0
    /\ lastId < MaxDecisionRows
    /\ decisions' = decisions \cup {Decision(lastId + 1, First(q), FALSE)}
    /\ lastId' = lastId + 1 /\ Taken(q)
    /\ UNCHANGED <<occurred, working, sent, found, alone, overlapped>>

\* update_run_decision does nothing when the row has gone.
UpdateNote(id, key) ==
    {IF d.id = id THEN Decision(id, key, FALSE) ELSE d : d \in decisions}

UpdateItem(q) ==
    /\ q \in working /\ items[q] # {} /\ found[q][First(q)] # 0
    /\ decisions' = UpdateNote(found[q][First(q)], First(q)) /\ Taken(q)
    /\ UNCHANGED <<lastId, occurred, working, sent, found, alone, overlapped>>

NotSent(q) == {d.id : d \in {a \in decisions : a.key \notin sent[q]}}
Unseen(q) == {id \in {found[q][k] : k \in Keys \ sent[q]} : IsStored(id)}

DeleteUnseen(q) ==
    /\ q \in working /\ items[q] = {}
    /\ \E id \in Unseen(q) : decisions' = {d \in decisions : d.id # id}
    /\ UNCHANGED <<lastId, occurred, working, items, sent, found, alone, overlapped>>

NotesEnded(q) ==
    /\ working' = working \ {q}
    /\ items' = [items EXCEPT ![q] = {}] /\ sent' = [sent EXCEPT ![q] = {}]
    /\ found' = [found EXCEPT ![q] = NoItem]
    /\ UNCHANGED <<decisions, lastId, occurred, alone, overlapped>>

Answered(q) == q \in working /\ items[q] = {} /\ Unseen(q) = {} /\ NotesEnded(q)

\* A write fails: the request ends with an error, and what it did stays done.
Fails(q) == q \in working /\ NotesEnded(q)

-----------------------------------------------------------------------------
\* The operator's requests; each acts on any row, also on one the console wrote.
Interferes == alone' = [q \in Requests |-> FALSE]

OperatorCreates ==
    /\ lastId < MaxDecisionRows
    /\ decisions' = decisions \cup {Decision(lastId + 1, Manual, TRUE)}
    /\ lastId' = lastId + 1 /\ Interferes
    /\ UNCHANGED <<occurred, working, items, sent, found, overlapped>>

\* The details are replaced too, by those the client sends, so a decision of the
\* console may lose its key and is the operator's from then on.
OperatorUpdates(id) ==
    /\ \E keeps \in BOOLEAN :
          decisions' = {IF d.id = id THEN Decision(id, IF keeps THEN d.key ELSE Manual, TRUE) ELSE d :
                          d \in decisions}
    /\ Interferes
    /\ UNCHANGED <<lastId, occurred, working, items, sent, found, overlapped>>

OperatorDeletes(id) ==
    /\ decisions' = {d \in decisions : d.id # id} /\ Interferes
    /\ UNCHANGED <<lastId, occurred, working, items, sent, found, overlapped>>

Operator ==
    OperatorCreates \/ \E d \in decisions : OperatorUpdates(d.id) \/ OperatorDeletes(d.id)

NotesNext ==
    \/ Happen
    \/ Operator
    \/ \E q \in Requests :
          \/ \E n \in 0..occurred : Post(q, n)
          \/ CreateItem(q) \/ UpdateItem(q) \/ DeleteUnseen(q) \/ Answered(q) \/ Fails(q)

NotesSpec == NotesInit /\ [][NotesNext]_noteVars

-----------------------------------------------------------------------------
NotesTypeOK ==
    /\ \A d \in decisions : d.id \in 1..lastId /\ d.key \in Keys \cup {Manual} /\ d.edited \in BOOLEAN
    /\ \A d, e \in decisions : d.id = e.id => d = e
    /\ lastId \in 0..MaxDecisionRows /\ occurred \in 0..MaxDecisions /\ working \subseteq Requests
    /\ \A q \in Requests : items[q] \subseteq sent[q] /\ sent[q] \subseteq 1..occurred
    /\ found \in [Requests -> [Keys -> 0..lastId]]
    /\ alone \in [Requests -> BOOLEAN] /\ overlapped \in BOOLEAN

\* Working off lists never touches what an operator wrote, whatever overlaps
\* (_sync_auto_decisions takes only rows whose source is agent_auto); a decision
\* that became the operator's after a request had found it is the exception.
Untouched == {d \in decisions : d.key = Manual /\ \A q \in working, k \in Keys : found[q][k] # d.id}
ManualKept == [][~Operator => Untouched \subseteq decisions']_noteVars

\* The decisions of the events are listed once each, unless two requests were in
\* progress at one time: no crash between two rows and no operator duplicates one.
ListedOnce == ~overlapped => \A d, e \in Automatic : d.key = e.key => d = e

\* A request that nobody disturbed leaves exactly its list.
SyncExact ==
    [][\A q \in Requests : Answered(q) /\ alone[q] /\ ~overlapped =>
          Automatic = {d \in Automatic : d.key \in sent[q] /\ ~d.edited}
          /\ {d.key : d \in Automatic} = sent[q]]_noteVars

\* The list of decisions is that of the events, and the operator's own
\* survive.
NotesTrue ==
    /\ [](NotesTypeOK /\ ListedOnce)
    /\ ManualKept
    /\ SyncExact
=============================================================================
