------------------------------ MODULE PageTable ------------------------------
(* The page partition of the DynamoDB table, as the operations of             *)
(* backend/internal/store/dynamo/store.go read and write it.  Every write is  *)
(* one conditional item update or one transaction, hence one atomic operator  *)
(* here; a handler that makes two calls makes two steps.  Reads carry no      *)
(* ConsistentRead flag, so with EventualReads they may be answered by a copy  *)
(* of the item that lags behind the writes.                                   *)
EXTENDS PageModel, NagSchedule, FiniteSets

CONSTANTS
    PageIds,        \* page ids: each create request draws its own (randomID)
    Keys,           \* idempotency keys
    Key,            \* Key[p]: the idempotency key of the request that draws id p
    None,           \* an ack note that was never written
    EventualReads,  \* may GetItem return a stale copy?
    Faults          \* the calls that may fail, or crash, by the pc they are made at

ASSUME TableAssumption ==
    /\ Key \in [PageIds -> Keys]
    /\ EventualReads \in BOOLEAN

VARIABLES
    pages,    \* the page items: DOMAIN pages is the set of pages created
    idem,     \* the idempotency guards: key -> page id
    events,   \* events[p][t]: how many timeline events of type t page p has
    replica,  \* the lagging copy a read may be answered from
    left      \* left[p]: ticks until expires_at; negative once it has passed

tableVars == <<pages, idem, events, replica, left>>

EventTypes ==
    {"created", "push_attempt", "no_devices", "delivered", "acked", "expired"}

\* newPageRecord: message, ids and timestamps other than expires_at are left out.
Page(state, attempt, note) == [state |-> state, attempt |-> attempt, note |-> note]

\* A DynamoDB put: the item of key x becomes v.
Put(f, x, v) == [y \in DOMAIN f \cup {x} |-> IF y = x THEN v ELSE f[y]]

TableInit ==
    /\ pages = [p \in {} |-> 0]
    /\ idem = [k \in {} |-> 0]
    /\ events = [p \in PageIds |-> [t \in EventTypes |-> 0]]
    /\ replica = [p \in {} |-> 0]
    /\ left = [p \in PageIds |-> Expiry]

------------------------------------------------------------------------------
(* Reads *)

\* GetPage: the copies of the table a read may be answered from.  A page that is
\* not in the DOMAIN of the copy is store.ErrNotFound.
Copies == IF EventualReads THEN {pages, replica} ELSE {pages}

\* GetPageByIdempotencyKey reads the guard, then the page it names.  A copy
\* holds a guard once it holds the page, which one transaction wrote.
KeyFound(k, copy) == k \in DOMAIN idem /\ idem[k] \in DOMAIN copy

\* Mutant: !now.Before(page.ExpiresAt) in place of now.After.
AfterOrAt(ticks) == ticks <= 0

\* now.After(page.ExpiresAt) and now.Before(page.ExpiresAt): at the very instant
\* of expires_at neither holds.
After(ticks)  == ticks < 0
Before(ticks) == ticks > 0

------------------------------------------------------------------------------
(* Writes *)

\* Mutant: the condition is attribute_exists(PK) only.
ExistsOnly(p, from) == p \in DOMAIN pages

\* stateInCondition: the page exists and its state is one of `from`.
StateIn(p, from) == p \in DOMAIN pages /\ pages[p].state \in from

\* Mutant: the guard item is put without a condition.
CreatableAnyKey(p) == p \notin DOMAIN pages

\* CreatePage: page, idempotency guard and "created" event in one transaction;
\* its conditions fail as store.ErrConflict.
Creatable(p) == p \notin DOMAIN pages /\ Key[p] \notin DOMAIN idem

\* Mutant: the guard is written before, and not with, the page.
CreateGuardFirst(p) ==
    /\ idem' = Put(idem, Key[p], p)
    /\ UNCHANGED <<pages, events>>

\* Mutant: a new page starts at attempt 0, the mistake handlers.go:243-247 warns of.
CreatePageAtZero(p) ==
    /\ pages'  = Put(pages, p, Page("created", 0, None))
    /\ idem'   = Put(idem, Key[p], p)
    /\ events' = [events EXCEPT ![p]["created"] = @ + 1]

CreatePage(p) ==
    /\ pages'  = Put(pages, p, Page("created", -1, None))
    /\ idem'   = Put(idem, Key[p], p)
    /\ events' = [events EXCEPT ![p]["created"] = @ + 1]

\* SetPageState: the new state and the attempt, conditioned on the state only.
SetPageState(p, to, n) ==
    pages' = [pages EXCEPT ![p].state = to, ![p].attempt = n]

\* Mutant: an ack is accepted whatever the state.
AckableAlways(p) == p \in DOMAIN pages

\* AckPage: the first ack of an active page leaves its note.
Ackable(p) == StateIn(p, ActiveStates)

AckPage(p, note) ==
    pages' = [pages EXCEPT ![p].state = "acked", ![p].note = note]

\* AppendEvent as every caller uses it: a failure is logged and forgotten, so
\* where it may fail the event is written or not.
AppendEvent(p, type) ==
    \/ events' = [events EXCEPT ![p][type] = @ + 1]
    \/ "append" \in Faults /\ UNCHANGED events

------------------------------------------------------------------------------
(* The table on its own: the copy catches up, and expires_at comes closer.    *)

Replicate(p) ==
    /\ EventualReads
    /\ p \in DOMAIN pages
    /\ ~ (p \in DOMAIN replica /\ replica[p] = pages[p])
    /\ replica' = Put(replica, p, pages[p])
    /\ UNCHANGED <<pages, idem, events, left>>

CountDown ==
    left' = [p \in PageIds |-> IF p \in DOMAIN pages /\ left[p] >= 0
                               THEN left[p] - 1 ELSE left[p]]

==============================================================================
