----------------------------- MODULE PageHistory -----------------------------
(* Reading pages back: GET /pages and GET /pages/{id} of                      *)
(* backend/internal/api/handlers.go over the two page indexes of the table.   *)
(* GSI1 (inbox) lists a page under its recipient, GSI2 (sent) under its       *)
(* sender; both lag behind the table, each on its own.  Sort keys hold the    *)
(* creation time in whole seconds, and then the page id.  What a page says    *)
(* once it exists is left to PageTable; here a page is its id, its two users  *)
(* and its creation time.                                                     *)
EXTENDS Integers, Sequences, FiniteSets

CONSTANTS
    Users,
    PageIds,         \* page ids, which are also the tie break of the sort keys
    Sender, Recipient,
    Limit,           \* the 100 of queryPageIndex and of ListPagesFor
    TicksPerSecond,  \* the clock is finer than a sort key
    MaxTime,         \* bound on the clock
    MaxEvents,       \* bound on the events appended to a page
    Readers,         \* requests: GET /pages or GET /pages/{id}
    None             \* a missing `since`; the time of a page not yet created

\* Nobody is paired with himself, so no page is in both indexes for one user.
ASSUME HistoryAssumption ==
    /\ PageIds \subseteq Int
    /\ Sender \in [PageIds -> Users] /\ Recipient \in [PageIds -> Users]
    /\ \A p \in PageIds : Sender[p] # Recipient[p]
    /\ Limit \in Nat \ {0} /\ TicksPerSecond \in Nat \ {0}
    /\ MaxTime \in Nat /\ MaxEvents \in Nat /\ None \notin Int

VARIABLES
    now,      \* the clock, in ticks
    created,  \* created_at of each page
    pages,    \* the page items
    inbox,    \* the pages GSI1 holds
    sent,     \* the pages GSI2 holds
    reads     \* the requests: [status, user, since, found, due, pages, timeline]

tableVars == <<created, pages, inbox, sent>>
vars == <<now, tableVars, reads>>

Second(t) == t \div TicksPerSecond

NewRead == [status |-> "new", user |-> None, since |-> None,
            found |-> {}, due |-> {}, pages |-> <<>>, timeline |-> <<>>]

Init ==
    /\ now = 0
    /\ created = [p \in PageIds |-> None]
    /\ pages = {} /\ inbox = {} /\ sent = {}
    /\ reads = [r \in Readers |-> NewRead]

------------------------------------------------------------------------------
(* Pages come to be, and the indexes learn of them *)

Tick ==
    /\ now < MaxTime
    /\ now' = now + 1
    /\ UNCHANGED <<tableVars, reads>>

\* Mutant: the creation time is left at its zero value.
CreatePageUnstamped(p) ==
    /\ p \notin pages
    /\ pages' = pages \cup {p}
    /\ UNCHANGED <<now, created, inbox, sent, reads>>

\* CreatePage.  handleCreatePage took the time some calls earlier.
CreatePage(p) ==
    /\ p \notin pages
    /\ pages' = pages \cup {p}
    /\ \E at \in 0..now : created' = [created EXCEPT ![p] = at]
    /\ UNCHANGED <<now, inbox, sent, reads>>

IndexInbox(p) ==
    /\ p \in pages \ inbox
    /\ inbox' = inbox \cup {p}
    /\ UNCHANGED <<now, created, pages, sent, reads>>

IndexSent(p) ==
    /\ p \in pages \ sent
    /\ sent' = sent \cup {p}
    /\ UNCHANGED <<now, created, pages, inbox, reads>>

------------------------------------------------------------------------------
(* ListPagesFor *)

\* pageGSI1SK, pageGSI2SK: PAGE#<second>#<id>.
KeyBefore(p, q) ==
    \/ Second(created[p]) < Second(created[q])
    \/ Second(created[p]) = Second(created[q]) /\ p < q

\* #sk > PAGE#<second of since>: a key of that very second is longer, hence greater.
KeyAfter(p, since) == since = None \/ Second(created[p]) >= Second(since)

\* Mutant: ScanIndexForward is left at its default.
OldestOf(found, all) ==
    /\ found \subseteq all
    /\ Cardinality(found) <= Limit
    /\ found # all => Cardinality(found) = Limit
    /\ \A p \in all \ found, q \in found : KeyBefore(q, p)

\* ScanIndexForward false and Limit: the greatest keys of the partition.
NewestOf(found, all) ==
    /\ found \subseteq all
    /\ Cardinality(found) <= Limit
    /\ found # all => Cardinality(found) = Limit
    /\ \A p \in all \ found, q \in found : KeyBefore(p, q)

\* Mutant: the merged list is not cut.
WholeListing(list, merged) ==
    /\ Len(list) = Cardinality(merged)
    /\ \A i, j \in 1..Len(list) : i < j => created[list[i]] >= created[list[j]]
    /\ {list[i] : i \in 1..Len(list)} = merged

\* sort.Slice by CreatedAt, which is unstable and starts from a map: pages of one
\* instant come in any order.  The list is cut after the merge.
Listing(list, merged) ==
    LET listed == {list[i] : i \in 1..Len(list)}
    IN  /\ listed \subseteq merged
        /\ Cardinality(listed) = Len(list) /\ Len(list) <= Limit
        /\ listed # merged => Len(list) = Limit
        /\ \A i, j \in 1..Len(list) : i < j => created[list[i]] >= created[list[j]]
        /\ \A p \in merged \ listed, q \in listed : created[q] >= created[p]

InboxOf(u) == {p \in inbox : Recipient[p] = u}
SentOf(u)  == {p \in sent : Sender[p] = u}

\* handleListPages; parseSince accepts any time.  `due` remembers, for the
\* properties only, what the indexes hold for the caller when the request comes in.
ListRequest(r) ==
    /\ reads[r].status = "new"
    /\ \E u \in Users, since \in {None} \cup 0..now :
          reads' = [reads EXCEPT ![r].status = "inbox", ![r].user = u, ![r].since = since,
                                 ![r].due = InboxOf(u) \cup SentOf(u)]
    /\ UNCHANGED <<now, tableVars>>

QueryInbox(r) ==
    /\ reads[r].status = "inbox"
    /\ \E found \in SUBSET InboxOf(reads[r].user) :
          /\ NewestOf(found, {p \in InboxOf(reads[r].user) : KeyAfter(p, reads[r].since)})
          /\ reads' = [reads EXCEPT ![r].status = "sent", ![r].found = found]
    /\ UNCHANGED <<now, tableVars>>

QuerySent(r) ==
    /\ reads[r].status = "sent"
    /\ \E found \in SUBSET SentOf(reads[r].user) :
          /\ NewestOf(found, {p \in SentOf(reads[r].user) : KeyAfter(p, reads[r].since)})
          /\ LET merged == reads[r].found \cup found
             IN  \E n \in 0..Cardinality(merged) : \E list \in [1..n -> merged] :
                    /\ Listing(list, merged)
                    /\ reads' = [reads EXCEPT ![r].status = "200", ![r].found = {},
                                              ![r].pages = list]
    /\ UNCHANGED <<now, tableVars>>

\* Either query fails, and nothing is answered of the other.
ReadFails(r) ==
    /\ reads[r].status \in {"inbox", "sent"}
    /\ reads' = [reads EXCEPT ![r] = [NewRead EXCEPT !.status = "500"]]
    /\ UNCHANGED <<now, tableVars>>

------------------------------------------------------------------------------
(* handleGetPage *)

\* Mutant: EVT#<type>#<time>.
TypeFirst(e, f) ==
    \/ e.type = "push_attempt" /\ f.type = "created"
    \/ e.type = f.type /\ e.at < f.at

\* EVT#<time>#<type> with RFC3339Nano, which drops trailing zeros: a whole second is
\* written without a fraction, and its Z sorts after the point of any fraction.  The
\* fraction is one digit here, of base TicksPerSecond.
EventKeyBefore(e, f) ==
    LET rank(t) == IF t % TicksPerSecond = 0 THEN TicksPerSecond ELSE t % TicksPerSecond
    IN  \/ Second(e.at) < Second(f.at)
        \/ Second(e.at) = Second(f.at) /\ rank(e.at) < rank(f.at)
        \/ e.at = f.at /\ e.type = "created" /\ f.type = "push_attempt"

\* The events a page may have by now: stamped by their handlers, in any order.
Events(p) ==
    {{[at |-> created[p], type |-> "created"]} \cup appended :
        appended \in {es \in SUBSET [at : created[p]..now, type : {"push_attempt"}] :
                         Cardinality(es) <= MaxEvents}}

\* GetPage and the check of the caller, then ListEvents, which returns the items in
\* the order of their keys.
ViewPage(r) ==
    /\ reads[r].status = "new"
    /\ \E p \in PageIds, u \in Users :
          IF p \in pages /\ u \in {Sender[p], Recipient[p]}
          THEN \E es \in Events(p) : \E list \in [1..Cardinality(es) -> es] :
                  /\ \A i, j \in DOMAIN list : i < j => EventKeyBefore(list[i], list[j])
                  /\ reads' = [reads EXCEPT ![r].status = "viewed", ![r].timeline = list]
          ELSE reads' = [reads EXCEPT ![r].status = "404"]
    /\ UNCHANGED <<now, tableVars>>

------------------------------------------------------------------------------

Next ==
    \/ Tick
    \/ \E p \in PageIds : CreatePage(p) \/ IndexInbox(p) \/ IndexSent(p)
    \/ \E r \in Readers :
          ListRequest(r) \/ QueryInbox(r) \/ QuerySent(r) \/ ReadFails(r) \/ ViewPage(r)

Spec == Init /\ [][Next]_vars

==============================================================================
