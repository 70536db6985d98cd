---------------------------- MODULE AlertMeProps -----------------------------
(* What the paging core is checked for.                                       *)
EXTENDS AlertMe

------------------------------------------------------------------------------
(* Types *)

Attempts == Int
PageRec == [state : PageState, attempt : Attempts, note : Ackers \cup {None}]
MessageRec == [page : PageIds, attempt : Nat, wait : Nat, receives : Nat,
               status : {"visible", "held"}]
PagerPc == {"idle", "next", "load", "expire", "expiredEvent", "list", "noDevices",
            "sender", "send", "prune", "record", "attemptEvent", "enqueue"}
Invocation ==
    [pc : PagerPc, rest : SUBSET MsgIds, msg : MsgIds \cup {None}, ok : SUBSET MsgIds,
     failed : SUBSET MsgIds, attempt : Attempts, left : Nat, trial : 1..3,
     todo : SUBSET Devices, gone : Devices \cup {None}]
CreateStatus == {"create", "enqueue", "lookup", "200", "201", "409", "500"}
AckRec == [status : {"new", "load", "ack", "reread", "event", "200", "404", "409", "500"},
           page : PageIds \cup {None}]
ReceiptRec == [status : {"new", "load", "set", "event", "204", "404", "500"},
               page : PageIds \cup {None}, attempt : Attempts]

TableType ==
    /\ DOMAIN pages \subseteq PageIds /\ \A p \in DOMAIN pages : pages[p] \in PageRec
    /\ DOMAIN idem \subseteq Keys /\ \A k \in DOMAIN idem : idem[k] \in DOMAIN pages
    /\ DOMAIN replica \subseteq DOMAIN pages
    /\ \A p \in DOMAIN replica : replica[p] \in PageRec
    /\ events \in [PageIds -> [EventTypes -> Nat]]
    /\ left \in [PageIds -> -1..Expiry]

QueueType ==
    /\ DOMAIN queue \subseteq MsgIds /\ \A m \in DOMAIN queue : queue[m] \in MessageRec
    /\ dlq \subseteq [page : PageIds, attempt : Nat]
    /\ dups \in 0..MaxDups

PagerType ==
    /\ inv \in [Workers -> Invocation]
    /\ sender \in [Workers -> {"unset", "ready", "failed"}]
    /\ devices \subseteq Devices /\ valid \subseteq Devices

ApiType ==
    /\ creates \in [PageIds -> CreateStatus]
    /\ acks \in [Ackers -> AckRec]
    /\ receipts \in [Receivers -> ReceiptRec]

\* The table holds what the handlers write, the queue what SQS accepts, and every
\* process is at a call of its handler.
TypeOK == TableType /\ QueueType /\ PagerType /\ ApiType

------------------------------------------------------------------------------
(* The page and its chain of attempts *)

\* The abstract specification of a page, under the mapping that forgets attempts.
AbstractState == [p \in PageIds |-> IF p \in DOMAIN pages THEN pages[p].state ELSE "absent"]
AbstractNote  == [p \in PageIds |-> IF p \in DOMAIN pages THEN pages[p].note ELSE None]
Overdue       == {p \in PageIds : left[p] < 0}

Contract == INSTANCE PageContract WITH
    Notes <- Ackers, state <- AbstractState, note <- AbstractNote, overdue <- Overdue

\* Table, queue, pager and API implement the contract of a page: forward only, one
\* ack wins, no expiry before the deadline, acked is never left (store.go:46-51).
ImplementsContract == Contract!Spec

\* Past recordAttempt, the task at hand stands for the one EnqueueNext will send.
Recorded == {"attemptEvent", "enqueue"}

\* The message will be deleted without having anything done for it any more.
Spent(m) == \E w \in Workers :
    m \in inv[w].ok \/ (inv[w].pc \in Recorded /\ inv[w].msg = m)

\* The duplicate guard will let attempt n of page p through, whatever stale attempt
\* number a receipt in flight is about to write back.
PassesGuard(p, n) ==
    /\ n > pages[p].attempt
    /\ \A r \in Receivers :
          receipts[r].status = "set" /\ receipts[r].page = p => n > receipts[r].attempt

\* A next attempt of p is queued, about to be enqueued, or in the dead-letter queue,
\* where an alarm pages the operators.
HasNextAttempt(p) ==
    \/ \E m \in DOMAIN queue :
          ~Spent(m) /\ queue[m].page = p /\ PassesGuard(p, queue[m].attempt)
    \/ \E w \in Workers :
          inv[w].pc \in Recorded /\ PageOf(w) = p /\ PassesGuard(p, AttemptOf(w) + 1)
    \/ \E t \in dlq : t.page = p /\ PassesGuard(p, t.attempt)
    \/ creates[p] = "enqueue" /\ PassesGuard(p, 0)

\* "Each completed attempt enqueues the next until the page is acknowledged or
\* expires" (schedule.go:2-4): an active page is never without a next attempt.
ChainAlive ==
    \A p \in DOMAIN pages : Active(pages[p].state) => HasNextAttempt(p)

\* The same before the deadline only: a schedule shorter than the page relies on
\* the final tick of main.go:204-215, which the instant of expires_at defeats.
NagsUntilDeadline ==
    \A p \in DOMAIN pages :
        Active(pages[p].state) /\ Before(left[p]) => HasNextAttempt(p)

\* A push is never made ahead of the schedule, and with the schedule of schedule.go
\* no invocation gets past its last attempt.
NeverEarly ==
    \A w \in Workers :
        inv[w].pc \in {"list", "noDevices", "sender", "send", "prune", "record"} =>
            /\ AttemptOf(w) <= Len(Delays) =>
                   Expiry - inv[w].left >= Elapsed[AttemptOf(w)]
            /\ ScheduleCovers => AttemptOf(w) < Len(Delays)

\* The three updates of recordAttempt (main.go:230-239) are not atomic, and yet only
\* a page that is settled escapes all three, whatever receipts do in between.
RecordLosesOnlyToTerminal ==
    [][\A w \in Workers :
          inv[w].pc = "record" /\ inv'[w].pc = "attemptEvent" =>
             LET p == PageOf(w)
             IN  Terminal(pages[p].state) \/ pages'[p].attempt = AttemptOf(w)]_vars

\* "Attempt numbers start at 0" and the guard of main.go:142 depends on them: the
\* attempt recorded on a page never goes back.
AttemptNeverRegresses ==
    [][\A p \in DOMAIN pages : pages'[p].attempt >= pages[p].attempt]_vars

\* Duplicates are dropped: while a page is active, the timeline has one push_attempt
\* at most for each of the attempts 0..attempt.  (An attempt that loses its record to
\* an ack still leaves its event.)
EachAttemptOnce ==
    \A p \in DOMAIN pages :
        Active(pages[p].state) => events[p]["push_attempt"] <= pages[p].attempt + 1

\* Acks and expiry "cancel" future nags (main.go:5-6): of a settled page, only the
\* attempts already past the load, one per worker, are still made.
SettledIsSilent ==
    \A p \in DOMAIN pages :
        events[p]["push_attempt"] <= pages[p].attempt + 1 + Cardinality(Workers)

------------------------------------------------------------------------------
(* The answers of the API and the timeline *)

\* handleAckPage: 200 only if the page is acked, 409 only if it expired; a second
\* ack is no error, and a page that exists is found (handlers.go:344-345).
AckIdempotent ==
    \A a \in Ackers :
        /\ acks[a].status \in {"200", "event"} => pages[acks[a].page].state = "acked"
        /\ acks[a].status = "409" => pages[acks[a].page].state = "expired"

\* handleCreatePage: requests with one idempotency key share one page, and none of
\* them is refused (handlers.go:195-196).
OnePagePerKey ==
    /\ \A p, q \in DOMAIN pages : Key[p] = Key[q] => p = q
    /\ \A p \in PageIds :
          /\ creates[p] # "409"
          /\ creates[p] = "200" => \E q \in DOMAIN pages \ {p} : Key[q] = Key[p]

\* handleDeliveredReceipt: whatever it raced with, a page whose receipt was answered
\* with 204 is delivered or settled and stays so.
ReceiptSticks ==
    \A r \in Receivers :
        receipts[r].status \in {"204", "event"} =>
            pages[receipts[r].page].state \notin {"created", "pushed"}

\* The timeline tells no more than what happened: one "acked" and one "delivered"
\* at most, and none that the state of the page does not bear out.
TimelineAgrees ==
    \A p \in DOMAIN pages :
        /\ events[p]["created"] = 1
        /\ events[p]["acked"] <= 1 /\ events[p]["delivered"] <= 1
        /\ events[p]["acked"] > 0 => pages[p].state = "acked"
        /\ events[p]["delivered"] + events[p]["push_attempt"] > 0 =>
               pages[p].state # "created"

\* Pruning never costs the recipient a device that can still be reached.
LiveDeviceNeverPruned == [][devices \cap valid \subseteq devices']_vars

------------------------------------------------------------------------------
(* Liveness *)

InDlq(p) == \E t \in dlq : t.page = p

\* No page that was scheduled is left "nagging silently forever" (main.go:204-206): it
\* is acked or expired in the end, or its task is in the dead-letter queue.
Settles ==
    \A p \in PageIds :
        creates[p] = "201" ~> StateIn(p, PageState \ ActiveStates) \/ InDlq(p)

==============================================================================
