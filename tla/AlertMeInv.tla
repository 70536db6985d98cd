----------------------------- MODULE AlertMeInv ------------------------------
(* The inductive invariants behind the properties of AlertMeProps.            *)
EXTENDS AlertMeProps

------------------------------------------------------------------------------
(* Types, and who holds what *)

HandlingPc == PagerPc \ {"idle", "next"}

\* A record is at hand exactly while handleRecord runs.
WellFormed(i) ==
    /\ i.pc \in HandlingPc => i.msg \in MsgIds
    /\ i.pc \notin HandlingPc => i.msg = None
    /\ i.pc = "idle" => i = Idle

\* Every message an invocation has taken is in the queue, marked as held, and held
\* by no other invocation.
HoldInv ==
    /\ \A w \in Workers :
          /\ \A m \in HeldBy(w) : m \in DOMAIN queue /\ queue[m].status = "held"
          /\ WellFormed(inv[w])
    /\ \A v, w \in Workers : v # w => HeldBy(v) \cap HeldBy(w) = {}

\* A request past its load names a page that exists, and so does every task.
RequestInv ==
    /\ \A p \in PageIds : creates[p] \in {"enqueue", "201", "500"} => p \in DOMAIN pages
    /\ \A a \in Ackers : acks[a].status # "new" => acks[a].page \in PageIds
    /\ \A r \in Receivers :
          /\ receipts[r].status # "new" => receipts[r].page \in PageIds
          /\ receipts[r].status = "set" => receipts[r].page \in DOMAIN pages
    /\ \A m \in DOMAIN queue : queue[m].page \in DOMAIN pages
    /\ \A k \in DOMAIN idem : idem[k] \in DOMAIN pages /\ Key[idem[k]] = k
    /\ \A p \in DOMAIN pages : Key[p] \in DOMAIN idem /\ idem[Key[p]] = p

TypeInv == TypeOK /\ HoldInv /\ RequestInv

------------------------------------------------------------------------------
(* What the contract rests on *)

LiveStates == {"created", "pushed", "delivered", "acked", "expired"}

\* No page is ever "seen" or "cancelled", and only a page past its deadline, which is
\* never moved, is about to be expired.
ExpiryInv ==
    /\ \A p \in DOMAIN pages : pages[p].state \in LiveStates
    /\ \A w \in Workers :
          /\ inv[w].pc = "expire" => After(left[PageOf(w)])
          /\ inv[w].pc = "expiredEvent" => pages[PageOf(w)].state \notin ActiveStates

------------------------------------------------------------------------------
(* What the chain of attempts rests on *)

PastLoad == {"list", "noDevices", "sender", "send", "prune", "record",
             "attemptEvent", "enqueue"}

\* Attempt n, due in `wait` ticks, is not ahead of the schedule.
OnSchedule(p, n, wait) ==
    n <= Len(Delays) => left[p] < 0 \/ Expiry - left[p] + wait >= Elapsed[n]

\* No task in the queue is ahead of the schedule, and a delayed one is not taken.
TaskOnSchedule(m) ==
    /\ OnSchedule(queue[m].page, queue[m].attempt, queue[m].wait)
    /\ ScheduleCovers => queue[m].attempt <= Len(Delays)
    /\ queue[m].status = "held" => queue[m].wait = 0

\* Nor is an invocation that found its page before the deadline; its last task with
\* a schedule that covers the page comes after it.
RunOnSchedule(w) ==
    /\ inv[w].left >= left[PageOf(w)]
    /\ inv[w].left <= Expiry
    /\ AttemptOf(w) <= Len(Delays) => Expiry - inv[w].left >= Elapsed[AttemptOf(w)]
    /\ ScheduleCovers => AttemptOf(w) < Len(Delays)

ScheduleInv ==
    /\ \A m \in DOMAIN queue : TaskOnSchedule(m)
    /\ \A w \in Workers : inv[w].pc \in PastLoad => RunOnSchedule(w)

\* What breaks the chain (main.go:189-214): the next task is sent after the attempt was
\* recorded, so a failure in between is never made good; a create that fails to enqueue
\* is not repeated either; and a stale read drops the task of a page it does not show.
ChainUnbroken ==
    /\ ~EventualReads
    /\ {"enqueue", "createEnqueue"} \cap Faults = {}
    /\ Recorded \cap Crashes = {}

\* An attempt n of page p is to come.
Token(p, n) ==
    \/ \E m \in DOMAIN queue : ~Spent(m) /\ queue[m].page = p /\ queue[m].attempt = n
    \/ \E w \in Workers : inv[w].pc \in Recorded /\ PageOf(w) = p /\ AttemptOf(w) + 1 = n
    \/ Task(p, n) \in dlq
    \/ creates[p] = "enqueue" /\ n = 0

\* The chain is alive, for good with a schedule that covers the page, and with any
\* schedule until the deadline.
ChainInv ==
    \A p \in DOMAIN pages :
        Active(pages[p].state) /\ (ScheduleCovers \/ Before(left[p])) => HasNextAttempt(p)

------------------------------------------------------------------------------
(* What the answers and the timeline rest on *)

\* An update of recordAttempt that was lost says what the page no longer is, and a
\* record begins with the first of the three.
RecordInv ==
    \A w \in Workers :
        /\ inv[w].pc \notin {"record"} \cup Recorded => inv[w].trial = 1
        /\ inv[w].pc = "record" /\ inv[w].trial > 1 =>
               pages[PageOf(w)].state \notin ReceiptFrom
        /\ inv[w].pc = "record" /\ inv[w].trial = 3 =>
               pages[PageOf(w)].state \notin ActiveStates
        /\ inv[w].pc \in Recorded => pages[PageOf(w)].state # "created"

\* Only a token FCM has given up is about to be pruned.
DeviceInv == \A w \in Workers : inv[w].pc = "prune" => inv[w].gone \notin valid

\* What a request has read or written of its page, the page still bears out.
AckInv ==
    \A a \in Ackers :
        LET page == acks[a].page
        IN  /\ acks[a].status \in {"ack", "reread", "event", "200", "409"} =>
                   page \in DOMAIN pages
            /\ acks[a].status = "reread" => pages[page].state \notin ActiveStates
            /\ acks[a].status \in {"event", "200"} => pages[page].state = "acked"
            /\ ~EventualReads /\ acks[a].status = "409" => pages[page].state = "expired"

ReceiptInv ==
    \A r \in Receivers :
        receipts[r].status \in {"event", "204"} =>
            /\ receipts[r].page \in DOMAIN pages
            /\ pages[receipts[r].page].state \notin ReceiptFrom

\* A create that was refused finds the guard of its key.
CreateInv ==
    \A p \in PageIds :
        /\ creates[p] \in {"create", "lookup", "200", "409"} => p \notin DOMAIN pages
        /\ creates[p] \in {"lookup", "200", "409"} => Key[p] \in DOMAIN idem
        /\ ~EventualReads => creates[p] # "409"

\* A copy lags behind its page, and no page leaves "acked".
CopyInv == \A p \in DOMAIN replica : replica[p].state = "acked" => pages[p].state = "acked"

AnswerInv == RecordInv /\ DeviceInv /\ AckInv /\ ReceiptInv /\ CreateInv /\ CopyInv

\* Whose event of the kind is still to come.
Acking(a, p)    == acks[a].status = "event" /\ acks[a].page = p
Delivering(r, p) == receipts[r].status = "event" /\ receipts[r].page = p

\* At most one ack and one receipt of a page ever win, and each leaves one event.
TimelineOf(p) ==
    /\ p \notin DOMAIN pages => \A t \in EventTypes : events[p][t] = 0
    /\ p \in DOMAIN pages => events[p]["created"] = 1
    /\ events[p]["acked"] \in 0..1
    /\ events[p]["acked"] > 0 => pages[p].state = "acked"
    /\ \A a \in Ackers : Acking(a, p) => events[p]["acked"] = 0
    /\ \A a, b \in Ackers : Acking(a, p) /\ Acking(b, p) => a = b
    /\ events[p]["delivered"] \in 0..1
    /\ events[p]["delivered"] > 0 => pages[p].state \notin ReceiptFrom
    /\ \A r \in Receivers : Delivering(r, p) => events[p]["delivered"] = 0
    /\ \A q, r \in Receivers : Delivering(q, p) /\ Delivering(r, p) => q = r
    /\ events[p]["push_attempt"] > 0 => pages[p].state # "created"

TimelineInv == \A p \in PageIds : TimelineOf(p)

------------------------------------------------------------------------------
(* What the numbering of attempts rests on *)

\* No two invocations are past the guard of main.go:142 for one page: the case that
\* guard alone is enough for, since it does not reserve the attempt it lets through.
PushAlone ==
    \A v, w \in Workers :
        /\ inv[v].pc \in PastLoad /\ inv[w].pc \in PastLoad
        /\ PageOf(v) = PageOf(w)
        => v = w

\* Nor does one expire the page under the other.
NoOverlap ==
    \A v, w \in Workers :
        /\ inv[v].pc \in PastLoad \cup {"expire"} /\ inv[w].pc \in PastLoad \cup {"expire"}
        /\ PageOf(v) = PageOf(w)
        => v = w

\* While a page is active, an invocation past the guard is ahead of the attempt recorded,
\* and the attempts pushed are the recorded ones.
GuardInv ==
    /\ \A w \in Workers :
          LET p == PageOf(w)
          IN  inv[w].pc \in PastLoad /\ pages[p].state \in ActiveStates =>
                  /\ inv[w].pc \notin Recorded => AttemptOf(w) > pages[p].attempt
                  /\ inv[w].pc = "attemptEvent" =>
                         events[p]["push_attempt"] <= pages[p].attempt
    /\ \A p \in DOMAIN pages : pages[p].state \in ActiveStates =>
          events[p]["push_attempt"] <= pages[p].attempt + 1

\* One attempt more is pushed when the page settles under the push.
SettledInv ==
    /\ \A w \in Workers :
          LET p == PageOf(w)
          IN  /\ inv[w].pc = "expire" => inv[w].attempt = pages[p].attempt
              /\ inv[w].pc \in PastLoad \ {"enqueue"} =>
                     events[p]["push_attempt"] <= pages[p].attempt + 1
    /\ \A p \in DOMAIN pages : events[p]["push_attempt"] <= pages[p].attempt + 2

\* An attempt of p that the guard will let through, or that is past the record.
Fresh(m, p)     == queue[m].page = p /\ queue[m].attempt > pages[p].attempt
Recording(w, p) == inv[w].pc \in Recorded /\ PageOf(w) = p

\* Where SQS delivers nothing twice, an active page has one such attempt at most.
OneTaskOf(p) ==
    /\ \A l, m \in DOMAIN queue : Fresh(l, p) /\ Fresh(m, p) => l = m
    /\ \A m \in DOMAIN queue, w \in Workers : ~ (Fresh(m, p) /\ Recording(w, p))
    /\ creates[p] = "enqueue" => /\ \A m \in DOMAIN queue : ~Fresh(m, p)
                                 /\ \A w \in Workers : ~Recording(w, p)

OneTask == \A p \in DOMAIN pages : pages[p].state \in ActiveStates => OneTaskOf(p)

==============================================================================
