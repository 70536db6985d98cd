-------------------------- MODULE AlertMeTypeProofs --------------------------
(* Type correctness of the paging core, with the invariants about who holds   *)
(* which message and which requests name existing pages that it rests on.     *)
EXTENDS AlertMeInv, TLAPS

USE DEF vars, tableVars, queueVars, pagerVars, apiVars

------------------------------------------------------------------------------
(* The writes of the table *)

\* A conditional update leaves a well-typed table and creates no page.
LEMMA SetPageStateType ==
    ASSUME TableType, NEW p \in DOMAIN pages, NEW to \in PageState, NEW n \in Int,
           SetPageState(p, to, n), UNCHANGED <<idem, replica, events, left>>
    PROVE  TableType' /\ DOMAIN pages' = DOMAIN pages
BY DEF TableType, SetPageState, PageRec, Attempts

\* AckPage likewise.
LEMMA AckPageType ==
    ASSUME TableType, NEW p \in DOMAIN pages, NEW a \in Ackers,
           AckPage(p, a), UNCHANGED <<idem, replica, events, left>>
    PROVE  TableType' /\ DOMAIN pages' = DOMAIN pages
BY DEF TableType, AckPage, PageRec, Attempts, PageState

\* An event that is appended, or lost, leaves a well-typed table.
LEMMA AppendEventType ==
    ASSUME TableType, NEW p \in PageIds, NEW t \in EventTypes,
           AppendEvent(p, t), UNCHANGED <<pages, idem, replica, left>>
    PROVE  TableType'
BY DEF TableType, AppendEvent

\* CreatePage adds one page, under its key.
LEMMA CreatePageType ==
    ASSUME TableType, NEW p \in PageIds, Creatable(p), CreatePage(p),
           UNCHANGED <<replica, left>>
    PROVE  /\ TableType'
           /\ DOMAIN pages' = DOMAIN pages \cup {p}
           /\ DOMAIN idem' = DOMAIN idem \cup {Key[p]}
           /\ idem'[Key[p]] = p
           /\ \A k \in DOMAIN idem : idem'[k] = idem[k]
<1>1. Key[p] \in Keys
  BY TableAssumption
<1>2. DOMAIN pages' = DOMAIN pages \cup {p} /\ DOMAIN idem' = DOMAIN idem \cup {Key[p]}
  BY DEF CreatePage, Put
<1>3. \A k \in DOMAIN idem' : idem'[k] = IF k = Key[p] THEN p ELSE idem[k]
  BY DEF CreatePage, Put
<1>4. \A q \in DOMAIN pages' : pages'[q] \in PageRec
  BY DEF TableType, CreatePage, Put, Page, PageRec, Attempts, PageState
<1>5. events' \in [PageIds -> [EventTypes -> Nat]]
  BY DEF TableType, CreatePage, EventTypes
<1> QED
  BY <1>1, <1>2, <1>3, <1>4, <1>5 DEF TableType, Creatable

------------------------------------------------------------------------------
(* The operations of the queue *)

\* What a message is about never changes.
SameTask(m) == queue'[m].page = queue[m].page /\ queue'[m].attempt = queue[m].attempt

\* Enqueue puts one new message into a free slot.
LEMMA EnqueueType ==
    ASSUME QueueType, NEW p \in PageIds, NEW n \in Nat, NEW d \in Nat, Enqueue(p, n, d)
    PROVE  /\ QueueType'
           /\ UNCHANGED dlq
           /\ \E c \in MsgIds \ DOMAIN queue :
                 /\ DOMAIN queue' = DOMAIN queue \cup {c}
                 /\ queue'[c] = Message(p, n, d)
                 /\ \A m \in DOMAIN queue : queue'[m] = queue[m]
<1> DEFINE c == CHOOSE x \in FreeSlots : TRUE
<1>1. c \in FreeSlots
  BY DEF Enqueue
<1>2. /\ DOMAIN queue' = DOMAIN queue \cup {c}
      /\ \A x \in DOMAIN queue' : queue'[x] = IF x = c THEN Message(p, n, d) ELSE queue[x]
  BY DEF Enqueue
<1>3. Message(p, n, d) \in MessageRec
  BY DEF Message, MessageRec
<1> HIDE DEF c
<1> QED
  BY <1>1, <1>2, <1>3 DEF QueueType, FreeSlots, Enqueue

\* Duplicate puts a copy of a message, held by nobody, into a free slot.
LEMMA DuplicateType ==
    ASSUME QueueType, NEW s \in MsgIds, Duplicate(s)
    PROVE  /\ QueueType'
           /\ s \in DOMAIN queue
           /\ queue[s].wait = 0
           /\ UNCHANGED dlq
           /\ \E c \in MsgIds \ DOMAIN queue :
                 /\ DOMAIN queue' = DOMAIN queue \cup {c}
                 /\ queue'[c] = [queue[s] EXCEPT !.status = "visible"]
                 /\ \A m \in DOMAIN queue : queue'[m] = queue[m]
<1> DEFINE c == CHOOSE x \in FreeSlots : TRUE
<1>1. c \in FreeSlots
  BY DEF Duplicate
<1>2. /\ DOMAIN queue' = DOMAIN queue \cup {c}
      /\ \A x \in DOMAIN queue' :
            queue'[x] = IF x = c THEN [queue[s] EXCEPT !.status = "visible"] ELSE queue[x]
  BY DEF Duplicate
<1>3. [queue[s] EXCEPT !.status = "visible"] \in MessageRec
  BY DEF Duplicate, QueueType, MessageRec
<1> HIDE DEF c
<1> QED
  BY <1>1, <1>2, <1>3, QueueAssumption DEF QueueType, FreeSlots, Duplicate

\* Take marks the batch as held, and changes nothing else that matters.
LEMMA TakeType ==
    ASSUME QueueType, NEW batch \in SUBSET Visible, Take(batch)
    PROVE  /\ QueueType'
           /\ UNCHANGED dlq
           /\ DOMAIN queue' = DOMAIN queue
           /\ \A m \in DOMAIN queue :
                 /\ SameTask(m)
                 /\ queue'[m].wait = queue[m].wait
                 /\ queue'[m].status = IF m \in batch THEN "held" ELSE queue[m].status
<1>1. DOMAIN queue' = DOMAIN queue
  BY DEF Take
<1>2. ASSUME NEW m \in DOMAIN queue
      PROVE  /\ queue'[m] \in MessageRec
             /\ SameTask(m)
             /\ queue'[m].wait = queue[m].wait
             /\ queue'[m].status = IF m \in batch THEN "held" ELSE queue[m].status
  <2>1. queue[m] \in MessageRec
    BY DEF QueueType
  <2>2. CASE m \in batch
    <3>1. queue'[m] = [queue[m] EXCEPT !.status = "held", !.receives = queue[m].receives + 1]
      BY <2>2 DEF Take
    <3>2. queue'[m] \in MessageRec
      <4> DEFINE n == queue[m].receives + 1
      <4>1. n \in Nat
        BY <2>1 DEF MessageRec
      <4>2. queue'[m] = [queue[m] EXCEPT !.status = "held", !.receives = n]
        BY <3>1
      <4> HIDE DEF n
      <4> QED
        BY <2>1, <4>1, <4>2 DEF MessageRec
    <3>3. SameTask(m) /\ queue'[m].wait = queue[m].wait /\ queue'[m].status = "held"
      BY <2>1, <3>1 DEF MessageRec, SameTask
    <3> QED
      BY <2>2, <3>2, <3>3
  <2>3. CASE m \notin batch
    <3>1. queue'[m] = queue[m]
      BY <2>3 DEF Take
    <3> QED
      BY <2>1, <2>3, <3>1 DEF SameTask
  <2> QED
    BY <2>2, <2>3
<1> QED
  BY <1>1, <1>2 DEF QueueType, Take

\* Settle deletes what is done, releases what failed, or moves it to the dead-letter
\* queue.
LEMMA SettleType ==
    ASSUME QueueType, NEW done, NEW failed \in SUBSET DOMAIN queue, Settle(done, failed)
    PROVE  /\ QueueType'
           /\ DOMAIN queue' = DOMAIN queue \ (done \cup Dead(failed))
           /\ dlq' = dlq \cup {Task(queue[m].page, queue[m].attempt) : m \in Dead(failed)}
           /\ \A m \in DOMAIN queue' :
                 /\ SameTask(m)
                 /\ queue'[m].wait = queue[m].wait
                 /\ queue'[m].status = IF m \in failed THEN "visible" ELSE queue[m].status
<1>1. DOMAIN queue' = DOMAIN queue \ (done \cup Dead(failed))
  BY DEF Settle
<1>2. ASSUME NEW m \in DOMAIN queue'
      PROVE  /\ queue'[m] \in MessageRec
             /\ SameTask(m)
             /\ queue'[m].wait = queue[m].wait
             /\ queue'[m].status = IF m \in failed THEN "visible" ELSE queue[m].status
  <2>1. queue'[m] = IF m \in failed THEN [queue[m] EXCEPT !.status = "visible"] ELSE queue[m]
    BY <1>1 DEF Settle
  <2> QED
    BY <1>1, <2>1 DEF QueueType, MessageRec, SameTask
<1>3. dlq' = dlq \cup {Task(queue[m].page, queue[m].attempt) : m \in Dead(failed)}
  BY DEF Settle
<1>4. ASSUME NEW m \in Dead(failed)
      PROVE  Task(queue[m].page, queue[m].attempt) \in [page : PageIds, attempt : Nat]
  BY DEF Dead, QueueType, MessageRec, Task
<1>5. dlq' \subseteq [page : PageIds, attempt : Nat]
  BY <1>3, <1>4 DEF QueueType
<1> QED
  BY <1>1, <1>2, <1>3, <1>5 DEF QueueType, Settle

\* The delay timers change nothing but the time to wait.
LEMMA DelayTickType ==
    ASSUME QueueType, DelayTick, UNCHANGED <<dlq, dups>>
    PROVE  /\ QueueType'
           /\ DOMAIN queue' = DOMAIN queue
           /\ \A m \in DOMAIN queue :
                 /\ SameTask(m)
                 /\ queue'[m].status = queue[m].status
                 /\ queue'[m].wait = IF queue[m].wait > 0 THEN queue[m].wait - 1 ELSE 0
<1>1. DOMAIN queue' = DOMAIN queue
  BY DEF DelayTick
<1>2. ASSUME NEW m \in DOMAIN queue
      PROVE  /\ queue'[m] \in MessageRec
             /\ SameTask(m)
             /\ queue'[m].status = queue[m].status
             /\ queue'[m].wait = IF queue[m].wait > 0 THEN queue[m].wait - 1 ELSE 0
  <2>1. CASE queue[m].wait > 0
    BY <2>1 DEF DelayTick, QueueType, MessageRec, SameTask
  <2>2. CASE ~(queue[m].wait > 0)
    BY <2>2 DEF DelayTick, QueueType, MessageRec, SameTask
  <2> QED
    BY <2>1, <2>2
<1> QED
  BY <1>1, <1>2 DEF QueueType

------------------------------------------------------------------------------
(* The steps of an invocation *)

\* The step is one of worker w alone.
StepOf(w) == \A v \in Workers \ {w} : inv'[v] = inv[v]

\* An environment that runs nothing is well typed, and holds nothing.
LEMMA IdleType == Idle \in Invocation /\ WellFormed(Idle)
BY DEF Idle, Invocation, WellFormed, HandlingPc, PagerPc, Attempts

\* Returning from handleRecord moves the record at hand to ok or failed.
LEMMA ReturnType ==
    ASSUME PagerType, HoldInv, NEW w \in Workers, inv[w].pc \in HandlingPc,
           ReturnNil(w) \/ ReturnError(w)
    PROVE  /\ inv' \in [Workers -> Invocation]
           /\ StepOf(w)
           /\ inv'[w].pc = "next"
           /\ WellFormed(inv'[w])
           /\ HeldBy(w)' = HeldBy(w)
<1>1. inv[w] \in Invocation /\ inv[w].msg \in MsgIds
  BY DEF PagerType, HoldInv, WellFormed
<1>2. /\ inv[w].rest \in SUBSET MsgIds
      /\ inv[w].ok \in SUBSET MsgIds
      /\ inv[w].failed \in SUBSET MsgIds
  BY <1>1 DEF Invocation
<1>3. inv[w].msg # None
  BY <1>1, PagerAssumption
<1>4. CASE ReturnNil(w)
  <2>1. inv'[w] = [pc |-> "next", rest |-> inv[w].rest, msg |-> None,
                   ok |-> inv[w].ok \cup {inv[w].msg}, failed |-> inv[w].failed,
                   attempt |-> -1, left |-> 0, trial |-> 1, todo |-> {}, gone |-> None]
    BY <1>4 DEF ReturnNil, Between, Idle, PagerType
  <2>2. inv'[w] \in Invocation /\ WellFormed(inv'[w])
    BY <1>1, <1>2, <2>1 DEF Invocation, WellFormed, HandlingPc, PagerPc, Attempts
  <2>3. HeldBy(w)' = HeldBy(w)
    BY <1>3, <2>1 DEF HeldBy
  <2> QED
    BY <1>4, <2>1, <2>2, <2>3 DEF ReturnNil, StepOf, PagerType
<1>5. CASE ReturnError(w)
  <2>1. inv'[w] = [pc |-> "next", rest |-> inv[w].rest, msg |-> None,
                   ok |-> inv[w].ok, failed |-> inv[w].failed \cup {inv[w].msg},
                   attempt |-> -1, left |-> 0, trial |-> 1, todo |-> {}, gone |-> None]
    BY <1>5 DEF ReturnError, Between, Idle, PagerType
  <2>2. inv'[w] \in Invocation /\ WellFormed(inv'[w])
    BY <1>1, <1>2, <2>1 DEF Invocation, WellFormed, HandlingPc, PagerPc, Attempts
  <2>3. HeldBy(w)' = HeldBy(w)
    BY <1>3, <2>1 DEF HeldBy
  <2> QED
    BY <1>5, <2>1, <2>2, <2>3 DEF ReturnError, StepOf, PagerType
<1> QED
  BY <1>4, <1>5

\* The record at hand is a message of the queue, about a page that exists.
LEMMA RecordAtHand ==
    ASSUME TypeInv, NEW w \in Workers, inv[w].pc \in HandlingPc
    PROVE  /\ inv[w].msg \in MsgIds /\ inv[w].msg \in DOMAIN queue
           /\ queue[inv[w].msg].status = "held"
           /\ PageOf(w) \in DOMAIN pages
           /\ PageOf(w) \in PageIds
           /\ AttemptOf(w) \in Nat
<1>1. inv[w].msg \in MsgIds
  BY DEF TypeInv, HoldInv, WellFormed
<1>2. inv[w].msg \in HeldBy(w)
  BY <1>1, PagerAssumption DEF HeldBy
<1>3. inv[w].msg \in DOMAIN queue /\ queue[inv[w].msg].status = "held"
  BY <1>2 DEF TypeInv, HoldInv
<1> QED
  BY <1>1, <1>3 DEF TypeInv, TypeOK, QueueType, TableType, RequestInv, MessageRec, PageOf, AttemptOf

\* The steps of handleRecord that go on to another call.
GoesOn(w) ==
    \/ LoadExpired(w) \/ LoadDue(w) \/ Expire(w) \/ ListDevices(w) \/ NoDevices(w)
    \/ GetSender(w) \/ (\E d \in Devices : Send(w, d) \/ SendGone(w, d)) \/ Prune(w)
    \/ RecordWins(w) \/ RecordConflict(w) \/ AttemptEvent(w)

\* They keep the batch and the record at hand.
LEMMA GoesOnType ==
    ASSUME TypeInv, NEW w \in Workers, GoesOn(w)
    PROVE  /\ PagerType'
           /\ StepOf(w)
           /\ inv[w].pc \in HandlingPc /\ inv'[w].pc \in HandlingPc
           /\ inv'[w].msg = inv[w].msg
           /\ inv'[w].ok = inv[w].ok
           /\ WellFormed(inv'[w])
           /\ HeldBy(w)' = HeldBy(w)
<1> USE DEF PagerType, StepOf, HandlingPc, PagerPc
<1>1. inv \in [Workers -> Invocation] /\ inv[w] \in Invocation /\ WellFormed(inv[w])
  BY DEF TypeInv, TypeOK, HoldInv
<1> DEFINE Goal == /\ inv'[w] \in Invocation
                   /\ StepOf(w) /\ inv' \in [Workers -> Invocation]
                   /\ sender' \in [Workers -> {"unset", "ready", "failed"}]
                   /\ devices' \subseteq Devices /\ valid' \subseteq Devices
                   /\ inv[w].pc \in HandlingPc /\ inv'[w].pc \in HandlingPc
                   /\ inv'[w].rest = inv[w].rest /\ inv'[w].msg = inv[w].msg
                   /\ inv'[w].ok = inv[w].ok /\ inv'[w].failed = inv[w].failed
<1>2. SUFFICES Goal
  BY <1>1 DEF WellFormed, HeldBy
<1>3. PagerType /\ TableType /\ QueueType
  BY DEF TypeInv, TypeOK
<1>4. CASE LoadExpired(w)
  <2>1. PICK copy \in Copies :
           /\ PageOf(w) \in DOMAIN copy
           /\ inv' = [inv EXCEPT ![w].pc = "expire", ![w].attempt = copy[PageOf(w)].attempt]
    BY <1>4 DEF LoadExpired, NeedsNag
  <2>2. copy[PageOf(w)].attempt \in Int
    BY <1>3, <2>1 DEF Copies, TableType, PageRec, Attempts
  <2> QED
    BY <1>1, <1>3, <1>4, <2>1, <2>2 DEF LoadExpired, Invocation, Attempts
<1>5. CASE LoadDue(w)
  <2>1. inv' = [inv EXCEPT ![w].pc = "list", ![w].left = left[PageOf(w)]]
    BY <1>5 DEF LoadDue
  <2>2. ~After(left[PageOf(w)])
    BY <1>5 DEF LoadDue
  <2>3. left[PageOf(w)] \in Nat
    <3>1. PageOf(w) \in PageIds
      BY <1>5, RecordAtHand DEF LoadDue
    <3>2. left[PageOf(w)] \in -1..Expiry
      BY <1>3, <3>1 DEF TableType
    <3> QED
      BY <2>2, <3>2, ScheduleAssumption DEF After
  <2> DEFINE ticks == left[PageOf(w)]
  <2>4. inv' = [inv EXCEPT ![w].pc = "list", ![w].left = ticks] /\ ticks \in Nat
    BY <2>1, <2>3
  <2>5. inv[w].pc = "load" /\ UNCHANGED <<sender, devices, valid>>
    BY <1>5 DEF LoadDue
  <2> HIDE DEF ticks
  <2> QED
    BY <1>1, <1>3, <2>4, <2>5 DEF Invocation
<1>6. CASE Expire(w) \/ NoDevices(w) \/ AttemptEvent(w)
  BY <1>1, <1>3, <1>6 DEF Expire, NoDevices, AttemptEvent, Goto, Invocation
<1>7. CASE ListDevices(w)
  BY <1>1, <1>3, <1>7 DEF ListDevices, Invocation
<1>8. CASE GetSender(w)
  BY <1>1, <1>3, <1>8 DEF GetSender, Goto, Invocation
<1>9. ASSUME NEW d \in Devices, Send(w, d) \/ SendGone(w, d)
      PROVE  Goal
  BY <1>1, <1>3, <1>9 DEF Send, SendGone, AfterSend, Invocation
<1>10. CASE Prune(w)
  BY <1>1, <1>3, <1>10 DEF Prune, AfterSend, Invocation
<1>11. CASE RecordWins(w)
  BY <1>1, <1>3, <1>11 DEF RecordWins, Goto, Invocation
<1>12. CASE RecordConflict(w)
  BY <1>1, <1>3, <1>12 DEF RecordConflict, RecordTransitions, Goto, Invocation
<1> QED
  BY <1>4, <1>5, <1>6, <1>7, <1>8, <1>9, <1>10, <1>11, <1>12 DEF GoesOn

------------------------------------------------------------------------------
(* Who holds what *)

\* A step of one worker that takes no message, and leaves in the queue, held, what
\* is still held, preserves HoldInv.
LEMMA HoldStep ==
    ASSUME HoldInv, NEW w \in Workers, StepOf(w), WellFormed(inv'[w]),
           HeldBy(w)' \subseteq HeldBy(w),
           \A m \in DOMAIN queue :
              queue[m].status = "held" /\ m \notin HeldBy(w) \ HeldBy(w)' =>
                 m \in DOMAIN queue' /\ queue'[m].status = "held"
    PROVE  HoldInv'
<1>1. \A v \in Workers \ {w} : HeldBy(v)' = HeldBy(v) /\ inv'[v] = inv[v]
  BY DEF StepOf, HeldBy
<1>2. ASSUME NEW v \in Workers, v # w
      PROVE  HeldBy(v) \cap (HeldBy(w) \ HeldBy(w)') = {}
  BY <1>2 DEF HoldInv
<1>3. ASSUME NEW v \in Workers, NEW m \in HeldBy(v)'
      PROVE  m \in DOMAIN queue' /\ queue'[m].status = "held"
  <2>1. CASE v = w
    BY <1>3, <2>1 DEF HoldInv
  <2>2. CASE v # w
    BY <1>1, <1>2, <1>3, <2>2 DEF HoldInv
  <2> QED
    BY <2>1, <2>2
<1>4. \A v \in Workers : WellFormed(inv'[v])
  BY <1>1 DEF HoldInv
<1>5. \A v, u \in Workers : v # u => HeldBy(v)' \cap HeldBy(u)' = {}
  BY <1>1 DEF HoldInv
<1> QED
  BY <1>3, <1>4, <1>5 DEF HoldInv

\* What no invocation has a part in: the queue grows, or waits.
LEMMA HoldIdle ==
    ASSUME HoldInv, inv' = inv,
           \A m \in DOMAIN queue : m \in DOMAIN queue' /\ queue'[m].status = queue[m].status
    PROVE  HoldInv'
BY DEF HoldInv, HeldBy

\* Receive takes messages nobody holds.
LEMMA ReceiveHold ==
    ASSUME TypeInv, NEW w \in Workers, Receive(w)
    PROVE  /\ QueueType' /\ PagerType' /\ HoldInv'
           /\ DOMAIN queue' = DOMAIN queue /\ UNCHANGED dlq
           /\ StepOf(w) /\ inv[w] = Idle
           /\ inv'[w].pc = "next" /\ inv'[w].ok = {} /\ inv'[w].msg = None
           /\ \A m \in DOMAIN queue : SameTask(m) /\ queue'[m].wait = queue[m].wait
           /\ \A m \in DOMAIN queue :
                 queue'[m].status = "held" => queue[m].status = "held" \/ queue[m].wait = 0
<1>1. PICK batch \in SUBSET Visible :
         Take(batch) /\ inv' = [inv EXCEPT ![w] = [Idle EXCEPT !.pc = "next", !.rest = batch]]
  BY DEF Receive
<1>2. /\ QueueType' /\ DOMAIN queue' = DOMAIN queue /\ UNCHANGED dlq
      /\ \A m \in DOMAIN queue :
            /\ SameTask(m) /\ queue'[m].wait = queue[m].wait
            /\ queue'[m].status = IF m \in batch THEN "held" ELSE queue[m].status
  BY <1>1, TakeType DEF TypeInv, TypeOK
<1>3. inv[w] = Idle /\ inv \in [Workers -> Invocation]
  BY DEF Receive, TypeInv, TypeOK, PagerType, HoldInv, WellFormed
<1>4. batch \subseteq DOMAIN queue /\ \A m \in batch : queue[m].status = "visible" /\ queue[m].wait = 0
  BY DEF Visible
<1>5. inv'[w] = [pc |-> "next", rest |-> batch, msg |-> None, ok |-> {}, failed |-> {},
                 attempt |-> -1, left |-> 0, trial |-> 1, todo |-> {}, gone |-> None]
  BY <1>1, <1>3 DEF Idle
<1>6. inv'[w] \in Invocation /\ WellFormed(inv'[w]) /\ HeldBy(w)' = batch
  BY <1>4, <1>5 DEF Invocation, WellFormed, HandlingPc, PagerPc, Attempts, HeldBy,
                    TypeInv, TypeOK, QueueType
<1>7. StepOf(w) /\ inv' \in [Workers -> Invocation]
  BY <1>1, <1>3, <1>6 DEF StepOf
<1>8. \A v \in Workers \ {w} : HeldBy(v)' = HeldBy(v) /\ inv'[v] = inv[v]
  BY <1>7 DEF StepOf, HeldBy
<1>9. \A v \in Workers \ {w} : HeldBy(v) \cap batch = {}
  BY <1>4 DEF TypeInv, HoldInv
<1>10. \A v \in Workers : \A m \in HeldBy(v)' : m \in DOMAIN queue' /\ queue'[m].status = "held"
  BY <1>2, <1>4, <1>6, <1>8 DEF TypeInv, HoldInv
<1>11. \A v, u \in Workers : v # u => HeldBy(v)' \cap HeldBy(u)' = {}
  BY <1>6, <1>8, <1>9 DEF TypeInv, HoldInv
<1>12. \A v \in Workers : WellFormed(inv'[v])
  BY <1>6, <1>8 DEF TypeInv, HoldInv
<1>13. HoldInv'
  BY <1>10, <1>11, <1>12 DEF HoldInv
<1>14. PagerType'
  BY <1>7 DEF Receive, PagerType, TypeInv, TypeOK
<1> QED
  BY <1>2, <1>3, <1>4, <1>5, <1>7, <1>13, <1>14

------------------------------------------------------------------------------
(* The steps of the pager preserve TypeInv *)

\* RequestInv is about which pages exist, and a pager neither creates nor deletes one.
LEMMA RequestKept ==
    ASSUME RequestInv, DOMAIN pages' = DOMAIN pages, UNCHANGED <<idem, creates>>,
           \A a \in Ackers : acks'[a].status # "new" => acks'[a].page \in PageIds,
           \A r \in Receivers :
              /\ receipts'[r].status # "new" => receipts'[r].page \in PageIds
              /\ receipts'[r].status = "set" => receipts'[r].page \in DOMAIN pages,
           \A m \in DOMAIN queue' : queue'[m].page \in DOMAIN pages
    PROVE  RequestInv'
BY DEF RequestInv

\* In particular a step that leaves the requests alone.
LEMMA RequestKeptByPager ==
    ASSUME RequestInv, DOMAIN pages' = DOMAIN pages, UNCHANGED <<idem, apiVars>>,
           \A m \in DOMAIN queue' : queue'[m].page \in DOMAIN pages
    PROVE  RequestInv'
BY RequestKept DEF RequestInv

\* What handleRecord writes to the table.
LEMMA PagerTableType ==
    ASSUME TypeInv, NEW w \in Workers, GoesOn(w) \/ ExpiredEvent(w)
    PROVE  TableType' /\ DOMAIN pages' = DOMAIN pages /\ UNCHANGED idem
<1>0. TableType /\ inv[w] \in Invocation
  BY DEF TypeInv, TypeOK, PagerType
<1>1. CASE UNCHANGED tableVars
  BY <1>0, <1>1 DEF TableType
<1>2. CASE Expire(w)
  <2>1. inv[w].attempt \in Int
    BY <1>0 DEF Invocation, Attempts
  <2>2. CASE StateIn(PageOf(w), ActiveStates)
    BY <1>0, <1>2, <2>1, <2>2, SetPageStateType DEF Expire, StateIn, PageState
  <2>3. CASE ~StateIn(PageOf(w), ActiveStates)
    BY <1>0, <1>2, <2>3 DEF Expire, TableType
  <2> QED
    BY <2>2, <2>3
<1>3. CASE RecordWins(w)
  <2>1. Transition(w).to \in PageState
    <3>1. inv[w].trial \in 1..3
      BY <1>0 DEF Invocation
    <3> QED
      BY <3>1 DEF Transition, RecordTransitions, PageState
  <2>2. AttemptOf(w) \in Int /\ inv[w].pc = "record"
    BY <1>3, RecordAtHand DEF RecordWins, HandlingPc, PagerPc
  <2> QED
    BY <1>0, <1>3, <2>1, <2>2, SetPageStateType DEF RecordWins, StateIn
<1>4. CASE NoDevices(w) \/ AttemptEvent(w) \/ ExpiredEvent(w)
  <2>1. PageOf(w) \in PageIds
    BY <1>4, RecordAtHand DEF NoDevices, AttemptEvent, ExpiredEvent, HandlingPc, PagerPc
  <2>2. "no_devices" \in EventTypes /\ "push_attempt" \in EventTypes /\ "expired" \in EventTypes
    BY DEF EventTypes
  <2> QED
    BY <1>0, <1>4, <2>1, <2>2, AppendEventType DEF NoDevices, AttemptEvent, ExpiredEvent
<1> QED
  BY <1>1, <1>2, <1>3, <1>4
  DEF GoesOn, LoadExpired, LoadDue, ListDevices, GetSender, Send, SendGone, Prune, RecordConflict

\* So they preserve TypeInv, and do not touch the queue.
LEMMA GoesOnStep ==
    ASSUME TypeInv, NEW w \in Workers, GoesOn(w), UNCHANGED apiVars
    PROVE  TypeInv' /\ UNCHANGED queueVars
<1>1. UNCHANGED queueVars
  BY DEF GoesOn, LoadExpired, LoadDue, Expire, ListDevices, NoDevices, GetSender, Send, SendGone,
         Prune, RecordWins, RecordConflict, AttemptEvent
<1>2. TableType' /\ DOMAIN pages' = DOMAIN pages /\ UNCHANGED idem
  BY PagerTableType
<1>3. PagerType' /\ StepOf(w) /\ WellFormed(inv'[w]) /\ HeldBy(w)' = HeldBy(w)
  BY GoesOnType
<1>4. HoldInv'
  BY <1>1, <1>3, HoldStep DEF TypeInv
<1>5. RequestInv'
  BY <1>1, <1>2, RequestKeptByPager DEF TypeInv, RequestInv
<1> QED
  BY <1>1, <1>2, <1>3, <1>4, <1>5 DEF TypeInv, TypeOK, QueueType, ApiType

\* The steps at which handleRecord returns without having enqueued a task.
Returns(w) ==
    \/ LoadDrop(w) \/ ExpiredEvent(w) \/ GetSenderFails(w) \/ Exhausted(w) \/ Fail(w)

\* So they preserve TypeInv, and do not touch the queue either.
LEMMA ReturnsStep ==
    ASSUME TypeInv, NEW w \in Workers, Returns(w), UNCHANGED apiVars
    PROVE  TypeInv' /\ UNCHANGED queueVars
<1>1. UNCHANGED queueVars
  BY DEF Returns, LoadDrop, ExpiredEvent, GetSenderFails, Exhausted, Fail
<1>2. inv[w].pc \in HandlingPc
  BY DEF Returns, LoadDrop, ExpiredEvent, GetSenderFails, Exhausted, Fail, HandlingPc, PagerPc
<1>3. ReturnNil(w) \/ ReturnError(w)
  BY DEF Returns, LoadDrop, ExpiredEvent, GetSenderFails, Exhausted, Fail
<1>4. /\ inv' \in [Workers -> Invocation] /\ StepOf(w)
      /\ WellFormed(inv'[w]) /\ HeldBy(w)' = HeldBy(w)
  BY <1>2, <1>3, ReturnType DEF TypeInv, TypeOK
<1>5. PagerType'
  BY <1>4 DEF Returns, LoadDrop, ExpiredEvent, GetSenderFails, Exhausted, Fail,
              PagerType, TypeInv, TypeOK
<1>6. TableType' /\ DOMAIN pages' = DOMAIN pages /\ UNCHANGED idem
  <2>1. CASE ExpiredEvent(w)
    BY <2>1, PagerTableType
  <2>2. CASE UNCHANGED tableVars
    BY <2>2 DEF TypeInv, TypeOK, TableType
  <2> QED
    BY <2>1, <2>2 DEF Returns, LoadDrop, GetSenderFails, Exhausted, Fail
<1>7. HoldInv'
  BY <1>1, <1>4, HoldStep DEF TypeInv
<1>8. RequestInv'
  BY <1>1, <1>6, RequestKeptByPager DEF TypeInv, RequestInv
<1> QED
  BY <1>1, <1>5, <1>6, <1>7, <1>8 DEF TypeInv, TypeOK, QueueType, ApiType

\* NextRecord picks the record to handle.
LEMMA NextRecordStep ==
    ASSUME TypeInv, NEW w \in Workers, NextRecord(w), UNCHANGED apiVars
    PROVE  /\ TypeInv' /\ StepOf(w)
           /\ inv'[w].pc = "load" /\ inv'[w].ok = inv[w].ok
<1>1. PICK m \in inv[w].rest :
         inv' = [inv EXCEPT ![w].pc = "load", ![w].msg = m, ![w].rest = @ \ {m}]
  BY DEF NextRecord
<1>2. inv \in [Workers -> Invocation] /\ inv[w] \in Invocation /\ inv[w].pc = "next"
  BY DEF NextRecord, TypeInv, TypeOK, PagerType
<1>3. inv[w].rest \subseteq MsgIds /\ m \in MsgIds /\ m # None /\ inv[w].msg = None
  BY <1>2, PagerAssumption DEF Invocation, TypeInv, HoldInv, WellFormed, HandlingPc
<1> DEFINE rest == inv[w].rest \ {m}
<1>4. /\ inv' = [inv EXCEPT ![w] = [inv[w] EXCEPT !.pc = "load", !.msg = m, !.rest = rest]]
      /\ rest \subseteq MsgIds
  BY <1>1, <1>2, <1>3
<1>5. /\ inv'[w] = [inv[w] EXCEPT !.pc = "load", !.msg = m, !.rest = rest]
      /\ StepOf(w)
  BY <1>2, <1>4 DEF StepOf
<1>6. inv'[w].rest = rest /\ inv'[w].msg = m /\ inv'[w].pc = "load"
      /\ inv'[w].ok = inv[w].ok /\ inv'[w].failed = inv[w].failed
  BY <1>2, <1>5 DEF Invocation
<1>7. HeldBy(w)' = HeldBy(w)
  BY <1>3, <1>6 DEF HeldBy
<1> HIDE DEF rest
<1>8. inv'[w] \in Invocation
  BY <1>2, <1>3, <1>4, <1>5 DEF Invocation, PagerPc
<1>9. WellFormed(inv'[w]) /\ inv' \in [Workers -> Invocation]
  BY <1>2, <1>3, <1>4, <1>6, <1>8 DEF WellFormed, HandlingPc, PagerPc
<1>10. HoldInv'
  BY <1>5, <1>7, <1>9, HoldStep DEF NextRecord, TypeInv
<1>11. RequestInv'
  BY RequestKeptByPager DEF NextRecord, TypeInv, RequestInv
<1> QED
  BY <1>5, <1>6, <1>9, <1>10, <1>11
  DEF NextRecord, TypeInv, TypeOK, TableType, QueueType, PagerType, ApiType

\* The end of a batch, and a crash, settle what the invocation held.
LEMMA SettleStep ==
    ASSUME TypeInv, NEW w \in Workers,
           NEW done \in SUBSET HeldBy(w), NEW failed \in SUBSET HeldBy(w),
           Settle(done, failed), HeldBy(w) \subseteq done \cup failed,
           inv' = [inv EXCEPT ![w] = Idle],
           sender' \in [Workers -> {"unset", "ready", "failed"}],
           UNCHANGED <<tableVars, devices, valid, apiVars>>
    PROVE  TypeInv' /\ StepOf(w) /\ inv'[w] = Idle
<1>1. HeldBy(w) \subseteq DOMAIN queue
  BY DEF TypeInv, HoldInv
<1>2. /\ QueueType'
      /\ DOMAIN queue' = DOMAIN queue \ (done \cup Dead(failed))
      /\ \A m \in DOMAIN queue' :
            SameTask(m) /\ queue'[m].status = IF m \in failed THEN "visible" ELSE queue[m].status
  <2>1. failed \in SUBSET DOMAIN queue
    BY <1>1
  <2> QED
    BY <2>1, SettleType DEF TypeInv, TypeOK
<1>3. inv' \in [Workers -> Invocation] /\ StepOf(w) /\ inv'[w] = Idle
  BY IdleType DEF TypeInv, TypeOK, PagerType, StepOf
<1>4. WellFormed(inv'[w]) /\ HeldBy(w)' = {}
  BY <1>3, IdleType DEF HeldBy, Idle
<1>5. Dead(failed) \subseteq failed
  BY DEF Dead
<1>6. HoldInv'
  BY <1>2, <1>3, <1>4, <1>5, HoldStep DEF TypeInv
<1>7. RequestInv'
  <2>1. \A m \in DOMAIN queue' : queue'[m].page \in DOMAIN pages
    BY <1>2 DEF SameTask, TypeInv, RequestInv
  <2> QED
    BY <2>1, RequestKeptByPager DEF TypeInv
<1> QED
  BY <1>2, <1>3, <1>6, <1>7 DEF TypeInv, TypeOK, TableType, PagerType, ApiType

\* At the end of a batch everything the invocation took was handled.
LEMMA EndBatchStep ==
    ASSUME TypeInv, NEW w \in Workers, EndBatch(w), UNCHANGED apiVars
    PROVE  TypeInv' /\ StepOf(w) /\ inv'[w] = Idle
<1>1. HeldBy(w) = inv[w].ok \cup inv[w].failed
  BY DEF EndBatch, HeldBy, TypeInv, HoldInv, WellFormed, HandlingPc
<1> QED
  BY <1>1, SettleStep DEF EndBatch, TypeInv, TypeOK, PagerType

\* A dying invocation gives back everything it took.
LEMMA CrashStep ==
    ASSUME TypeInv, NEW w \in Workers, Crash(w), UNCHANGED apiVars
    PROVE  TypeInv' /\ StepOf(w) /\ inv'[w] = Idle
<1>1. sender' \in [Workers -> {"unset", "ready", "failed"}]
  BY DEF Crash, TypeInv, TypeOK, PagerType
<1>2. Settle({}, HeldBy(w)) /\ inv' = [inv EXCEPT ![w] = Idle]
      /\ UNCHANGED <<tableVars, devices, valid, apiVars>>
  BY DEF Crash
<1> DEFINE done == {}
           failed == HeldBy(w)
<1>3. /\ done \in SUBSET HeldBy(w) /\ failed \in SUBSET HeldBy(w)
      /\ HeldBy(w) \subseteq done \cup failed
      /\ Settle(done, failed)
  BY <1>2
<1> HIDE DEF done, failed
<1> QED
  BY <1>1, <1>2, <1>3, SettleStep

\* The final delay is a number of ticks.
LEMMA FinalDelaysType ==
    ASSUME TypeInv, NEW w \in Workers, Before(inv[w].left), NEW d \in FinalDelays(w)
    PROVE  d \in Nat /\ d <= inv[w].left /\ d >= 0
<1>1. inv[w].left \in Nat
  BY DEF TypeInv, TypeOK, PagerType, Invocation
<1>2. d \in {inv[w].left, MaxFinalDelay, inv[w].left - 1}
      /\ (d = MaxFinalDelay => d <= inv[w].left)
  BY <1>1, ScheduleAssumption DEF FinalDelays
<1> QED
  BY <1>1, <1>2, ScheduleAssumption DEF Before

\* EnqueueNext and EnqueueFinal add the next task and return.
LEMMA EnqueueStep ==
    ASSUME TypeInv, NEW w \in Workers, EnqueueNext(w) \/ EnqueueFinal(w), UNCHANGED apiVars
    PROVE  /\ TypeInv' /\ StepOf(w) /\ UNCHANGED <<tableVars, dlq>>
           /\ ReturnNil(w)
           /\ \E c \in MsgIds \ DOMAIN queue, d \in Nat :
                 /\ \/ HasDelay(AttemptOf(w) + 1) /\ d = NextDelay(AttemptOf(w) + 1)
                    \/ ~HasDelay(AttemptOf(w) + 1)
                 /\ DOMAIN queue' = DOMAIN queue \cup {c}
                 /\ queue'[c] = Message(PageOf(w), AttemptOf(w) + 1, d)
                 /\ \A m \in DOMAIN queue : queue'[m] = queue[m]
<1>1. inv[w].pc = "enqueue" /\ inv[w].pc \in HandlingPc
  BY DEF EnqueueNext, EnqueueFinal, HandlingPc, PagerPc
<1>2. PageOf(w) \in PageIds /\ PageOf(w) \in DOMAIN pages /\ AttemptOf(w) \in Nat
  BY <1>1, RecordAtHand
<1>3. PICK d \in Nat :
         /\ Enqueue(PageOf(w), AttemptOf(w) + 1, d)
         /\ \/ HasDelay(AttemptOf(w) + 1) /\ d = NextDelay(AttemptOf(w) + 1)
            \/ ~HasDelay(AttemptOf(w) + 1)
  <2>1. CASE EnqueueNext(w)
    <3>1. AttemptOf(w) + 1 \in 1..Len(Delays)
      BY <1>2, <2>1, ScheduleAssumption DEF EnqueueNext, HasDelay
    <3>2. NextDelay(AttemptOf(w) + 1) \in Nat
      BY <3>1, ScheduleAssumption DEF NextDelay
    <3> QED
      BY <2>1, <3>2 DEF EnqueueNext
  <2>2. CASE EnqueueFinal(w)
    BY <2>2, FinalDelaysType DEF EnqueueFinal
  <2> QED
    BY <2>1, <2>2
<1>4. /\ QueueType' /\ UNCHANGED dlq
      /\ \E c \in MsgIds \ DOMAIN queue :
            /\ DOMAIN queue' = DOMAIN queue \cup {c}
            /\ queue'[c] = Message(PageOf(w), AttemptOf(w) + 1, d)
            /\ \A m \in DOMAIN queue : queue'[m] = queue[m]
  <2>1. AttemptOf(w) + 1 \in Nat
    BY <1>2
  <2> QED
    BY <1>2, <1>3, <2>1, EnqueueType DEF TypeInv, TypeOK
<1>5. ReturnNil(w) /\ UNCHANGED <<tableVars, sender, devices, valid>>
  BY DEF EnqueueNext, EnqueueFinal
<1>6. /\ inv' \in [Workers -> Invocation] /\ StepOf(w)
      /\ WellFormed(inv'[w]) /\ HeldBy(w)' = HeldBy(w)
  BY <1>1, <1>5, ReturnType DEF TypeInv, TypeOK
<1>7. HoldInv'
  BY <1>4, <1>6, HoldStep DEF TypeInv
<1>8. \A m \in DOMAIN queue' : queue'[m].page \in DOMAIN pages
  BY <1>2, <1>4 DEF Message, TypeInv, RequestInv
<1>9. RequestInv'
  BY <1>5, <1>8, RequestKeptByPager DEF TypeInv
<1> QED
  BY <1>3, <1>4, <1>5, <1>6, <1>7, <1>9 DEF TypeInv, TypeOK, TableType, PagerType, ApiType

\* Receive preserves TypeInv.
LEMMA ReceiveStep ==
    ASSUME TypeInv, NEW w \in Workers, Receive(w), UNCHANGED apiVars
    PROVE  TypeInv'
<1>1. /\ QueueType' /\ PagerType' /\ HoldInv' /\ DOMAIN queue' = DOMAIN queue
      /\ \A m \in DOMAIN queue : SameTask(m)
  BY ReceiveHold
<1>2. RequestInv'
  BY <1>1, RequestKeptByPager DEF Receive, SameTask, TypeInv, RequestInv
<1> QED
  BY <1>1, <1>2 DEF Receive, TypeInv, TypeOK, TableType, ApiType

\* HandleRecord, by what becomes of the record.
LEMMA HandleRecordCases ==
    ASSUME NEW w \in Workers, HandleRecord(w)
    PROVE  GoesOn(w) \/ Returns(w) \/ EnqueueNext(w) \/ EnqueueFinal(w)
BY DEF HandleRecord, GoesOn, Returns

\* Phones come and go without the page table, the queue or an invocation changing.
LEMMA DeviceStep ==
    ASSUME TypeInv, NEW d \in Devices, RegisterDevice(d) \/ TokenDies(d), UNCHANGED apiVars
    PROVE  TypeInv' /\ UNCHANGED <<tableVars, queueVars, inv>>
<1>1. UNCHANGED <<tableVars, queueVars, inv, sender, apiVars>>
  BY DEF RegisterDevice, TokenDies
<1>2. PagerType'
  BY DEF RegisterDevice, TokenDies, PagerType, TypeInv, TypeOK
<1>3. HoldInv'
  BY <1>1, HoldIdle DEF TypeInv
<1>4. RequestInv'
  BY <1>1, RequestKeptByPager DEF TypeInv, RequestInv
<1> QED
  BY <1>1, <1>2, <1>3, <1>4 DEF TypeInv, TypeOK, TableType, QueueType, ApiType

\* Every step of the pager preserves TypeInv.
LEMMA PagerNextStep ==
    ASSUME TypeInv, PagerNext, UNCHANGED apiVars
    PROVE  TypeInv'
<1>1. ASSUME NEW w \in Workers, Receive(w) \/ PagerStep(w) \/ Fail(w) \/ Crash(w)
      PROVE  TypeInv'
  BY <1>1, ReceiveStep, NextRecordStep, EndBatchStep, CrashStep, HandleRecordCases,
     GoesOnStep, ReturnsStep, EnqueueStep DEF PagerStep, Returns
<1> QED
  BY <1>1, DeviceStep DEF PagerNext

------------------------------------------------------------------------------
(* The steps of the API preserve TypeInv *)

\* CreatePage makes the page the tasks and requests to come will name.
LEMMA CreateNewStep ==
    ASSUME TypeInv, NEW p \in PageIds, CreateNew(p), UNCHANGED pagerVars
    PROVE  TypeInv'
<1>1. /\ TableType'
      /\ DOMAIN pages' = DOMAIN pages \cup {p}
      /\ DOMAIN idem' = DOMAIN idem \cup {Key[p]}
      /\ idem'[Key[p]] = p
      /\ \A k \in DOMAIN idem : idem'[k] = idem[k]
  BY CreatePageType DEF CreateNew, TypeInv, TypeOK
<1>2. Key[p] \notin DOMAIN idem /\ p \notin DOMAIN pages
  BY DEF CreateNew, Creatable
<1>3. creates' \in [PageIds -> CreateStatus]
      /\ \A q \in PageIds : creates'[q] = IF q = p THEN "enqueue" ELSE creates[q]
  BY DEF CreateNew, CreateReply, CreateStatus, TypeInv, TypeOK, ApiType
<1>4. UNCHANGED <<queueVars, pagerVars, acks, receipts>>
  BY DEF CreateNew
<1>5. RequestInv'
  <2>1. \A q \in PageIds : creates'[q] \in {"enqueue", "201", "500"} => q \in DOMAIN pages'
    BY <1>1, <1>3 DEF TypeInv, RequestInv
  <2>2. \A k \in DOMAIN idem' : idem'[k] \in DOMAIN pages' /\ Key[idem'[k]] = k
    BY <1>1 DEF TypeInv, RequestInv
  <2>3. \A q \in DOMAIN pages' : Key[q] \in DOMAIN idem' /\ idem'[Key[q]] = q
    BY <1>1, <1>2 DEF TypeInv, RequestInv
  <2>4. /\ \A m \in DOMAIN queue' : queue'[m].page \in DOMAIN pages'
        /\ \A a \in Ackers : acks'[a].status # "new" => acks'[a].page \in PageIds
        /\ \A r \in Receivers :
              /\ receipts'[r].status # "new" => receipts'[r].page \in PageIds
              /\ receipts'[r].status = "set" => receipts'[r].page \in DOMAIN pages'
    BY <1>1, <1>4 DEF TypeInv, RequestInv
  <2> QED
    BY <2>1, <2>2, <2>3, <2>4 DEF RequestInv
<1>6. HoldInv'
  BY <1>4, HoldIdle DEF TypeInv
<1> QED
  BY <1>1, <1>3, <1>4, <1>5, <1>6 DEF TypeInv, TypeOK, QueueType, PagerType, ApiType

\* The other steps of a create change its status, and may enqueue attempt 0.
LEMMA CreateStepType ==
    ASSUME TypeInv, NEW p \in PageIds, CreateStep(p), UNCHANGED pagerVars
    PROVE  /\ TypeInv' /\ UNCHANGED <<tableVars, pagerVars, acks, receipts, dlq>>
           /\ \A m \in DOMAIN queue : m \in DOMAIN queue' /\ queue'[m] = queue[m]
           /\ \A q \in PageIds : creates'[q] = "enqueue" => creates[q] = "enqueue"
           /\ \A q \in PageIds \ {p} : creates'[q] = creates[q]
           /\ \/ UNCHANGED queue /\ ~CreateEnqueue(p)
              \/ /\ CreateEnqueue(p)
                 /\ \E c \in MsgIds \ DOMAIN queue :
                       /\ DOMAIN queue' = DOMAIN queue \cup {c}
                       /\ queue'[c] = Message(p, 0, 0)
<1>1. UNCHANGED <<tableVars, pagerVars, acks, receipts>>
  BY DEF CreateStep, CreateConflict, CreateLookup, CreateEnqueue, CreateNotScheduled
<1>2. /\ creates' \in [PageIds -> CreateStatus]
      /\ \A q \in PageIds \ {p} : creates'[q] = creates[q]
      /\ creates'[p] # "enqueue"
      /\ creates'[p] \in {"201", "500"} => creates[p] = "enqueue"
  BY DEF CreateStep, CreateConflict, CreateLookup, CreateEnqueue, CreateNotScheduled, CreateReply,
         CreateStatus, TypeInv, TypeOK, ApiType
<1>3. CASE CreateEnqueue(p)
  <2>1. /\ QueueType' /\ UNCHANGED dlq
        /\ \E c \in MsgIds \ DOMAIN queue :
              /\ DOMAIN queue' = DOMAIN queue \cup {c}
              /\ queue'[c] = Message(p, 0, 0)
              /\ \A m \in DOMAIN queue : queue'[m] = queue[m]
    BY <1>3, EnqueueType DEF CreateEnqueue, TypeInv, TypeOK
  <2>2. p \in DOMAIN pages
    BY <1>3 DEF CreateEnqueue, TypeInv, RequestInv
  <2>3. \A m \in DOMAIN queue' : queue'[m].page \in DOMAIN pages
    BY <2>1, <2>2 DEF Message, TypeInv, RequestInv
  <2>4. RequestInv'
    BY <1>1, <1>2, <2>2, <2>3 DEF TypeInv, RequestInv
  <2>5. HoldInv'
    BY <1>1, <2>1, HoldIdle DEF TypeInv
  <2> QED
    BY <1>1, <1>2, <1>3, <2>1, <2>4, <2>5 DEF TypeInv, TypeOK, TableType, PagerType, ApiType
<1>4. CASE ~CreateEnqueue(p)
  <2>1. UNCHANGED queueVars
    BY <1>4 DEF CreateStep, CreateConflict, CreateLookup, CreateNotScheduled
  <2>2. RequestInv'
    BY <1>1, <1>2, <2>1 DEF TypeInv, RequestInv
  <2>3. HoldInv'
    BY <1>1, <2>1, HoldIdle DEF TypeInv
  <2> QED
    BY <1>1, <1>2, <1>4, <2>1, <2>2, <2>3
    DEF TypeInv, TypeOK, TableType, QueueType, PagerType, ApiType
<1> QED
  BY <1>3, <1>4

\* A step of an ack request.
AckNext(a) == AckRequest(a) \/ AckStep(a) \/ AckFails(a)

\* They preserve TypeInv, and touch neither queue nor pager.
LEMMA AckNextStep ==
    ASSUME TypeInv, NEW a \in Ackers, AckNext(a), UNCHANGED pagerVars
    PROVE  /\ TypeInv' /\ DOMAIN pages' = DOMAIN pages
           /\ UNCHANGED <<queueVars, pagerVars, creates, receipts>>
<1>1. UNCHANGED <<idem, replica, left, queueVars, pagerVars, creates, receipts>>
  BY DEF AckNext, AckRequest, AckStep, AckLoad, AckWrite, AckConflict, AckReread, AckEvent, AckFails
<1>2. acks \in [Ackers -> AckRec] /\ acks[a] \in AckRec
  BY DEF TypeInv, TypeOK, ApiType
<1>3. acks' \in [Ackers -> AckRec]
      /\ \A b \in Ackers : acks'[b].status # "new" => acks'[b].page \in PageIds
  <2>1. CASE AckRequest(a)
    <3>1. PICK p \in PageIds : acks' = [acks EXCEPT ![a] = [status |-> "load", page |-> p]]
      BY <2>1 DEF AckRequest
    <3> QED
      BY <1>2, <3>1 DEF AckRec, TypeInv, RequestInv
  <2>2. CASE ~AckRequest(a)
    <3>1. acks[a].status # "new"
      BY <2>2 DEF AckNext, AckStep, AckLoad, AckWrite, AckConflict, AckReread, AckEvent, AckFails
    <3>2. PICK status \in {"ack", "reread", "event", "200", "404", "409", "500"} :
             acks' = [acks EXCEPT ![a].status = status]
      BY <2>2 DEF AckNext, AckStep, AckLoad, AckWrite, AckConflict, AckReread, AckEvent, AckFails,
                  AckReply
    <3> QED
      BY <1>2, <3>1, <3>2 DEF AckRec, TypeInv, RequestInv
  <2> QED
    BY <2>1, <2>2
<1>4. TableType' /\ DOMAIN pages' = DOMAIN pages
  <2>1. CASE AckWrite(a)
    BY <2>1, AckPageType DEF AckWrite, Ackable, StateIn, TypeInv, TypeOK
  <2>2. CASE AckEvent(a)
    <3>1. acks[a].page \in PageIds /\ "acked" \in EventTypes
      BY <2>2 DEF AckEvent, TypeInv, RequestInv, EventTypes
    <3> QED
      BY <2>2, <3>1, AppendEventType DEF AckEvent, TypeInv, TypeOK
  <2>3. CASE UNCHANGED tableVars
    BY <2>3 DEF TypeInv, TypeOK, TableType
  <2> QED
    BY <2>1, <2>2, <2>3 DEF AckNext, AckRequest, AckStep, AckLoad, AckConflict, AckReread, AckFails
<1>5. RequestInv'
  BY <1>1, <1>3, <1>4, RequestKept DEF TypeInv, RequestInv
<1>6. HoldInv'
  BY <1>1, HoldIdle DEF TypeInv
<1> QED
  BY <1>1, <1>3, <1>4, <1>5, <1>6 DEF TypeInv, TypeOK, QueueType, PagerType, ApiType

\* A step of a delivered receipt.
ReceiptNext(r) == ReceiptRequest(r) \/ ReceiptStep(r) \/ ReceiptFails(r)

\* They preserve TypeInv, and touch neither queue nor pager.
LEMMA ReceiptNextStep ==
    ASSUME TypeInv, NEW r \in Receivers, ReceiptNext(r), UNCHANGED pagerVars
    PROVE  /\ TypeInv' /\ DOMAIN pages' = DOMAIN pages
           /\ UNCHANGED <<queueVars, pagerVars, creates, acks>>
<1>1. UNCHANGED <<idem, replica, left, queueVars, pagerVars, creates, acks>>
  BY DEF ReceiptNext, ReceiptRequest, ReceiptStep, ReceiptLoad, ReceiptWrite, ReceiptConflict,
         ReceiptEvent, ReceiptFails
<1>2. receipts \in [Receivers -> ReceiptRec] /\ receipts[r] \in ReceiptRec
  BY DEF TypeInv, TypeOK, ApiType
<1>3. /\ receipts' \in [Receivers -> ReceiptRec]
      /\ \A q \in Receivers :
            /\ receipts'[q].status # "new" => receipts'[q].page \in PageIds
            /\ receipts'[q].status = "set" => receipts'[q].page \in DOMAIN pages
  <2>1. CASE ReceiptRequest(r)
    <3>1. PICK p \in PageIds :
             receipts' = [receipts EXCEPT ![r] = [receipts[r] EXCEPT !.status = "load", !.page = p]]
      BY <1>2, <2>1 DEF ReceiptRequest
    <3>2. [receipts[r] EXCEPT !.status = "load", !.page = p] \in ReceiptRec
      BY <1>2 DEF ReceiptRec
    <3>3. receipts'[r].status = "load" /\ receipts'[r].page = p
      BY <1>2, <3>1 DEF ReceiptRec
    <3> QED
      BY <1>2, <3>1, <3>2, <3>3 DEF TypeInv, RequestInv
  <2>2. CASE ReceiptLoad(r)
    <3>1. PICK copy \in Copies :
             IF receipts[r].page \in DOMAIN copy
             THEN receipts' = [receipts EXCEPT ![r].status = "set",
                                  ![r].attempt = copy[receipts[r].page].attempt]
             ELSE ReceiptReply(r, "404")
      BY <2>2 DEF ReceiptLoad
    <3>2. CASE receipts[r].page \in DOMAIN copy
      <4> DEFINE n == copy[receipts[r].page].attempt
      <4>1. n \in Int /\ receipts[r].page \in DOMAIN pages
        BY <3>2 DEF Copies, TypeInv, TypeOK, TableType, PageRec, Attempts
      <4>2. receipts' =
               [receipts EXCEPT ![r] = [receipts[r] EXCEPT !.status = "set", !.attempt = n]]
        BY <1>2, <3>1, <3>2
      <4> HIDE DEF n
      <4>3. [receipts[r] EXCEPT !.status = "set", !.attempt = n] \in ReceiptRec
        BY <1>2, <4>1 DEF ReceiptRec, Attempts
      <4>4. receipts'[r].page = receipts[r].page
        BY <1>2, <4>2 DEF ReceiptRec
      <4>5. receipts[r].page \in PageIds
        BY <2>2 DEF ReceiptLoad, TypeInv, RequestInv
      <4> QED
        BY <1>2, <4>1, <4>2, <4>3, <4>4, <4>5 DEF TypeInv, RequestInv
    <3>3. CASE receipts[r].page \notin DOMAIN copy
      BY <1>2, <2>2, <3>1, <3>3 DEF ReceiptLoad, ReceiptReply, ReceiptRec, TypeInv, RequestInv
    <3> QED
      BY <3>2, <3>3
  <2>3. CASE ReceiptWrite(r) \/ ReceiptConflict(r) \/ ReceiptEvent(r) \/ ReceiptFails(r)
    <3>1. receipts[r].status # "new"
      BY <2>3 DEF ReceiptWrite, ReceiptConflict, ReceiptEvent, ReceiptFails
    <3>2. PICK status \in {"event", "204", "500"} :
             receipts' = [receipts EXCEPT ![r].status = status]
      BY <2>3 DEF ReceiptWrite, ReceiptConflict, ReceiptEvent, ReceiptFails, ReceiptReply
    <3> QED
      BY <1>2, <3>1, <3>2 DEF ReceiptRec, TypeInv, RequestInv
  <2> QED
    BY <2>1, <2>2, <2>3 DEF ReceiptNext, ReceiptStep
<1>4. TableType' /\ DOMAIN pages' = DOMAIN pages
  <2>1. CASE ReceiptWrite(r)
    <3>1. receipts[r].attempt \in Int /\ "delivered" \in PageState
      BY <1>2 DEF ReceiptRec, Attempts, PageState
    <3> QED
      BY <2>1, <3>1, SetPageStateType DEF ReceiptWrite, StateIn, TypeInv, TypeOK
  <2>2. CASE ReceiptEvent(r)
    <3>1. receipts[r].page \in PageIds /\ "delivered" \in EventTypes
      BY <2>2 DEF ReceiptEvent, TypeInv, RequestInv, EventTypes
    <3> QED
      BY <2>2, <3>1, AppendEventType DEF ReceiptEvent, TypeInv, TypeOK
  <2>3. CASE UNCHANGED tableVars
    BY <2>3 DEF TypeInv, TypeOK, TableType
  <2> QED
    BY <2>1, <2>2, <2>3
    DEF ReceiptNext, ReceiptRequest, ReceiptStep, ReceiptLoad, ReceiptConflict, ReceiptFails
<1>5. RequestInv'
  BY <1>1, <1>3, <1>4, RequestKept DEF TypeInv, RequestInv
<1>6. HoldInv'
  BY <1>1, HoldIdle DEF TypeInv
<1> QED
  BY <1>1, <1>3, <1>4, <1>5, <1>6 DEF TypeInv, TypeOK, QueueType, PagerType, ApiType

------------------------------------------------------------------------------
(* Type correctness *)

\* A duplicate delivered by SQS preserves TypeInv.
LEMMA DuplicateStep ==
    ASSUME TypeInv, NEW s \in MsgIds, Duplicate(s), UNCHANGED <<tableVars, pagerVars, apiVars>>
    PROVE  TypeInv'
<1>1. /\ QueueType' /\ s \in DOMAIN queue
      /\ \E c \in MsgIds \ DOMAIN queue :
            /\ DOMAIN queue' = DOMAIN queue \cup {c}
            /\ queue'[c] = [queue[s] EXCEPT !.status = "visible"]
            /\ \A m \in DOMAIN queue : queue'[m] = queue[m]
  BY DuplicateType DEF TypeInv, TypeOK
<1>2. queue[s] \in MessageRec
  BY <1>1 DEF TypeInv, TypeOK, QueueType
<1>3. \A m \in DOMAIN queue' : queue'[m].page \in DOMAIN pages
  BY <1>1, <1>2 DEF MessageRec, TypeInv, RequestInv
<1>4. RequestInv'
  BY <1>3, RequestKeptByPager DEF TypeInv
<1>5. HoldInv'
  BY <1>1, HoldIdle DEF TypeInv
<1> QED
  BY <1>1, <1>4, <1>5 DEF TypeInv, TypeOK, TableType, PagerType, ApiType

\* The lagging copy catching up preserves TypeInv.
LEMMA ReplicateStep ==
    ASSUME TypeInv, NEW p \in PageIds, Replicate(p), UNCHANGED <<queueVars, pagerVars, apiVars>>
    PROVE  TypeInv'
<1>1. TableType'
  BY DEF Replicate, Put, TypeInv, TypeOK, TableType
<1>2. HoldInv'
  BY HoldIdle DEF TypeInv
<1>3. RequestInv'
  BY RequestKeptByPager DEF Replicate, TypeInv, RequestInv
<1> QED
  BY <1>1, <1>2, <1>3 DEF TypeInv, TypeOK, QueueType, PagerType, ApiType

\* The passing of time preserves TypeInv.
LEMMA TickStep ==
    ASSUME TypeInv, Tick
    PROVE  TypeInv'
<1>1. /\ QueueType' /\ DOMAIN queue' = DOMAIN queue
      /\ \A m \in DOMAIN queue : SameTask(m) /\ queue'[m].status = queue[m].status
  BY DelayTickType DEF Tick, TypeInv, TypeOK
<1>2. left' \in [PageIds -> -1..Expiry]
  BY ScheduleAssumption DEF Tick, CountDown, TypeInv, TypeOK, TableType
<1>3. HoldInv'
  BY <1>1, HoldIdle DEF Tick, TypeInv
<1>4. RequestInv'
  BY <1>1, RequestKeptByPager DEF Tick, SameTask, TypeInv, RequestInv
<1> QED
  BY <1>1, <1>2, <1>3, <1>4 DEF Tick, TypeInv, TypeOK, TableType, PagerType, ApiType

\* Nothing changes when nothing happens.
LEMMA StutterStep ==
    ASSUME TypeInv, UNCHANGED vars
    PROVE  TypeInv'
<1>1. TableType' /\ QueueType' /\ PagerType' /\ ApiType'
  BY DEF TypeInv, TypeOK, TableType, QueueType, PagerType, ApiType
<1>2. HoldInv'
  BY HoldIdle DEF TypeInv
<1>3. RequestInv'
  BY RequestKeptByPager DEF TypeInv, RequestInv
<1> QED
  BY <1>1, <1>2, <1>3 DEF TypeInv, TypeOK

\* The API's part of Next, by the request that moves.
LEMMA ApiCases ==
    ASSUME ClientNext \/ ApiNext
    PROVE  \/ \E p \in PageIds : CreateNew(p) \/ CreateStep(p)
           \/ \E a \in Ackers : AckNext(a)
           \/ \E r \in Receivers : ReceiptNext(r)
BY DEF ClientNext, ApiNext, AckNext, ReceiptNext

\* TypeInv holds in the initial states.
LEMMA TypeInvInit == Init => TypeInv
<1> SUFFICES ASSUME Init PROVE TypeInv
  OBVIOUS
<1> USE DEF Init, TableInit, QueueInit, PagerInit, ApiInit
<1>1. TableType /\ QueueType
  BY ScheduleAssumption, QueueAssumption DEF TableType, QueueType, EventTypes
<1>2. PagerType
  BY IdleType DEF PagerType
<1>3. ApiType
  BY DEF ApiType, CreateStatus, AckRec, ReceiptRec, Attempts
<1>4. HoldInv
  BY IdleType DEF HoldInv, HeldBy, Idle
<1>5. RequestInv
  BY DEF RequestInv
<1> QED
  BY <1>1, <1>2, <1>3, <1>4, <1>5 DEF TypeInv, TypeOK

\* TypeInv is inductive.
LEMMA TypeInvStep == TypeInv /\ [Next]_vars => TypeInv'
<1> SUFFICES ASSUME TypeInv, [Next]_vars PROVE TypeInv'
  OBVIOUS
<1>1. CASE PagerNext /\ UNCHANGED apiVars
  BY <1>1, PagerNextStep
<1>2. CASE (ClientNext \/ ApiNext) /\ UNCHANGED pagerVars
  BY <1>2, ApiCases, CreateNewStep, CreateStepType, AckNextStep, ReceiptNextStep
<1>3. ASSUME NEW m \in MsgIds, Duplicate(m), UNCHANGED <<tableVars, pagerVars, apiVars>>
      PROVE  TypeInv'
  BY <1>3, DuplicateStep
<1>4. ASSUME NEW p \in PageIds, Replicate(p), UNCHANGED <<queueVars, pagerVars, apiVars>>
      PROVE  TypeInv'
  BY <1>4, ReplicateStep
<1>5. CASE Tick
  BY <1>5, TickStep
<1>6. CASE Rest \/ UNCHANGED vars
  BY <1>6, StutterStep DEF Rest
<1> QED
  BY <1>1, <1>2, <1>3, <1>4, <1>5, <1>6 DEF Next

\* TypeInv holds of every reachable state, for every number of pages, workers,
\* messages and requests, and any set of faults.
THEOREM TypeInvHolds == Spec => []TypeInv
BY TypeInvInit, TypeInvStep, PTL DEF Spec

\* The paging core is type-correct: table, queue, invocations and requests (TypeOK).
THEOREM TypeCorrect == Spec => []TypeOK
<1>1. TypeInv => TypeOK
  BY DEF TypeInv
<1> QED
  BY <1>1, TypeInvHolds, PTL

==============================================================================
