------------------------ MODULE AlertMeScheduleProofs ------------------------
(* No push is made ahead of the schedule, and with a schedule that covers the *)
(* page none is made past its last attempt.  The chain of attempts of a page  *)
(* is never broken but by a call or an invocation that fails past the record, *)
(* and none is pushed twice but for duplicates, stale reads and receipts.     *)
EXTENDS AlertMeAnswerProofs, FiniteSetTheorems

USE DEF vars, tableVars, queueVars, pagerVars, apiVars

------------------------------------------------------------------------------
(* The schedule and the clock *)

\* What the assumption says of one attempt.
LEMMA ElapsedStep ==
    ASSUME NEW n \in Nat, n <= Len(Delays)
    PROVE  /\ Len(Delays) \in Nat
           /\ Elapsed[n] \in Nat
           /\ n < Len(Delays) => /\ Delays[n + 1] \in Nat
                                 /\ Elapsed[n + 1] = Elapsed[n] + Delays[n + 1]
<1>1. Len(Delays) \in Nat /\ \A i \in 1..Len(Delays) : Delays[i] \in Nat
  BY ScheduleAssumption
<1>2. n \in 0..Len(Delays) /\ (n < Len(Delays) => n + 1 \in 1..Len(Delays))
  BY <1>1
<1>3. n < Len(Delays) => Elapsed[n + 1] = Elapsed[n + 1 - 1] + Delays[n + 1]
  BY <1>2, ScheduleAssumption
<1> QED
  BY <1>1, <1>2, <1>3, ScheduleAssumption

\* What the deadline of a page is, to the end of a step: the same but for a tick,
\* which takes one from every page that exists, until it is overdue.
LEMMA LeftStep ==
    ASSUME TypeInv, [Next]_vars, NEW p \in DOMAIN pages
    PROVE  /\ left[p] \in -1..Expiry /\ left'[p] \in -1..Expiry
           /\ Expiry \in Nat
           /\ ~Tick => left'[p] = left[p]
           /\ Tick => left'[p] = IF left[p] >= 0 THEN left[p] - 1 ELSE left[p]
<1>1. p \in PageIds /\ left \in [PageIds -> -1..Expiry] /\ left' \in [PageIds -> -1..Expiry]
  BY TypeInvStep DEF TypeInv, TypeOK, TableType
<1>2. ~Tick => UNCHANGED left
  BY WriteCases DEF Expire, RecordWins, CreateNew, AckWrite, ReceiptWrite
<1>3. Tick => left'[p] = IF left[p] >= 0 THEN left[p] - 1 ELSE left[p]
  BY <1>1 DEF Tick, CountDown
<1> QED
  BY <1>1, <1>2, <1>3, ScheduleAssumption

------------------------------------------------------------------------------
(* The tasks in the queue *)

\* A message that is in the queue, and the page it is about.
LEMMA MessageType ==
    ASSUME TypeInv, NEW m \in DOMAIN queue
    PROVE  /\ queue[m].page \in DOMAIN pages
           /\ queue[m].attempt \in Nat /\ queue[m].wait \in Nat
           /\ queue[m] \in MessageRec
BY DEF TypeInv, TypeOK, QueueType, RequestInv, MessageRec

\* A tick brings deadline and delivery closer by the same amount.
LEMMA TickOnSchedule ==
    ASSUME TypeInv, ScheduleInv, Tick, NEW m \in DOMAIN queue'
    PROVE  TaskOnSchedule(m)'
<1>1. /\ m \in DOMAIN queue /\ SameTask(m) /\ queue'[m].status = queue[m].status
      /\ queue'[m].wait = IF queue[m].wait > 0 THEN queue[m].wait - 1 ELSE 0
  BY DelayTickType DEF Tick, TypeInv, TypeOK
<1> DEFINE p == queue[m].page
           n == queue[m].attempt
<1>2. /\ p \in DOMAIN pages /\ n \in Nat /\ queue[m].wait \in Nat
  BY <1>1, MessageType
<1>3. /\ left[p] \in -1..Expiry /\ left'[p] \in -1..Expiry /\ Expiry \in Nat
      /\ left'[p] = IF left[p] >= 0 THEN left[p] - 1 ELSE left[p]
  BY <1>2, LeftStep DEF Next
<1>4. TaskOnSchedule(m)
  BY <1>1 DEF ScheduleInv
<1>5. n <= Len(Delays) => Elapsed[n] \in Nat
  BY <1>2, ElapsedStep
<1>6. n <= Len(Delays) => left'[p] < 0 \/ Expiry - left'[p] + queue'[m].wait >= Elapsed[n]
  BY <1>1, <1>2, <1>3, <1>4, <1>5 DEF TaskOnSchedule, OnSchedule
<1> QED
  BY <1>1, <1>2, <1>4, <1>6 DEF TaskOnSchedule, OnSchedule, SameTask

\* The task an invocation sends on is due no earlier than its attempt.
LEMMA NextTaskOnSchedule ==
    ASSUME TypeInv, ScheduleInv, [Next]_vars, ~Tick,
           NEW m \in DOMAIN queue', NEW w \in Workers, NEW d \in Nat, NextTask(m, w, d)
    PROVE  TaskOnSchedule(m)'
<1> DEFINE p == PageOf(w)
           n == AttemptOf(w)
           ticks == inv[w].left
<1>1. inv[w].pc = "enqueue" /\ RunOnSchedule(w)
  BY DEF NextTask, ScheduleInv, PastLoad
<1>2. p \in DOMAIN pages /\ n \in Nat
  BY <1>1, RecordAtHand DEF HandlingPc, PagerPc
<1>3. left[p] \in -1..Expiry /\ left'[p] = left[p] /\ Expiry \in Nat
  BY <1>2, LeftStep
<1>4. ticks \in Nat
  BY DEF TypeInv, TypeOK, PagerType, Invocation
<1>5. queue'[m] = Message(p, n + 1, d)
  BY DEF NextTask
<1>6. /\ queue'[m].page = p /\ queue'[m].attempt = n + 1 /\ queue'[m].wait = d
      /\ queue'[m].status # "held"
  BY <1>5 DEF Message
<1>7. Len(Delays) \in Nat
  BY ScheduleAssumption
<1> HIDE DEF p, n, ticks
<1>8. CASE n + 1 <= Len(Delays)
  <2>1. d = NextDelay(n + 1)
    BY <1>7, <1>8 DEF NextTask, HasDelay, n
  <2>2. d = Delays[n + 1]
    BY <1>2, <2>1 DEF NextDelay
  <2>3. Elapsed[n] \in Nat /\ Elapsed[n + 1] = Elapsed[n] + d
    BY <1>2, <1>7, <1>8, <2>2, ElapsedStep
  <2>4. Expiry - ticks >= Elapsed[n] /\ ticks >= left[p]
    BY <1>1, <1>2, <1>7, <1>8 DEF RunOnSchedule, p, n, ticks
  <2>5. Expiry - left'[p] + d >= Elapsed[n + 1]
    BY <1>3, <1>4, <2>3, <2>4
  <2> QED
    BY <1>6, <1>8, <2>5 DEF TaskOnSchedule, OnSchedule
<1>9. CASE ~(n + 1 <= Len(Delays))
  <2>1. ~ScheduleCovers
    BY <1>1, <1>2, <1>7, <1>9 DEF RunOnSchedule, n
  <2> QED
    BY <1>6, <1>9, <2>1 DEF TaskOnSchedule, OnSchedule, ScheduleCovers
<1> QED
  BY <1>8, <1>9

\* No task in the queue is ever ahead of the schedule.
LEMMA QueueOnSchedule ==
    ASSUME TypeInv, ScheduleInv, [Next]_vars, NEW m \in DOMAIN queue'
    PROVE  TaskOnSchedule(m)'
<1>1. CASE Tick
  BY <1>1, TickOnSchedule
<1>2. ASSUME ~Tick, Kept(m)
      PROVE  TaskOnSchedule(m)'
  <2>1. m \in DOMAIN queue /\ TaskOnSchedule(m) /\ queue[m].page \in DOMAIN pages
    BY <1>2, MessageType DEF Kept, ScheduleInv
  <2>2. left'[queue[m].page] = left[queue[m].page]
    BY <1>2, <2>1, LeftStep
  <2> QED
    BY <1>2, <2>1, <2>2 DEF Kept, SameTask, TaskOnSchedule, OnSchedule, ScheduleCovers
<1>3. ASSUME ~Tick, NEW s \in DOMAIN queue, CopyOf(m, s)
      PROVE  TaskOnSchedule(m)'
  <2>1. TaskOnSchedule(s) /\ queue[s] \in MessageRec /\ queue[s].page \in DOMAIN pages
    BY MessageType DEF ScheduleInv
  <2>2. left'[queue[s].page] = left[queue[s].page]
    BY <1>3, <2>1, LeftStep
  <2>3. /\ queue'[m].page = queue[s].page /\ queue'[m].attempt = queue[s].attempt
        /\ queue'[m].wait = queue[s].wait /\ queue'[m].wait = 0
    BY <1>3, <2>1 DEF CopyOf, MessageRec
  <2> QED
    BY <2>1, <2>2, <2>3 DEF TaskOnSchedule, OnSchedule, ScheduleCovers
<1>4. ASSUME ~Tick, NEW p \in PageIds, FirstTask(m, p)
      PROVE  TaskOnSchedule(m)'
  <2>1. /\ queue'[m].page = p /\ queue'[m].attempt = 0 /\ queue'[m].wait = 0
        /\ p \in DOMAIN pages
    BY <1>4 DEF FirstTask, Message, TypeInv, RequestInv
  <2>2. left'[p] \in -1..Expiry /\ Expiry \in Nat /\ Elapsed[0] = 0 /\ Len(Delays) \in Nat
    BY <2>1, LeftStep, ScheduleAssumption
  <2> QED
    BY <2>1, <2>2 DEF TaskOnSchedule, OnSchedule, ScheduleCovers
<1> QED
  BY <1>1, <1>2, <1>3, <1>4, QueueCases, NextTaskOnSchedule DEF New

------------------------------------------------------------------------------
(* The invocations *)

\* The load lets a task pass only when it is due.
LEMMA LoadOnSchedule ==
    ASSUME TypeInv, ScheduleInv, NEW w \in Workers, LoadDue(w)
    PROVE  LET p == PageOf(w)
               n == AttemptOf(w)
           IN  /\ n <= Len(Delays) => Expiry - left[p] >= Elapsed[n]
               /\ ScheduleCovers => n < Len(Delays)
<1> DEFINE p == PageOf(w)
           n == AttemptOf(w)
           m == inv[w].msg
<1>1. /\ inv[w].msg \in DOMAIN queue /\ queue[inv[w].msg].status = "held"
      /\ PageOf(w) \in PageIds /\ AttemptOf(w) \in Nat
  BY RecordAtHand DEF LoadDue, HandlingPc, PagerPc
<1>2. TaskOnSchedule(m)
  BY <1>1 DEF ScheduleInv
<1>3. left[p] \in -1..Expiry /\ ~After(left[p]) /\ Expiry \in Nat
  BY <1>1, ScheduleAssumption DEF LoadDue, TypeInv, TypeOK, TableType
<1>4. queue[m].page = p /\ queue[m].attempt = n /\ queue[m].wait = 0
  BY <1>1, <1>2 DEF TaskOnSchedule, PageOf, AttemptOf
<1>5. Len(Delays) \in Nat /\ n \in Nat /\ (n <= Len(Delays) => Elapsed[n] \in Nat)
  BY <1>1, ScheduleAssumption, ElapsedStep
<1> HIDE DEF p, n, m
<1>6. n <= Len(Delays) => Expiry - left[p] >= Elapsed[n]
  BY <1>2, <1>3, <1>4, <1>5 DEF TaskOnSchedule, OnSchedule, After
<1>7. ScheduleCovers => n < Len(Delays)
  <2>1. ScheduleCovers => n <= Len(Delays) /\ Elapsed[Len(Delays)] > Expiry
    BY <1>2, <1>4 DEF TaskOnSchedule, ScheduleCovers
  <2>2. ~(ScheduleCovers /\ n = Len(Delays))
    BY <1>3, <1>5, <1>6, <2>1 DEF After
  <2> QED
    BY <1>5, <2>1, <2>2
<1> QED
  BY <1>6, <1>7 DEF p, n

\* No invocation is ever ahead of the schedule.
LEMMA RunsOnSchedule ==
    ASSUME TypeInv, ScheduleInv, [Next]_vars, NEW w \in Workers, inv'[w].pc \in PastLoad
    PROVE  RunOnSchedule(w)'
<1>1. /\ inv[w].pc \in HandlingPc
      /\ inv'[w] = inv[w] \/ GoesOn(w)
      /\ PageOf(w)' = PageOf(w) /\ AttemptOf(w)' = AttemptOf(w)
      /\ PageOf(w) \in DOMAIN pages
  BY RecordKept DEF PastLoad, HandlingPc, PagerPc
<1>2. /\ left[PageOf(w)] \in -1..Expiry /\ left'[PageOf(w)] \in -1..Expiry
      /\ left'[PageOf(w)] <= left[PageOf(w)]
  BY <1>1, LeftStep
<1>3. inv[w].left \in Nat
  BY DEF TypeInv, TypeOK, PagerType, Invocation
<1>4. CASE inv[w].pc \in PastLoad /\ inv'[w].left = inv[w].left
  <2>1. RunOnSchedule(w)
    BY <1>4 DEF ScheduleInv
  <2>2. inv'[w].left >= left'[PageOf(w)]
    BY <1>2, <1>3, <1>4, <2>1, ScheduleAssumption DEF RunOnSchedule
  <2> QED
    BY <1>1, <1>4, <2>1, <2>2 DEF RunOnSchedule, ScheduleCovers
<1>5. CASE LoadDue(w) /\ inv'[w].left = left[PageOf(w)]
  <2>1. left[PageOf(w)] >= left'[PageOf(w)] /\ left[PageOf(w)] <= Expiry
    BY <1>2, ScheduleAssumption
  <2> QED
    BY <1>1, <1>5, <2>1, LoadOnSchedule DEF RunOnSchedule, ScheduleCovers
<1> QED
  BY <1>1, <1>4, <1>5, GoesOnPc DEF PastLoad

------------------------------------------------------------------------------
(* The invariant, and the theorem *)

\* Nothing is scheduled in the initial states.
LEMMA ScheduleInvInit == Init => ScheduleInv
BY DEF Init, QueueInit, PagerInit, Idle, PastLoad, ScheduleInv

\* ScheduleInv is inductive, relative to TypeInv.
LEMMA ScheduleInvStep == TypeInv /\ ScheduleInv /\ [Next]_vars => ScheduleInv'
BY QueueOnSchedule, RunsOnSchedule DEF ScheduleInv

\* Between its load and its record no invocation is ahead of the schedule.
LEMMA ScheduleInvImplies == TypeInv /\ ScheduleInv => NeverEarly
BY DEF ScheduleInv, RunOnSchedule, NeverEarly, PastLoad

\* A push is never made ahead of the schedule (NeverEarly), whatever is duplicated,
\* retried or read from a stale copy, and for every schedule; with one that covers the
\* page, as that of schedule.go does, the last attempt is never made before the deadline.
THEOREM NeverEarlyHolds == Spec => []NeverEarly
<1>1. Init => TypeInv /\ ScheduleInv
  BY TypeInvInit, ScheduleInvInit
<1>2. (TypeInv /\ ScheduleInv) /\ [Next]_vars => (TypeInv /\ ScheduleInv)'
  BY TypeInvStep, ScheduleInvStep
<1> QED
  BY <1>1, <1>2, ScheduleInvImplies, PTL DEF Spec

------------------------------------------------------------------------------
(* The chain: what a step does to the attempt of a page and to its tasks *)

\* The attempt of a page is written by the record of an attempt, by a receipt, which
\* writes back the one it loaded, and by the expiry.
LEMMA AttemptStep ==
    ASSUME ContractInv, [Next]_vars, NEW p \in DOMAIN pages
    PROVE  \/ pages'[p].attempt = pages[p].attempt
           \/ \E w \in Workers : /\ RecordWins(w) /\ PageOf(w) = p
                                 /\ pages'[p].attempt = AttemptOf(w)
           \/ \E r \in Receivers : /\ ReceiptWrite(r) /\ receipts[r].page = p
                                   /\ pages'[p].attempt = receipts[r].attempt
           \/ \E w \in Workers : /\ Expire(w) /\ PageOf(w) = p
                                 /\ pages'[p].state = "expired"
                                 /\ pages'[p].attempt = inv[w].attempt
<1>0. TableType /\ TypeInv
  BY DEF ContractInv, TypeInv, TypeOK
<1>1. ASSUME NEW w \in Workers, Expire(w)
      PROVE  \/ pages'[p].attempt = pages[p].attempt
             \/ /\ PageOf(w) = p /\ pages'[p].state = "expired"
                /\ pages'[p].attempt = inv[w].attempt
  BY <1>0, <1>1, ExpireAbstract, SetPageStateAbstract DEF PageState
<1>2. ASSUME NEW w \in Workers, RecordWins(w)
      PROVE  \/ pages'[p].attempt = pages[p].attempt
             \/ PageOf(w) = p /\ pages'[p].attempt = AttemptOf(w)
  <2>1. PICK q \in DOMAIN pages :
           /\ SetPageState(q, Transition(w).to, AttemptOf(w))
           /\ Transition(w).to \in PageState /\ AttemptOf(w) \in Int
           /\ q = PageOf(w)
    BY <1>2, RecordAbstract
  <2> QED
    BY <1>0, <2>1, SetPageStateAbstract
<1>3. ASSUME NEW q \in PageIds, CreateNew(q)
      PROVE  pages'[p] = pages[p]
  BY <1>0, <1>3, CreatePageAbstract DEF CreateNew
<1>4. ASSUME NEW a \in Ackers, AckWrite(a)
      PROVE  pages'[p].attempt = pages[p].attempt
  BY <1>0, <1>4, AckPageAbstract DEF AckWrite, Ackable, StateIn
<1>5. ASSUME NEW r \in Receivers, ReceiptWrite(r)
      PROVE  \/ pages'[p].attempt = pages[p].attempt
             \/ receipts[r].page = p /\ pages'[p].attempt = receipts[r].attempt
  <2>1. receipts[r].attempt \in Int /\ "delivered" \in PageState
    BY <1>0 DEF TypeInv, TypeOK, ApiType, ReceiptRec, Attempts, PageState
  <2> QED
    BY <1>0, <1>5, <2>1, SetPageStateAbstract DEF ReceiptWrite, StateIn
<1> QED
  BY <1>1, <1>2, <1>3, <1>4, <1>5, WriteCases DEF Tick

\* An attempt that will pass the guard still does after a step that leaves the page
\* active, unless the step records a later one, or this one.
LEMMA GuardKept ==
    ASSUME ContractInv, ~EventualReads, [Next]_vars, NEW p \in DOMAIN pages, NEW n \in Nat,
           PassesGuard(p, n), pages'[p].state \in ActiveStates
    PROVE  \/ PassesGuard(p, n)'
           \/ \E w \in Workers : /\ RecordWins(w) /\ PageOf(w) = p /\ AttemptOf(w) >= n
                                 /\ pages'[p].attempt = AttemptOf(w)
<1>0. TypeInv /\ TypeInv'
  BY TypeInvStep DEF ContractInv
<1>1. pages[p].attempt \in Int /\ \A r \in Receivers : receipts[r].attempt \in Int
  BY <1>0 DEF TypeInv, TypeOK, TableType, PageRec, Attempts, ApiType, ReceiptRec
<1>2. ASSUME NEW r \in Receivers, receipts'[r].status = "set", receipts'[r].page = p
      PROVE  n > receipts'[r].attempt
  <2>1. CASE receipts'[r] = receipts[r]
    BY <1>2, <2>1 DEF PassesGuard
  <2>2. CASE ReceiptLoad(r)
    <3>1. \E copy \in Copies : p \in DOMAIN copy /\ receipts'[r].attempt = copy[p].attempt
      BY <1>0, <1>2, <2>2, ReceiptStatus DEF ReceiptNext, ReceiptStep
    <3> QED
      BY <3>1 DEF Copies, PassesGuard
  <2> QED
    BY <1>0, <1>2, <2>1, <2>2, ReceiptCases, ReceiptStatus
<1>3. CASE pages'[p].attempt = pages[p].attempt
  BY <1>2, <1>3 DEF PassesGuard
<1>4. ASSUME NEW w \in Workers, RecordWins(w), PageOf(w) = p, pages'[p].attempt = AttemptOf(w)
      PROVE  AttemptOf(w) >= n \/ PassesGuard(p, n)'
  <2>1. AttemptOf(w) \in Nat
    BY <1>0, <1>4, RecordAtHand DEF RecordWins, HandlingPc, PagerPc
  <2>2. n > AttemptOf(w) \/ AttemptOf(w) >= n
    BY <2>1
  <2> QED
    BY <1>2, <1>4, <2>2 DEF PassesGuard
<1>5. ASSUME NEW r \in Receivers, ReceiptWrite(r), receipts[r].page = p,
             pages'[p].attempt = receipts[r].attempt
      PROVE  PassesGuard(p, n)'
  BY <1>2, <1>5 DEF PassesGuard, ReceiptWrite
<1> QED
  BY <1>3, <1>4, <1>5, AttemptStep DEF ActiveStates

\* The steps of one invocation, by what becomes of its batch.
LEMMA WorkerStep ==
    ASSUME TypeInv, [Next]_vars, NEW w \in Workers, inv'[w] # inv[w]
    PROVE  /\ UNCHANGED apiVars
           /\ \/ Receive(w) /\ inv'[w].ok = {} /\ inv'[w].msg = None
              \/ /\ NextRecord(w) /\ inv'[w].ok = inv[w].ok
                 /\ inv'[w].pc = "load" /\ inv[w].pc = "next"
              \/ (EndBatch(w) \/ Crash(w)) /\ inv'[w].ok = {} /\ inv'[w].msg = None
              \/ /\ Returns(w) \/ EnqueueNext(w) \/ EnqueueFinal(w)
                 /\ inv[w].pc \in HandlingPc
                 /\ inv'[w].msg = None /\ inv'[w].pc = "next"
                 /\ \/ ReturnNil(w) /\ inv'[w].ok = inv[w].ok \cup {inv[w].msg}
                    \/ (GetSenderFails(w) \/ Fail(w)) /\ inv'[w].ok = inv[w].ok
              \/ /\ GoesOn(w) /\ inv'[w].ok = inv[w].ok /\ inv'[w].msg = inv[w].msg
                 /\ inv[w].pc \in HandlingPc
<1>0. inv \in [Workers -> Invocation] /\ inv[w] \in Invocation
  BY DEF TypeInv, TypeOK, PagerType
<1>1. PagerNext /\ UNCHANGED apiVars
  BY DEF Next, Tick, Rest
<1>2. ASSUME NEW v \in Workers, v # w
      PROVE  ~ (Receive(v) \/ PagerStep(v) \/ Fail(v) \/ Crash(v))
  <2>1. ~ (Receive(v) \/ NextRecord(v) \/ EndBatch(v) \/ Crash(v))
    BY <1>0, <1>2 DEF Receive, NextRecord, EndBatch, Crash
  <2>2. ~ (Returns(v) \/ EnqueueNext(v) \/ EnqueueFinal(v) \/ Fail(v))
    BY <1>0, <1>2 DEF Returns, LoadDrop, ExpiredEvent, GetSenderFails, Exhausted, Fail,
                      EnqueueNext, EnqueueFinal, ReturnNil, ReturnError
  <2>3. ~ GoesOn(v)
    BY <1>2, GoesOnType DEF StepOf
  <2> QED
    BY <2>1, <2>2, <2>3, HandleRecordCases DEF PagerStep
<1>3. Receive(w) \/ NextRecord(w) \/ EndBatch(w) \/ HandleRecord(w) \/ Fail(w) \/ Crash(w)
  BY <1>1, <1>2 DEF PagerNext, PagerStep, RegisterDevice, TokenDies
<1>4. CASE Receive(w)
  BY <1>1, <1>4, ReceiveHold
<1>5. CASE NextRecord(w)
  BY <1>1, <1>5, NextRecordStep DEF NextRecord
<1>6. CASE EndBatch(w) \/ Crash(w)
  BY <1>1, <1>6, EndBatchStep, CrashStep DEF Idle
<1>7. CASE GoesOn(w)
  BY <1>1, <1>7, GoesOnType
<1>8. CASE Returns(w) \/ EnqueueNext(w) \/ EnqueueFinal(w)
  <2>1. inv[w].pc \in HandlingPc
    BY <1>8 DEF Returns, LoadDrop, ExpiredEvent, GetSenderFails, Exhausted, Fail,
                EnqueueNext, EnqueueFinal, HandlingPc, PagerPc
  <2>2. \/ ReturnNil(w)
        \/ (GetSenderFails(w) \/ Fail(w)) /\ ReturnError(w)
    BY <1>8 DEF Returns, LoadDrop, ExpiredEvent, GetSenderFails, Exhausted, Fail,
                EnqueueNext, EnqueueFinal
  <2>3. ReturnNil(w) => /\ inv'[w].ok = inv[w].ok \cup {inv[w].msg}
                        /\ inv'[w].msg = None /\ inv'[w].pc = "next"
    BY <1>0 DEF ReturnNil, Between, Idle
  <2>4. ReturnError(w) => /\ inv'[w].ok = inv[w].ok
                          /\ inv'[w].msg = None /\ inv'[w].pc = "next"
    BY <1>0 DEF ReturnError, Between, Idle
  <2> QED
    BY <1>1, <1>8, <2>1, <2>2, <2>3, <2>4
<1> QED
  BY <1>3, <1>4, <1>5, <1>6, <1>7, <1>8, HandleRecordCases DEF Returns

\* A task is done with only when it is dropped, when its page turns out to be settled, or
\* when its attempt is recorded.
LEMMA SpentStep ==
    ASSUME ContractInv, RecordInv, ~EventualReads, [Next]_vars,
           NEW m \in DOMAIN queue, ~Spent(m), Spent(m)', queue[m].page \in DOMAIN pages
    PROVE  \/ pages[queue[m].page].attempt >= queue[m].attempt
           \/ pages[queue[m].page].state \notin ActiveStates
           \/ \E w \in Workers : RecordWins(w) /\ inv[w].msg = m
<1>0. TypeInv
  BY DEF ContractInv
<1>1. PICK w \in Workers :
         m \in inv'[w].ok \/ (inv'[w].pc \in Recorded /\ inv'[w].msg = m)
  BY DEF Spent
<1>2. inv'[w] # inv[w] /\ m \notin inv[w].ok /\ ~ (inv[w].pc \in Recorded /\ inv[w].msg = m)
  BY <1>1 DEF Spent
<1>3. m # None
  BY <1>0, PagerAssumption DEF TypeInv, TypeOK, QueueType
<1>4. CASE ReturnNil(w) /\ inv[w].msg = m
  <2>1. inv[w].pc \notin Recorded
    BY <1>2, <1>4
  <2>2. LoadDrop(w) \/ ExpiredEvent(w)
    <3>1. inv'[w].ok = inv[w].ok \cup {m}
      BY <1>0, <1>4 DEF ReturnNil, Between, Idle, TypeInv, TypeOK, PagerType
    <3>2. Returns(w) \/ EnqueueNext(w) \/ EnqueueFinal(w)
      BY <1>0, <1>2, <3>1, WorkerStep
    <3>3. ~ (GetSenderFails(w) \/ Fail(w))
      <4>1. ReturnError(w) => inv'[w].ok = inv[w].ok
        BY <1>0 DEF ReturnError, Between, Idle, TypeInv, TypeOK, PagerType
      <4> QED
        BY <1>2, <3>1, <4>1 DEF GetSenderFails, Fail
    <3> QED
      BY <2>1, <3>2, <3>3 DEF Returns, Exhausted, EnqueueNext, EnqueueFinal, Recorded
  <2>3. CASE LoadDrop(w)
    BY <1>4, <2>3 DEF LoadDrop, Copies, NeedsNag, Active, AlreadyRan, PageOf, AttemptOf
  <2>4. CASE ExpiredEvent(w)
    BY <1>4, <2>4 DEF ExpiredEvent, ContractInv, ExpiryInv, PageOf
  <2> QED
    BY <2>2, <2>3, <2>4
<1>5. CASE GoesOn(w) /\ inv'[w].msg = inv[w].msg /\ inv'[w].pc \in Recorded /\ inv'[w].msg = m
  <2>1. CASE RecordConflict(w) /\ inv[w].trial = 3
    <3>1. pages[PageOf(w)].state \notin ActiveStates
      BY <2>1, ConflictSays
    <3>2. PageOf(w) = queue[m].page
      BY <1>5 DEF PageOf
    <3> QED
      BY <3>1, <3>2
  <2>2. inv[w].pc # "attemptEvent"
    BY <1>2, <1>5 DEF Recorded
  <2>3. inv'[w].pc \in {"attemptEvent", "enqueue"} /\ GoesOn(w)
    BY <1>5 DEF Recorded
  <2>4. RecordWins(w) \/ (RecordConflict(w) /\ inv[w].trial = 3)
    BY <1>0, <2>2, <2>3, GoesOnTrial DEF Recorded
  <2> QED
    BY <1>5, <2>1, <2>4
<1>6. \/ ReturnNil(w) /\ inv[w].msg = m
      \/ GoesOn(w) /\ inv'[w].msg = inv[w].msg /\ inv'[w].pc \in Recorded /\ inv'[w].msg = m
  BY <1>0, <1>1, <1>2, <1>3, WorkerStep DEF Recorded
<1> QED
  BY <1>4, <1>5, <1>6

\* What the end of an invocation deletes without its being done is in the dead-letter
\* queue.
LEMMA SettleLost ==
    ASSUME QueueType, NEW done, NEW failed \in SUBSET DOMAIN queue, Settle(done, failed)
    PROVE  /\ dlq \subseteq dlq'
           /\ \A m \in DOMAIN queue \ DOMAIN queue' :
                 m \in done \/ Task(queue[m].page, queue[m].attempt) \in dlq'
<1>1. /\ DOMAIN queue' = DOMAIN queue \ (done \cup Dead(failed))
      /\ dlq' = dlq \cup {Task(queue[m].page, queue[m].attempt) : m \in Dead(failed)}
  BY SettleType
<1> QED
  BY <1>1

\* No message is lost but one that was done.
LEMMA MessageLost ==
    ASSUME TypeInv, [Next]_vars
    PROVE  /\ dlq \subseteq dlq'
           /\ \A m \in DOMAIN queue \ DOMAIN queue' :
                 Spent(m) \/ Task(queue[m].page, queue[m].attempt) \in dlq'
<1> DEFINE Goal == /\ dlq \subseteq dlq'
                   /\ \A m \in DOMAIN queue \ DOMAIN queue' :
                         Spent(m) \/ Task(queue[m].page, queue[m].attempt) \in dlq'
<1>0. QueueType
  BY DEF TypeInv, TypeOK
<1>1. CASE UNCHANGED queueVars
  BY <1>1
<1>2. ASSUME NEW w \in Workers, EndBatch(w) \/ Crash(w)
      PROVE  Goal
  <2>1. HeldBy(w) \subseteq DOMAIN queue /\ inv[w].failed \subseteq HeldBy(w)
    BY DEF TypeInv, HoldInv, HeldBy
  <2>2. inv[w].failed \in SUBSET DOMAIN queue /\ HeldBy(w) \in SUBSET DOMAIN queue
    BY <2>1
  <2>3. CASE EndBatch(w)
    <3> DEFINE done   == inv[w].ok
               failed == inv[w].failed
    <3>1. Settle(done, failed) /\ failed \in SUBSET DOMAIN queue
      BY <2>2, <2>3 DEF EndBatch
    <3>2. \A m \in done : Spent(m)
      BY DEF Spent
    <3> HIDE DEF done, failed
    <3> QED
      BY <1>0, <3>1, <3>2, SettleLost
  <2>4. CASE Crash(w)
    <3> DEFINE done   == {}
               failed == HeldBy(w)
    <3>1. Settle(done, failed) /\ failed \in SUBSET DOMAIN queue
      BY <2>2, <2>4 DEF Crash
    <3>2. \A m \in done : Spent(m)
      OBVIOUS
    <3> HIDE DEF done, failed
    <3> QED
      BY <1>0, <3>1, <3>2, SettleLost
  <2> QED
    BY <1>2, <2>3, <2>4
<1>3. CASE PagerNext /\ UNCHANGED apiVars
  <2>1. ASSUME NEW w \in Workers, Receive(w)
        PROVE  Goal
    BY <2>1, ReceiveHold
  <2>2. ASSUME NEW w \in Workers, EnqueueNext(w) \/ EnqueueFinal(w)
        PROVE  Goal
    BY <1>3, <2>2, EnqueueStep
  <2>3. ASSUME NEW w \in Workers, GoesOn(w) \/ Returns(w) \/ NextRecord(w) \/ Fail(w)
        PROVE  Goal
    BY <1>1, <1>3, <2>3, GoesOnStep, ReturnsStep DEF NextRecord, Fail
  <2>4. ASSUME NEW d \in Devices, RegisterDevice(d) \/ TokenDies(d)
        PROVE  Goal
    BY <1>1, <2>4 DEF RegisterDevice, TokenDies
  <2> QED
    BY <1>2, <1>3, <2>1, <2>2, <2>3, <2>4, HandleRecordCases DEF PagerNext, PagerStep
<1>4. CASE (ClientNext \/ ApiNext) /\ UNCHANGED pagerVars
  <2>1. ASSUME NEW p \in PageIds, CreateNew(p)
        PROVE  Goal
    BY <1>1, <2>1 DEF CreateNew
  <2>2. ASSUME NEW p \in PageIds, CreateStep(p)
        PROVE  Goal
    BY <1>4, <2>2, CreateStepType
  <2>3. ASSUME NEW a \in Ackers, AckNext(a)
        PROVE  Goal
    BY <1>1, <1>4, <2>3, AckNextStep
  <2>4. ASSUME NEW r \in Receivers, ReceiptNext(r)
        PROVE  Goal
    BY <1>1, <1>4, <2>4, ReceiptNextStep
  <2> QED
    BY <1>4, <2>1, <2>2, <2>3, <2>4, ApiCases
<1>5. ASSUME NEW s \in MsgIds, Duplicate(s)
      PROVE  Goal
  BY <1>0, <1>5, DuplicateType
<1>6. CASE Tick
  BY <1>0, <1>6, DelayTickType DEF Tick
<1>7. ASSUME NEW p \in PageIds, Replicate(p) /\ UNCHANGED <<queueVars, pagerVars, apiVars>>
      PROVE  Goal
  BY <1>1, <1>7
<1>8. CASE Rest \/ UNCHANGED vars
  BY <1>1, <1>8 DEF Rest
<1> QED
  BY <1>3, <1>4, <1>5, <1>6, <1>7, <1>8 DEF Next

\* A message that was just sent is not done with.
LEMMA FreshToken ==
    ASSUME TypeInv', NEW m \in DOMAIN queue', queue'[m].status = "visible"
    PROVE  ~Spent(m)'
<1> SUFFICES ASSUME NEW w \in Workers,
                    m \in inv'[w].ok \/ (inv'[w].pc \in Recorded /\ inv'[w].msg = m)
             PROVE  FALSE
  BY DEF Spent
<1>1. m # None
  BY PagerAssumption DEF TypeInv, TypeOK, QueueType
<1>2. m \in HeldBy(w)'
  BY <1>1 DEF HeldBy
<1> QED
  BY <1>2 DEF TypeInv, HoldInv

\* A queued task of an active page stays queued until its attempt is recorded, or goes
\* to the dead-letter queue.
LEMMA QueuedTokenKept ==
    ASSUME ContractInv, RecordInv, ~EventualReads, [Next]_vars,
           NEW p \in DOMAIN pages, NEW n \in Nat, NEW m \in DOMAIN queue, ~Spent(m),
           queue[m].page = p, queue[m].attempt = n,
           pages[p].state \in ActiveStates, n > pages[p].attempt
    PROVE  \/ Token(p, n)'
           \/ \E w \in Workers : RecordWins(w) /\ inv[w].msg = m
<1>0. TypeInv /\ TypeInv'
  BY TypeInvStep DEF ContractInv
<1>1. pages[p].attempt \in Int
  BY <1>0 DEF TypeInv, TypeOK, TableType, PageRec, Attempts
<1>2. CASE m \notin DOMAIN queue'
  BY <1>0, <1>2, MessageLost DEF Token
<1>3. CASE m \in DOMAIN queue' /\ ~Spent(m)'
  <2>1. SameTask(m)
    BY <1>0, <1>3, TasksKept
  <2> QED
    BY <1>3, <2>1 DEF Token, SameTask
<1>4. CASE Spent(m)'
  <2>1. ~ (pages[p].attempt >= n)
    BY <1>0, <1>1
  <2> QED
    BY <1>0, <1>4, <2>1, SpentStep
<1> QED
  BY <1>2, <1>3, <1>4

\* A new message is a token.
LEMMA SentToken ==
    ASSUME TypeInv', NEW p \in PageIds, NEW n \in Nat, NEW d \in Nat,
           NEW c \in DOMAIN queue', queue'[c] = Message(p, n, d)
    PROVE  Token(p, n)'
<1>1. queue'[c].page = p /\ queue'[c].attempt = n /\ queue'[c].status = "visible"
  BY DEF Message
<1>2. ~Spent(c)'
  BY <1>1, FreshToken
<1> QED
  BY <1>1, <1>2 DEF Token

\* An invocation that has recorded its attempt sends the next task, unless the schedule
\* is exhausted and the deadline has come.
LEMMA RecordedTokenKept ==
    ASSUME ContractInv, ScheduleInv, ChainUnbroken, [Next]_vars,
           NEW w \in Workers, inv[w].pc \in Recorded,
           NEW p \in DOMAIN pages, NEW n \in Nat, PageOf(w) = p, AttemptOf(w) = n,
           ScheduleCovers \/ Before(left[p])
    PROVE  Token(p, n + 1)'
<1>0. /\ TypeInv /\ TypeInv' /\ p \in PageIds /\ inv[w] \in Invocation
      /\ inv[w].pc \in HandlingPc
  BY TypeInvStep DEF ContractInv, Recorded, HandlingPc, PagerPc, TypeInv, TypeOK, PagerType,
                     TableType
<1>1. ASSUME inv'[w].pc \in Recorded
      PROVE  Token(p, n + 1)'
  <2>1. PageOf(w)' = p /\ AttemptOf(w)' = n
    BY <1>0, <1>1, RecordKept DEF Recorded, HandlingPc, PagerPc
  <2> QED
    BY <1>1, <2>1 DEF Token
<1>2. CASE UNCHANGED apiVars /\ (EnqueueNext(w) \/ EnqueueFinal(w))
  <2>1. PICK c \in MsgIds \ DOMAIN queue, d \in Nat :
           /\ DOMAIN queue' = DOMAIN queue \cup {c}
           /\ queue'[c] = Message(PageOf(w), AttemptOf(w) + 1, d)
    BY <1>0, <1>2, EnqueueStep
  <2>2. c \in DOMAIN queue' /\ queue'[c] = Message(p, n + 1, d) /\ n + 1 \in Nat
    BY <2>1
  <2> QED
    BY <1>0, <2>2, SentToken
<1>3. ~ Exhausted(w)
  <2>1. Exhausted(w) => /\ ~ (n + 1 <= Len(Delays)) /\ ~ (inv[w].left > 0)
    BY DEF Exhausted, HasDelay, Before
  <2>2. ScheduleCovers => n < Len(Delays)
    BY DEF ScheduleInv, RunOnSchedule, Recorded, PastLoad
  <2>3. inv[w].left >= left[p]
    BY DEF ScheduleInv, RunOnSchedule, Recorded, PastLoad
  <2>4. left[p] \in Int /\ inv[w].left \in Int /\ Len(Delays) \in Nat
    BY <1>0, ScheduleAssumption DEF TypeInv, TypeOK, TableType, Invocation
  <2>5. ~ (n < Len(Delays)) \/ n + 1 <= Len(Delays)
    BY <1>0, <2>4
  <2>6. ScheduleCovers \/ left[p] > 0
    BY DEF Before
  <2> QED
    BY <2>1, <2>2, <2>3, <2>4, <2>5, <2>6
<1>4. ~ (Fail(w) \/ Crash(w))
  BY DEF ChainUnbroken, Fail, Crash, Recorded
<1>5. ~ (LoadDrop(w) \/ ExpiredEvent(w) \/ GetSenderFails(w) \/ Receive(w) \/ NextRecord(w)
         \/ EndBatch(w))
  BY <1>0 DEF LoadDrop, ExpiredEvent, GetSenderFails, Receive, NextRecord, EndBatch, Recorded
<1>6. GoesOn(w) => inv'[w].pc \in Recorded
  BY <1>0, GoesOnTrial DEF Recorded, RecordWins, RecordConflict
<1> QED
  BY <1>0, <1>1, <1>2, <1>3, <1>4, <1>5, <1>6, WorkerStep DEF Returns

\* The first task of a page is queued.
LEMMA FirstTokenKept ==
    ASSUME TypeInv, ChainUnbroken, [Next]_vars, NEW p \in PageIds, creates[p] = "enqueue"
    PROVE  Token(p, 0)'
<1>0. TypeInv' /\ creates \in [PageIds -> CreateStatus]
  BY TypeInvStep DEF TypeInv, TypeOK, ApiType
<1>1. CASE creates'[p] = creates[p]
  BY <1>1 DEF Token
<1>2. ASSUME NEW q \in PageIds, CreateNew(q) \/ CreateStep(q), q # p
      PROVE  creates'[p] = creates[p]
  BY <1>0, <1>2 DEF CreateNew, CreateStep, CreateConflict, CreateLookup, CreateEnqueue,
                    CreateNotScheduled, CreateReply
<1>3. ASSUME CreateNew(p) \/ CreateStep(p), UNCHANGED pagerVars
      PROVE  Token(p, 0)'
  <2>1. CreateEnqueue(p) /\ CreateStep(p)
    BY <1>3 DEF CreateNew, CreateStep, CreateConflict, CreateLookup, CreateNotScheduled,
                ChainUnbroken
  <2>2. PICK c \in MsgIds \ DOMAIN queue :
           DOMAIN queue' = DOMAIN queue \cup {c} /\ queue'[c] = Message(p, 0, 0)
    BY <1>3, <2>1, CreateStepType
  <2> QED
    BY <1>0, <2>2, SentToken
<1>4. ASSUME NEW a \in Ackers, AckNext(a)
      PROVE  UNCHANGED creates
  BY <1>4 DEF AckNext, AckRequest, AckStep, AckLoad, AckWrite, AckConflict, AckReread,
              AckEvent, AckFails
<1>5. ASSUME NEW r \in Receivers, ReceiptNext(r)
      PROVE  UNCHANGED creates
  BY <1>5 DEF ReceiptNext, ReceiptRequest, ReceiptStep, ReceiptLoad, ReceiptWrite,
              ReceiptConflict, ReceiptEvent, ReceiptFails
<1> QED
  BY <1>1, <1>2, <1>3, <1>4, <1>5, RequestCases

------------------------------------------------------------------------------
(* The chain: the invariant, and the theorems *)

\* A next attempt, in the terms of ChainAlive, is a token that passes the guard.
TokensAgree ==
    \A p \in PageIds :
        HasNextAttempt(p) <=> \E n \in Nat : Token(p, n) /\ PassesGuard(p, n)

\* The tokens are what ChainAlive speaks of.
LEMMA NextToken == TypeInv => TokensAgree
<1> SUFFICES ASSUME TypeInv, NEW p \in PageIds
             PROVE  HasNextAttempt(p) <=> \E n \in Nat : Token(p, n) /\ PassesGuard(p, n)
  BY DEF TokensAgree
<1>1. ASSUME HasNextAttempt(p)
      PROVE  \E n \in Nat : Token(p, n) /\ PassesGuard(p, n)
  <2>1. ASSUME NEW m \in DOMAIN queue, ~Spent(m), queue[m].page = p,
               PassesGuard(p, queue[m].attempt)
        PROVE  \E n \in Nat : Token(p, n) /\ PassesGuard(p, n)
    <3>1. queue[m].attempt \in Nat /\ Token(p, queue[m].attempt)
      BY <2>1, MessageType DEF Token
    <3> QED
      BY <2>1, <3>1
  <2>2. ASSUME NEW w \in Workers, inv[w].pc \in Recorded, PageOf(w) = p,
               PassesGuard(p, AttemptOf(w) + 1)
        PROVE  \E n \in Nat : Token(p, n) /\ PassesGuard(p, n)
    <3>1. AttemptOf(w) \in Nat
      BY <2>2, RecordAtHand DEF Recorded, HandlingPc, PagerPc
    <3>2. AttemptOf(w) + 1 \in Nat /\ Token(p, AttemptOf(w) + 1)
      BY <2>2, <3>1 DEF Token
    <3> QED
      BY <2>2, <3>2
  <2>3. ASSUME NEW t \in dlq, t.page = p, PassesGuard(p, t.attempt)
        PROVE  \E n \in Nat : Token(p, n) /\ PassesGuard(p, n)
    <3>1. t.attempt \in Nat /\ t = Task(p, t.attempt)
      BY <2>3 DEF TypeInv, TypeOK, QueueType, Task
    <3>2. Token(p, t.attempt)
      BY <3>1 DEF Token
    <3> QED
      BY <2>3, <3>1, <3>2
  <2>4. ASSUME creates[p] = "enqueue", PassesGuard(p, 0)
        PROVE  \E n \in Nat : Token(p, n) /\ PassesGuard(p, n)
    BY <2>4 DEF Token
  <2> QED
    BY <1>1, <2>1, <2>2, <2>3, <2>4 DEF HasNextAttempt
<1>2. ASSUME NEW n \in Nat, Token(p, n), PassesGuard(p, n)
      PROVE  HasNextAttempt(p)
  <2>1. CASE Task(p, n) \in dlq
    <3>1. Task(p, n).page = p /\ Task(p, n).attempt = n
      BY DEF Task
    <3> QED
      BY <1>2, <2>1, <3>1 DEF HasNextAttempt
  <2> QED
    BY <1>2, <2>1 DEF HasNextAttempt, Token
<1> QED
  BY <1>1, <1>2

\* A page is born with its first task to be sent, and no receipt knows of it.
LEMMA ChainBorn ==
    ASSUME ContractInv, [Next]_vars, NEW p \in DOMAIN pages' \ DOMAIN pages
    PROVE  Token(p, 0)' /\ PassesGuard(p, 0)'
<1>1. p \in PageIds /\ CreateNew(p)
  BY PagesStep
<1>2. creates \in [PageIds -> CreateStatus] /\ TableType
  BY DEF ContractInv, TypeInv, TypeOK, ApiType
<1>3. creates'[p] = "enqueue" /\ UNCHANGED receipts
  BY <1>1, <1>2 DEF CreateNew, CreateReply
<1>4. pages'[p].attempt = -1
  BY <1>1 DEF CreateNew, CreatePage, Put, Page
<1>5. \A r \in Receivers : ~ (receipts[r].status = "set" /\ receipts[r].page = p)
  BY DEF ContractInv, TypeInv, RequestInv
<1> QED
  BY <1>3, <1>4, <1>5 DEF Token, PassesGuard

\* The recorded attempt is what the next task is the successor of.
LEMMA ChainRecord ==
    ASSUME ContractInv, [Next]_vars, NEW w \in Workers, RecordWins(w), NEW p \in DOMAIN pages,
           NEW n \in Nat, PageOf(w) = p, AttemptOf(w) = n
    PROVE  Token(p, n + 1)' /\ UNCHANGED apiVars
<1>0. TypeInv /\ inv \in [Workers -> Invocation] /\ inv[w] \in Invocation
  BY DEF ContractInv, TypeInv, TypeOK, PagerType
<1>1. inv[w].pc = "record" /\ GoesOn(w)
  BY DEF RecordWins, GoesOn
<1>2. inv'[w].pc = "attemptEvent"
  BY <1>0 DEF RecordWins, Goto, Invocation
<1>3. PageOf(w)' = p /\ AttemptOf(w)' = n
  BY <1>0, <1>2, RecordKept DEF HandlingPc, PagerPc
<1>4. inv'[w] # inv[w]
  BY <1>1, <1>2
<1>5. UNCHANGED apiVars
  BY <1>0, <1>4, WorkerStep
<1> QED
  BY <1>2, <1>3, <1>5 DEF Token, Recorded

\* Of an active page that has a next attempt one is left after every step.
LEMMA ChainKept ==
    ASSUME ContractInv, RecordInv, ScheduleInv, ChainUnbroken, [Next]_vars,
           NEW p \in DOMAIN pages, NEW n \in Nat, Token(p, n), PassesGuard(p, n),
           pages'[p].state \in ActiveStates, ScheduleCovers \/ Before(left[p])
    PROVE  \E k \in Nat : Token(p, k)' /\ PassesGuard(p, k)'
<1>0. TypeInv /\ TypeInv' /\ ~EventualReads /\ p \in PageIds
  BY TypeInvStep DEF ContractInv, ChainUnbroken, TypeInv, TypeOK, TableType
<1>1. pages[p].state \in ActiveStates /\ p \in DOMAIN pages' /\ pages'[p].attempt \in Int
  BY <1>0, StateForward DEF TypeInv, TypeOK, TableType, PageRec, Attempts
<1>2. pages[p].attempt \in Int /\ \A r \in Receivers : receipts[r].attempt \in Int
  BY <1>0 DEF TypeInv, TypeOK, TableType, PageRec, Attempts, ApiType, ReceiptRec
<1>3. \A r \in Receivers : receipts'[r].attempt \in Int
  BY <1>0 DEF TypeInv, TypeOK, Attempts, ApiType, ReceiptRec
<1>4. ASSUME NEW w \in Workers, RecordWins(w), PageOf(w) = p
      PROVE  AttemptOf(w) \in Nat /\ AttemptOf(w) + 1 \in Nat /\ UNCHANGED apiVars
             /\ \A k \in Nat : k = AttemptOf(w) + 1 => Token(p, k)'
  <2>1. AttemptOf(w) \in Nat
    BY <1>0, <1>4, RecordAtHand DEF RecordWins, HandlingPc, PagerPc
  <2>2. PICK i \in Nat : AttemptOf(w) = i
    BY <2>1
  <2>3. Token(p, i + 1)' /\ UNCHANGED apiVars
    BY <1>4, <2>2, ChainRecord
  <2> QED
    BY <2>1, <2>2, <2>3
<1>5. ASSUME NEW w \in Workers, RecordWins(w), PageOf(w) = p, AttemptOf(w) >= n,
             pages'[p].attempt = AttemptOf(w)
      PROVE  \E k \in Nat : Token(p, k)' /\ PassesGuard(p, k)'
  <2>1. PICK k \in Nat : k = AttemptOf(w) + 1
    BY <1>4, <1>5
  <2>2. Token(p, k)' /\ UNCHANGED receipts /\ AttemptOf(w) \in Nat
    BY <1>4, <1>5, <2>1
  <2>3. PassesGuard(p, k)'
    BY <1>2, <1>5, <2>1, <2>2 DEF PassesGuard
  <2> QED
    BY <2>2, <2>3
<1>6. ASSUME PassesGuard(p, n)'
      PROVE  \E k \in Nat : Token(p, k)' /\ PassesGuard(p, k)'
  <2>1. PassesGuard(p, n + 1)'
    BY <1>1, <1>3, <1>6 DEF PassesGuard
  <2>2. ASSUME NEW m \in DOMAIN queue, ~Spent(m), queue[m].page = p, queue[m].attempt = n
        PROVE  Token(p, n)' \/ Token(p, n + 1)'
    <3>1. n > pages[p].attempt
      BY DEF PassesGuard
    <3>2. ASSUME NEW w \in Workers, RecordWins(w), inv[w].msg = m
          PROVE  Token(p, n + 1)'
      <4>1. PageOf(w) = p /\ AttemptOf(w) = n
        BY <2>2, <3>2 DEF PageOf, AttemptOf
      <4> QED
        BY <3>2, <4>1, ChainRecord
    <3> QED
      BY <1>0, <1>1, <2>2, <3>1, <3>2, QueuedTokenKept
  <2>3. ASSUME NEW w \in Workers, inv[w].pc \in Recorded, PageOf(w) = p, AttemptOf(w) + 1 = n
        PROVE  Token(p, n)'
    <3>1. PICK i \in Nat : AttemptOf(w) = i
      BY <1>0, <2>3, RecordAtHand DEF Recorded, HandlingPc, PagerPc
    <3>2. Token(p, i + 1)'
      BY <2>3, <3>1, RecordedTokenKept
    <3> QED
      BY <2>3, <3>1, <3>2
  <2>4. ASSUME Task(p, n) \in dlq
        PROVE  Token(p, n)'
    BY <1>0, <2>4, MessageLost DEF Token
  <2>5. ASSUME creates[p] = "enqueue", n = 0
        PROVE  Token(p, n)'
    BY <1>0, <2>5, FirstTokenKept
  <2> QED
    BY <1>6, <2>1, <2>2, <2>3, <2>4, <2>5 DEF Token
<1> QED
  BY <1>0, <1>5, <1>6, GuardKept

\* There is no page in the initial states.
LEMMA ChainInvInit == Init => ChainInv
BY DEF Init, TableInit, ChainInv

\* ChainInv is inductive, relative to what the states, the records and the schedule obey.
LEMMA ChainInvStep ==
    ASSUME ContractInv, RecordInv, ScheduleInv, ChainUnbroken, ChainInv, [Next]_vars
    PROVE  ChainInv'
<1>0. TypeInv /\ TypeInv'
  BY TypeInvStep DEF ContractInv
<1>1. TokensAgree'
  BY <1>0, NextToken, PTL
<1> SUFFICES ASSUME NEW p \in DOMAIN pages', Active(pages'[p].state),
                    (ScheduleCovers \/ Before(left[p]))'
             PROVE  HasNextAttempt(p)'
  BY DEF ChainInv
<1>2. p \in PageIds
  BY <1>0 DEF TypeInv, TypeOK, TableType
<1>3. CASE p \notin DOMAIN pages
  BY <1>1, <1>2, <1>3, ChainBorn DEF TokensAgree
<1>4. CASE p \in DOMAIN pages
  <2>1. ScheduleCovers \/ Before(left[p])
    <3>1. left[p] \in Int /\ left'[p] \in Int /\ left'[p] <= left[p]
      BY <1>0, <1>4, LeftStep
    <3>2. ScheduleCovers' <=> ScheduleCovers
      BY DEF ScheduleCovers
    <3> QED
      BY <3>1, <3>2 DEF Before
  <2>2. pages[p].state \in ActiveStates /\ pages'[p].state \in ActiveStates
    BY <1>4, StateForward DEF Active
  <2>3. HasNextAttempt(p)
    BY <1>4, <2>1, <2>2 DEF ChainInv, Active
  <2>4. PICK n \in Nat : Token(p, n) /\ PassesGuard(p, n)
    BY <1>0, <1>2, <2>3, NextToken DEF TokensAgree
  <2>5. \E k \in Nat : Token(p, k)' /\ PassesGuard(p, k)'
    BY <1>4, <2>1, <2>2, <2>4, ChainKept
  <2> QED
    BY <1>1, <1>2, <2>5 DEF TokensAgree
<1> QED
  BY <1>3, <1>4

\* What the chain rests on, as one inductive invariant.
ChainIInv == ContractInv /\ AnswerInv /\ ScheduleInv /\ ChainInv

\* Where neither a call nor an invocation fails past the record, and no read is stale,
\* the chain of attempts is never broken.
LEMMA ChainIInvHolds == ChainUnbroken => (Spec => []ChainIInv)
<1> SUFFICES ASSUME ChainUnbroken
             PROVE  Spec => []ChainIInv
  OBVIOUS
<1>1. Init => ChainIInv
  BY TypeInvInit, ExpiryInvInit, AnswerInvInit, ScheduleInvInit, ChainInvInit
  DEF ChainIInv, ContractInv
<1>2. ChainIInv /\ [Next]_vars => ChainIInv'
  <2> SUFFICES ASSUME ChainIInv, [Next]_vars
               PROVE  ChainIInv'
    OBVIOUS
  <2>1. ContractInv /\ TypeInv /\ RecordInv
    BY DEF ChainIInv, ContractInv, AnswerInv
  <2>2. ContractInv'
    BY <2>1, TypeInvStep, ExpiryInvStep DEF ContractInv
  <2> QED
    BY <2>1, <2>2, AnswerInvStep, ScheduleInvStep, ChainInvStep DEF ChainIInv
<1> QED
  BY <1>1, <1>2, PTL DEF Spec

\* "Each completed attempt enqueues the next until the page is acknowledged or expires"
\* (ChainAlive): with a schedule that covers the page, as that of schedule.go does, an
\* active page always has a next attempt that the duplicate guard will let through, as
\* long as no enqueue fails and no invocation dies between record and enqueue, whatever
\* else fails, crashes or is delivered twice.  The runs enqueue_fails and create_retry
\* show both conditions to be needed.
THEOREM ChainAliveHolds == ChainUnbroken /\ ScheduleCovers => (Spec => []ChainAlive)
<1> SUFFICES ASSUME ChainUnbroken, ScheduleCovers
             PROVE  Spec => []ChainAlive
  OBVIOUS
<1>1. ChainIInv => ChainAlive
  BY DEF ChainIInv, ChainInv, ChainAlive
<1> QED
  BY <1>1, ChainIInvHolds, PTL

\* Nobody is at work on any page, and nothing will wake anybody: where a page that is
\* still active would be forgotten.
Idling ==
    /\ DOMAIN queue = {}
    /\ \A w \in Workers : inv[w].pc = "idle"
    /\ \A p \in PageIds : creates[p] # "enqueue"

\* No page is forgotten: when the system comes to rest every page is acked or expired, or
\* its task is in the dead-letter queue, whose alarm the operators hear.
THEOREM NoPageForgotten ==
    ChainUnbroken /\ ScheduleCovers =>
        (Spec => [](Idling => \A p \in DOMAIN pages :
                                 StateIn(p, PageState \ ActiveStates) \/ InDlq(p)))
<1> DEFINE Safe == \A p \in DOMAIN pages : StateIn(p, PageState \ ActiveStates) \/ InDlq(p)
<1> SUFFICES ASSUME ChainUnbroken, ScheduleCovers
             PROVE  Spec => [](Idling => Safe)
  OBVIOUS
<1>1. TypeInv /\ ChainAlive => (Idling => Safe)
  <2> SUFFICES ASSUME TypeInv, ChainAlive, Idling, NEW p \in DOMAIN pages
               PROVE  StateIn(p, PageState \ ActiveStates) \/ InDlq(p)
    OBVIOUS
  <2>1. p \in PageIds /\ pages[p].state \in PageState
    BY DEF TypeInv, TypeOK, TableType, PageRec
  <2>2. CASE pages[p].state \notin ActiveStates
    BY <2>1, <2>2 DEF StateIn
  <2>3. CASE pages[p].state \in ActiveStates
    <3>1. HasNextAttempt(p)
      BY <2>3 DEF ChainAlive, Active
    <3> QED
      BY <2>1, <3>1 DEF HasNextAttempt, Idling, Recorded, InDlq
  <2> QED
    BY <2>2, <2>3
<1>2. Spec => [](TypeInv /\ ChainAlive)
  BY TypeInvHolds, ChainAliveHolds, PTL
<1> QED
  BY <1>1, <1>2, PTL

\* With any schedule the chain holds until the deadline (NagsUntilDeadline): the final
\* tick of main.go:204-215 carries it there.
THEOREM NagsHolds == ChainUnbroken => (Spec => []NagsUntilDeadline)
<1> SUFFICES ASSUME ChainUnbroken
             PROVE  Spec => []NagsUntilDeadline
  OBVIOUS
<1>1. ChainIInv => NagsUntilDeadline
  BY DEF ChainIInv, ChainInv, NagsUntilDeadline
<1> QED
  BY <1>1, ChainIInvHolds, PTL

------------------------------------------------------------------------------
(* The numbering of attempts: what a step does to it *)

\* One invocation moves at a time.
LEMMA OneMoves ==
    ASSUME TypeInv, NEW v \in Workers, NEW w \in Workers, inv'[w] # inv[w], GoesOn(v)
    PROVE  v = w
BY GoesOnType DEF StepOf

\* What the record of an attempt does to its page.
LEMMA RecordAttempt ==
    ASSUME ContractInv, NEW w \in Workers, RecordWins(w)
    PROVE  /\ PageOf(w) \in DOMAIN pages /\ pages[PageOf(w)].state \in ActiveStates
           /\ pages'[PageOf(w)].attempt = AttemptOf(w) /\ AttemptOf(w) \in Nat
           /\ inv[w].pc = "record" /\ inv'[w].pc = "attemptEvent" /\ GoesOn(w)
           /\ UNCHANGED <<events, queue>>
<1>0. TableType /\ TypeInv
  BY DEF ContractInv, TypeInv, TypeOK
<1>1. PICK p \in DOMAIN pages :
         /\ SetPageState(p, Transition(w).to, AttemptOf(w))
         /\ Transition(w).to \in PageState /\ AttemptOf(w) \in Int
         /\ p = PageOf(w)
         /\ \/ pages[p].state \in {"created", "pushed"} /\ Transition(w).to = "pushed"
            \/ pages[p].state = "delivered" /\ Transition(w).to = "delivered"
  BY RecordAbstract
<1>2. pages'[p].attempt = AttemptOf(w) /\ pages[p].state \in ActiveStates
  BY <1>0, <1>1, SetPageStateAbstract DEF ActiveStates
<1>3. inv[w].pc = "record" /\ inv'[w].pc = "attemptEvent" /\ GoesOn(w)
  BY <1>0 DEF RecordWins, Goto, GoesOn, TypeInv, TypeOK, PagerType, Invocation
<1>4. AttemptOf(w) \in Nat
  BY <1>0, <1>3, RecordAtHand DEF HandlingPc, PagerPc
<1> QED
  BY <1>1, <1>2, <1>3, <1>4 DEF RecordWins

\* Without receipts, the attempt of a page moves when one ahead of it is recorded; and
\* an invocation that expires the page writes the attempt it had loaded.
LEMMA AttemptMoves ==
    ASSUME ContractInv, GuardInv, Receivers = {}, [Next]_vars, NEW p \in DOMAIN pages
    PROVE  /\ pages[p].attempt \in Int /\ pages'[p].attempt \in Int /\ p \in DOMAIN pages'
           /\ pages'[p].state \in ActiveStates => pages[p].state \in ActiveStates
           /\ \/ pages'[p].attempt = pages[p].attempt
              \/ \E w \in Workers : /\ RecordWins(w) /\ PageOf(w) = p /\ AttemptOf(w) \in Nat
                                    /\ pages'[p].attempt = AttemptOf(w)
                                    /\ AttemptOf(w) > pages[p].attempt
              \/ \E w \in Workers : /\ Expire(w) /\ PageOf(w) = p
                                    /\ pages'[p].state \notin ActiveStates
                                    /\ pages'[p].attempt = inv[w].attempt
<1>1. TypeInv /\ TypeInv' /\ p \in DOMAIN pages'
  BY TypeInvStep, StateForward DEF ContractInv
<1>2. pages[p].attempt \in Int /\ pages'[p].attempt \in Int
  BY <1>1 DEF TypeInv, TypeOK, TableType, PageRec, Attempts
<1>3. pages'[p].state \in ActiveStates => pages[p].state \in ActiveStates
  BY StateForward
<1>4. ASSUME NEW w \in Workers, RecordWins(w), PageOf(w) = p
      PROVE  AttemptOf(w) \in Nat /\ AttemptOf(w) > pages[p].attempt
  BY <1>4, RecordAttempt DEF GuardInv, PastLoad, Recorded
<1>5. "expired" \notin ActiveStates
  BY DEF ActiveStates
<1> QED
  BY <1>1, <1>2, <1>3, <1>4, <1>5, AttemptStep

\* A push leaves its event after its attempt was recorded.
LEMMA PushStep ==
    ASSUME ContractInv, [Next]_vars, NEW p \in DOMAIN pages
    PROVE  /\ events[p]["push_attempt"] \in Nat
           /\ \/ events'[p]["push_attempt"] = events[p]["push_attempt"]
              \/ /\ events'[p]["push_attempt"] = events[p]["push_attempt"] + 1
                 /\ UNCHANGED pages
                 /\ \E w \in Workers : /\ AttemptEvent(w) /\ PageOf(w) = p /\ GoesOn(w)
                                       /\ inv[w].pc = "attemptEvent"
                                       /\ inv'[w].pc = "enqueue"
<1>0. /\ TypeInv /\ p \in PageIds /\ "push_attempt" \in EventTypes
      /\ events[p]["push_attempt"] \in Nat
  BY DEF ContractInv, TypeInv, TypeOK, TableType, EventTypes
<1>1. ASSUME NEW w \in Workers, AttemptEvent(w)
      PROVE  /\ GoesOn(w) /\ inv[w].pc = "attemptEvent" /\ inv'[w].pc = "enqueue"
             /\ UNCHANGED pages
  BY <1>0, <1>1 DEF AttemptEvent, GoesOn, Goto, TypeInv, TypeOK, PagerType, Invocation
<1> QED
  BY <1>0, <1>1, EventStep

------------------------------------------------------------------------------
(* The numbering of attempts: one push at a time *)

\* While the page is active, what an invocation past the guard knows stays true when it
\* does not move: no other records or pushes.
LEMMA GuardRests ==
    ASSUME ContractInv, GuardInv, PushAlone, Receivers = {}, [Next]_vars, NEW w \in Workers,
           inv[w].pc \in PastLoad, inv'[w] = inv[w], NEW p \in DOMAIN pages, PageOf(w) = p
    PROVE  /\ events'[p]["push_attempt"] = events[p]["push_attempt"]
           /\ \/ pages'[p].attempt = pages[p].attempt
              \/ \E v \in Workers : /\ Expire(v) /\ PageOf(v) = p
                                    /\ pages'[p].state \notin ActiveStates
                                    /\ pages'[p].attempt = inv[v].attempt
<1>0. TypeInv
  BY DEF ContractInv
<1>1. ASSUME NEW v \in Workers, RecordWins(v) \/ AttemptEvent(v), PageOf(v) = p
      PROVE  FALSE
  <2>1. inv[v].pc \in {"record", "attemptEvent"}
    BY <1>1 DEF RecordWins, AttemptEvent
  <2>2. v = w
    BY <1>1, <2>1 DEF PushAlone, PastLoad
  <2>3. RecordWins(w) => inv'[w].pc = "attemptEvent" /\ inv[w].pc = "record"
    BY RecordAttempt
  <2>4. AttemptEvent(w) => inv'[w].pc = "enqueue" /\ inv[w].pc = "attemptEvent"
    BY <1>0 DEF AttemptEvent, Goto, TypeInv, TypeOK, PagerType, Invocation
  <2> QED
    BY <1>1, <2>2, <2>3, <2>4
<1>2. events'[p]["push_attempt"] = events[p]["push_attempt"]
  BY <1>1, PushStep
<1> QED
  BY <1>1, <1>2, AttemptMoves

\* An invocation that has just passed the guard loaded an active page that is behind its
\* attempt.
LEMMA LoadDueSays ==
    ASSUME TypeInv, ~EventualReads, NEW w \in Workers, LoadDue(w)
    PROVE  /\ inv[w].pc = "load" /\ PageOf(w) \in DOMAIN pages
           /\ pages[PageOf(w)].state \in ActiveStates /\ UNCHANGED <<pages, events>>
           /\ AttemptOf(w) > pages[PageOf(w)].attempt
<1>1. inv[w].pc = "load" /\ UNCHANGED <<pages, events>>
  BY DEF LoadDue
<1>2. PageOf(w) \in DOMAIN pages /\ AttemptOf(w) \in Nat
  BY <1>1, RecordAtHand DEF HandlingPc, PagerPc
<1>3. pages[PageOf(w)].attempt \in Int
  BY <1>2 DEF TypeInv, TypeOK, TableType, PageRec, Attempts
<1>4. Active(pages[PageOf(w)].state) /\ ~ AlreadyRan(pages[PageOf(w)], AttemptOf(w))
  BY DEF LoadDue, Copies, NeedsNag
<1>5. ~ (pages[PageOf(w)].attempt >= AttemptOf(w))
  BY <1>4 DEF AlreadyRan
<1> QED
  BY <1>1, <1>2, <1>3, <1>4, <1>5 DEF Active

\* Past the guard, a step of the invocation leaves events and attempt alone, except that
\* it records its attempt, or leaves its event.
LEMMA PastLoadStep ==
    ASSUME TypeInv, NEW w \in Workers, GoesOn(w), inv[w].pc \in PastLoad
    PROVE  \/ RecordWins(w)
           \/ RecordConflict(w) /\ UNCHANGED <<pages, events>>
           \/ AttemptEvent(w) /\ UNCHANGED pages /\ inv'[w].pc = "enqueue"
           \/ /\ UNCHANGED pages
              /\ inv[w].pc \notin Recorded /\ inv'[w].pc \notin Recorded
<1>1. /\ ~ (LoadExpired(w) \/ LoadDue(w) \/ Expire(w))
  BY DEF LoadExpired, LoadDue, Expire, PastLoad
<1>2. AttemptEvent(w) => UNCHANGED pages /\ inv'[w].pc = "enqueue"
  BY DEF AttemptEvent, Goto, TypeInv, TypeOK, PagerType, Invocation
<1>3. RecordConflict(w) => UNCHANGED <<pages, events>>
  BY DEF RecordConflict
<1>4. ASSUME NEW d \in Devices, Send(w, d) \/ SendGone(w, d)
      PROVE  UNCHANGED pages /\ inv[w].pc \notin {"record", "attemptEvent"}
  BY <1>4 DEF Send, SendGone
<1>5. ListDevices(w) \/ NoDevices(w) \/ GetSender(w) \/ Prune(w) =>
         UNCHANGED pages /\ inv[w].pc \notin {"record", "attemptEvent"}
  BY DEF ListDevices, NoDevices, GetSender, Prune
<1>6. \/ RecordWins(w) \/ RecordConflict(w) \/ AttemptEvent(w)
      \/ UNCHANGED pages /\ inv[w].pc \notin {"record", "attemptEvent"}
  BY <1>1, <1>4, <1>5 DEF GoesOn
<1>7. inv[w].pc \notin {"record", "attemptEvent"} =>
         inv[w].pc \notin Recorded /\ inv'[w].pc \notin Recorded
  BY GoesOnTrial DEF Recorded, RecordWins, RecordConflict
<1> QED
  BY <1>2, <1>3, <1>6, <1>7

\* What the guard of main.go:142 promises holds, page by page and invocation by
\* invocation.
LEMMA GuardWorkerStep ==
    ASSUME ContractInv, RecordInv, GuardInv, PushAlone, Receivers = {}, ~EventualReads,
           [Next]_vars, NEW w \in Workers, inv'[w].pc \in PastLoad,
           NEW p \in PageIds, PageOf(w)' = p, pages'[p].state \in ActiveStates
    PROVE  /\ p \in DOMAIN pages
           /\ inv'[w].pc \notin Recorded => AttemptOf(w)' > pages'[p].attempt
           /\ inv'[w].pc = "attemptEvent" => events'[p]["push_attempt"] <= pages'[p].attempt
<1>0. TypeInv
  BY DEF ContractInv
<1>1. /\ inv[w].pc \in HandlingPc /\ (inv'[w] = inv[w] \/ GoesOn(w))
      /\ PageOf(w) = p /\ AttemptOf(w)' = AttemptOf(w) /\ p \in DOMAIN pages
  BY <1>0, RecordKept DEF PastLoad, HandlingPc, PagerPc
<1>2. /\ pages[p].state \in ActiveStates /\ AttemptOf(w) \in Nat
      /\ events[p]["push_attempt"] \in Nat /\ pages[p].attempt \in Int
      /\ events[p]["push_attempt"] <= pages[p].attempt + 1
  <2>1. AttemptOf(w) \in Nat
    BY <1>0, <1>1, RecordAtHand
  <2>2. pages[p].state \in ActiveStates /\ pages[p].attempt \in Int
    BY <1>1, AttemptMoves
  <2>3. events[p]["push_attempt"] \in Nat
    BY <1>1, PushStep
  <2> QED
    BY <1>1, <2>1, <2>2, <2>3 DEF GuardInv
<1>3. CASE inv'[w] = inv[w]
  <2>1. events'[p]["push_attempt"] = events[p]["push_attempt"]
        /\ pages'[p].attempt = pages[p].attempt
    BY <1>1, <1>3, GuardRests
  <2> QED
    BY <1>1, <1>2, <1>3, <2>1 DEF GuardInv
<1>4. CASE LoadDue(w)
  <2>1. inv'[w].pc \notin Recorded
    BY <1>0, <1>4, GoesOnTrial, LoadDueSays DEF GoesOn, Recorded, RecordWins, RecordConflict
  <2> QED
    BY <1>0, <1>1, <1>4, <2>1, LoadDueSays DEF Recorded
<1>5. CASE GoesOn(w) /\ inv[w].pc \in PastLoad
  <2>1. CASE RecordWins(w)
    <3>1. pages'[p].attempt = AttemptOf(w) /\ UNCHANGED events /\ inv[w].pc = "record"
          /\ inv'[w].pc = "attemptEvent"
      BY <1>1, <2>1, RecordAttempt
    <3>2. AttemptOf(w) > pages[p].attempt
      BY <1>1, <1>2, <3>1 DEF GuardInv, PastLoad, Recorded
    <3> QED
      BY <1>1, <1>2, <3>1, <3>2 DEF Recorded
  <2>2. CASE RecordConflict(w) /\ UNCHANGED <<pages, events>>
    <3>1. inv[w].trial = 1
      BY <1>0, <1>1, <1>2, <2>2, ConflictSays DEF TypeInv, TypeOK, PagerType, Invocation
    <3>2. inv[w].pc = "record" /\ inv'[w].pc = "record"
      BY <1>0, <2>2, <3>1 DEF RecordConflict, RecordTransitions, TypeInv, TypeOK, PagerType,
                              Invocation
    <3> QED
      BY <1>1, <1>2, <2>2, <3>2 DEF GuardInv, PastLoad, Recorded
  <2>3. CASE AttemptEvent(w) /\ inv'[w].pc = "enqueue"
    BY <1>1, <2>3 DEF Recorded
  <2>4. CASE UNCHANGED pages /\ inv[w].pc \notin Recorded /\ inv'[w].pc \notin Recorded
    BY <1>1, <1>2, <1>5, <2>4 DEF GuardInv, Recorded
  <2> QED
    BY <1>0, <1>5, <2>1, <2>2, <2>3, <2>4, PastLoadStep
<1>6. LoadDue(w) \/ inv[w].pc \in PastLoad \/ inv'[w] = inv[w]
  BY <1>0, <1>1, GoesOnPc DEF PastLoad
<1> QED
  BY <1>1, <1>3, <1>4, <1>5, <1>6

\* A page is born at attempt -1, with no push to its name.
LEMMA BornSilent ==
    ASSUME ContractInv, TimelineInv, NEW p \in PageIds, p \notin DOMAIN pages, CreateNew(p)
    PROVE  pages'[p].attempt = -1 /\ events'[p]["push_attempt"] = 0
<1>1. TableType /\ "push_attempt" \in EventTypes /\ "created" \in EventTypes
  BY DEF ContractInv, TypeInv, TypeOK, EventTypes
<1>2. pages'[p].attempt = -1
  BY DEF CreateNew, CreatePage, Put, Page
<1>3. events[p]["push_attempt"] = 0
  BY <1>1 DEF TimelineInv, TimelineOf
<1>4. events' = [events EXCEPT ![p]["created"] = @ + 1]
  BY DEF CreateNew, CreatePage
<1>5. events'[p]["push_attempt"] = 0
  BY <1>1, <1>3, <1>4, AppendCount
<1> QED
  BY <1>2, <1>5

\* And so GuardInv is preserved by every step that starts with one push at a time.
LEMMA GuardInvStep ==
    ASSUME ContractInv, RecordInv, TimelineInv, GuardInv, PushAlone, Receivers = {},
           ~EventualReads, [Next]_vars
    PROVE  GuardInv'
<1>0. TypeInv /\ TypeInv'
  BY TypeInvStep DEF ContractInv
<1>1. ASSUME NEW w \in Workers, inv'[w].pc \in PastLoad,
             pages'[PageOf(w)'].state \in ActiveStates
      PROVE  /\ inv'[w].pc \notin Recorded => AttemptOf(w)' > pages'[PageOf(w)'].attempt
             /\ inv'[w].pc = "attemptEvent" =>
                   events'[PageOf(w)']["push_attempt"] <= pages'[PageOf(w)'].attempt
  <2>1. PICK p \in PageIds : PageOf(w)' = p
    <3>1. PageOf(w)' = PageOf(w) /\ PageOf(w) \in DOMAIN pages
      BY <1>0, <1>1, RecordKept DEF PastLoad, HandlingPc, PagerPc
    <3> QED
      BY <1>0, <3>1 DEF TypeInv, TypeOK, TableType
  <2> QED
    BY <1>1, <2>1, GuardWorkerStep
<1>2. ASSUME NEW p \in DOMAIN pages', pages'[p].state \in ActiveStates
      PROVE  events'[p]["push_attempt"] <= pages'[p].attempt + 1
  <2>1. CASE p \in DOMAIN pages
    <3>1. /\ pages[p].state \in ActiveStates /\ pages[p].attempt \in Int
          /\ events[p]["push_attempt"] \in Nat /\ pages'[p].attempt \in Int
          /\ events[p]["push_attempt"] <= pages[p].attempt + 1
          /\ pages'[p].attempt >= pages[p].attempt
      BY <1>2, <2>1, AttemptMoves, PushStep DEF GuardInv
    <3>2. CASE events'[p]["push_attempt"] = events[p]["push_attempt"]
      BY <3>1, <3>2
    <3>3. ASSUME events'[p]["push_attempt"] = events[p]["push_attempt"] + 1, UNCHANGED pages,
                 NEW w \in Workers, PageOf(w) = p, inv[w].pc = "attemptEvent"
          PROVE  events'[p]["push_attempt"] <= pages'[p].attempt + 1
      <4>1. events[p]["push_attempt"] <= pages[p].attempt
        BY <3>1, <3>3 DEF GuardInv, PastLoad
      <4> QED
        BY <3>1, <3>3, <4>1
    <3> QED
      BY <2>1, <3>2, <3>3, PushStep
  <2>2. CASE p \notin DOMAIN pages
    <3>1. pages'[p].attempt = -1 /\ events'[p]["push_attempt"] = 0
      BY <1>2, <2>2, PagesStep, BornSilent
    <3> QED
      BY <3>1
  <2> QED
    BY <2>1, <2>2
<1> QED
  BY <1>1, <1>2 DEF GuardInv

\* Where one invocation pushes or expires a page at a time, nothing it knows of the page
\* changes while it rests.
LEMMA SettledRests ==
    ASSUME ContractInv, GuardInv, NoOverlap, Receivers = {}, [Next]_vars, NEW w \in Workers,
           inv[w].pc \in PastLoad \cup {"expire"}, inv'[w] = inv[w],
           NEW p \in DOMAIN pages, PageOf(w) = p
    PROVE  /\ events'[p]["push_attempt"] = events[p]["push_attempt"]
           /\ pages'[p].attempt = pages[p].attempt
<1>0. TypeInv
  BY DEF ContractInv
<1>1. ASSUME NEW v \in Workers, RecordWins(v) \/ AttemptEvent(v) \/ Expire(v), PageOf(v) = p
      PROVE  FALSE
  <2>1. inv[v].pc \in {"record", "attemptEvent", "expire"}
    BY <1>1 DEF RecordWins, AttemptEvent, Expire
  <2>2. v = w
    BY <1>1, <2>1 DEF NoOverlap, PastLoad
  <2>3. RecordWins(w) => inv'[w].pc = "attemptEvent" /\ inv[w].pc = "record"
    BY RecordAttempt
  <2>4. AttemptEvent(w) => inv'[w].pc = "enqueue" /\ inv[w].pc = "attemptEvent"
    BY <1>0 DEF AttemptEvent, Goto, TypeInv, TypeOK, PagerType, Invocation
  <2>5. Expire(w) => inv'[w].pc = "expiredEvent" /\ inv[w].pc = "expire"
    BY <1>0 DEF Expire, Goto, TypeInv, TypeOK, PagerType, Invocation
  <2> QED
    BY <1>1, <2>2, <2>3, <2>4, <2>5
<1> QED
  BY <1>1, PushStep, AttemptMoves

\* The attempt recorded never goes back: an expiry writes the attempt it found.
LEMMA AttemptGrows ==
    ASSUME ContractInv, GuardInv, SettledInv, Receivers = {}, [Next]_vars, NEW p \in DOMAIN pages
    PROVE  pages'[p].attempt >= pages[p].attempt
<1>1. pages[p].attempt \in Int /\ pages'[p].attempt \in Int
  BY AttemptMoves
<1>2. ASSUME NEW w \in Workers, Expire(w), PageOf(w) = p
      PROVE  inv[w].attempt = pages[p].attempt
  BY <1>2 DEF SettledInv, Expire
<1> QED
  BY <1>1, <1>2, AttemptMoves

\* What the bound on the pushes of a page that settles rests on.
LEMMA SettledWorkerStep ==
    ASSUME ContractInv, GuardInv, SettledInv, NoOverlap, Receivers = {}, ~EventualReads,
           [Next]_vars, NEW w \in Workers, inv'[w].pc \in PastLoad \cup {"expire"},
           NEW p \in PageIds, PageOf(w)' = p
    PROVE  /\ inv'[w].pc = "expire" => inv'[w].attempt = pages'[p].attempt
           /\ inv'[w].pc \in PastLoad \ {"enqueue"} =>
                 events'[p]["push_attempt"] <= pages'[p].attempt + 1
<1>0. TypeInv /\ PushAlone /\ "expire" \notin PastLoad
  BY DEF ContractInv, NoOverlap, PushAlone, PastLoad
<1>1. /\ inv[w].pc \in HandlingPc /\ (inv'[w] = inv[w] \/ GoesOn(w))
      /\ PageOf(w) = p /\ AttemptOf(w)' = AttemptOf(w) /\ p \in DOMAIN pages
  BY <1>0, RecordKept DEF PastLoad, HandlingPc, PagerPc
<1>2. pages[p].attempt \in Int /\ events[p]["push_attempt"] \in Nat
  BY <1>1, AttemptMoves, PushStep
<1>3. CASE inv'[w] = inv[w]
  <2>1. events'[p]["push_attempt"] = events[p]["push_attempt"]
        /\ pages'[p].attempt = pages[p].attempt
    BY <1>1, <1>3, SettledRests
  <2> QED
    BY <1>1, <1>3, <2>1 DEF SettledInv
<1>4. CASE LoadExpired(w)
  <2>1. /\ inv[w].pc = "load" /\ UNCHANGED pages
        /\ inv' = [inv EXCEPT ![w].pc = "expire", ![w].attempt = pages[p].attempt]
    BY <1>1, <1>4 DEF LoadExpired, Copies
  <2>2. inv'[w].pc = "expire" /\ inv'[w].attempt = pages[p].attempt
    BY <1>0, <2>1 DEF TypeInv, TypeOK, PagerType, Invocation
  <2> QED
    BY <1>0, <2>1, <2>2
<1>5. CASE LoadDue(w)
  <2>1. pages[p].state \in ActiveStates /\ UNCHANGED <<pages, events>>
    BY <1>0, <1>1, <1>5, LoadDueSays
  <2>2. inv'[w].pc # "expire"
    <3>1. ~ LoadExpired(w)
      BY <1>5 DEF LoadDue, LoadExpired
    <3>2. inv[w].pc = "load" /\ GoesOn(w)
      BY <1>5 DEF LoadDue, GoesOn
    <3> QED
      BY <1>0, <3>1, <3>2, GoesOnPc DEF PastLoad
  <2> QED
    BY <1>1, <2>1, <2>2 DEF GuardInv
<1>6. CASE GoesOn(w) /\ inv[w].pc \in PastLoad
  <2>1. inv'[w].pc # "expire"
    BY <1>0, <1>6, GoesOnPc DEF LoadExpired, Expire, PastLoad
  <2>2. CASE RecordWins(w)
    <3>1. pages'[p].attempt = AttemptOf(w) /\ UNCHANGED events /\ inv[w].pc = "record"
          /\ pages[p].state \in ActiveStates /\ AttemptOf(w) \in Nat
      BY <1>1, <2>2, RecordAttempt
    <3>2. AttemptOf(w) > pages[p].attempt
      BY <1>1, <3>1 DEF GuardInv, PastLoad, Recorded
    <3>3. events[p]["push_attempt"] <= pages[p].attempt + 1
      BY <1>1, <3>1 DEF SettledInv, PastLoad
    <3> QED
      BY <1>2, <2>1, <3>1, <3>2, <3>3
  <2>3. CASE RecordConflict(w) /\ UNCHANGED <<pages, events>>
    <3>1. inv[w].pc = "record"
      BY <2>3 DEF RecordConflict
    <3> QED
      BY <1>1, <2>1, <2>3, <3>1 DEF SettledInv, PastLoad
  <2>4. CASE AttemptEvent(w) /\ inv'[w].pc = "enqueue"
    BY <2>4
  <2>5. CASE UNCHANGED pages /\ inv[w].pc \notin Recorded /\ inv'[w].pc \notin Recorded
    <3>1. ASSUME NEW v \in Workers, PageOf(v) = p, inv[v].pc = "attemptEvent"
          PROVE  FALSE
      <4>1. v = w
        BY <1>0, <1>1, <1>6, <3>1 DEF PushAlone, PastLoad
      <4> QED
        BY <2>5, <3>1, <4>1 DEF Recorded
    <3>2. events'[p]["push_attempt"] = events[p]["push_attempt"]
      BY <1>1, <3>1, PushStep
    <3> QED
      BY <1>1, <1>6, <2>1, <2>5, <3>2 DEF SettledInv, Recorded
  <2> QED
    BY <1>0, <1>6, <2>2, <2>3, <2>4, <2>5, PastLoadStep
<1>7. \/ inv'[w] = inv[w] \/ LoadExpired(w) \/ LoadDue(w)
      \/ GoesOn(w) /\ inv[w].pc \in PastLoad
  BY <1>0, <1>1, GoesOnPc DEF PastLoad
<1> QED
  BY <1>3, <1>4, <1>5, <1>6, <1>7

\* And so it is preserved by every step that starts without an overlap.
LEMMA SettledInvStep ==
    ASSUME ContractInv, TimelineInv, GuardInv, SettledInv, NoOverlap, Receivers = {},
           ~EventualReads, [Next]_vars
    PROVE  SettledInv'
<1>0. TypeInv /\ TypeInv'
  BY TypeInvStep DEF ContractInv
<1>1. ASSUME NEW w \in Workers, inv'[w].pc \in PastLoad \cup {"expire"}
      PROVE  /\ inv'[w].pc = "expire" => inv'[w].attempt = pages'[PageOf(w)'].attempt
             /\ inv'[w].pc \in PastLoad \ {"enqueue"} =>
                   events'[PageOf(w)']["push_attempt"] <= pages'[PageOf(w)'].attempt + 1
  <2>1. PICK p \in PageIds : PageOf(w)' = p
    <3>1. PageOf(w)' = PageOf(w) /\ PageOf(w) \in DOMAIN pages
      BY <1>0, <1>1, RecordKept DEF PastLoad, HandlingPc, PagerPc
    <3> QED
      BY <1>0, <3>1 DEF TypeInv, TypeOK, TableType
  <2> QED
    BY <1>1, <2>1, SettledWorkerStep
<1>2. ASSUME NEW p \in DOMAIN pages'
      PROVE  events'[p]["push_attempt"] <= pages'[p].attempt + 2
  <2>1. CASE p \in DOMAIN pages
    <3>1. /\ pages[p].attempt \in Int /\ pages'[p].attempt \in Int
          /\ events[p]["push_attempt"] \in Nat
          /\ events[p]["push_attempt"] <= pages[p].attempt + 2
          /\ pages'[p].attempt >= pages[p].attempt
      BY <2>1, AttemptMoves, PushStep, AttemptGrows DEF SettledInv
    <3>2. CASE events'[p]["push_attempt"] = events[p]["push_attempt"]
      BY <3>1, <3>2
    <3>3. ASSUME events'[p]["push_attempt"] = events[p]["push_attempt"] + 1, UNCHANGED pages,
                 NEW w \in Workers, PageOf(w) = p, inv[w].pc = "attemptEvent"
          PROVE  events'[p]["push_attempt"] <= pages'[p].attempt + 2
      <4>1. events[p]["push_attempt"] <= pages[p].attempt + 1
        BY <3>1, <3>3 DEF SettledInv, PastLoad
      <4> QED
        BY <3>1, <3>3, <4>1
    <3> QED
      BY <2>1, <3>2, <3>3, PushStep
  <2>2. CASE p \notin DOMAIN pages
    <3>1. pages'[p].attempt = -1 /\ events'[p]["push_attempt"] = 0
      BY <1>2, <2>2, PagesStep, BornSilent
    <3> QED
      BY <3>1
  <2> QED
    BY <2>1, <2>2
<1> QED
  BY <1>1, <1>2 DEF SettledInv

------------------------------------------------------------------------------
(* The numbering of attempts: single delivery *)

\* Where SQS makes no duplicates, a message is new because one task was sent.
LEMMA SendStep ==
    ASSUME TypeInv, MaxDups = 0, [Next]_vars, NEW m \in DOMAIN queue' \ DOMAIN queue
    PROVE  /\ \A l \in DOMAIN queue' \ DOMAIN queue : l = m
           /\ \/ \E w \in Workers : /\ inv[w].pc = "enqueue" /\ inv'[w].pc = "next"
                                    /\ queue'[m].page = PageOf(w)
              \/ \E p \in PageIds : /\ creates[p] = "enqueue" /\ creates'[p] # "enqueue"
                                    /\ queue'[m].page = p
<1> DEFINE Goal == /\ \A l \in DOMAIN queue' \ DOMAIN queue : l = m
                   /\ \/ \E w \in Workers : /\ inv[w].pc = "enqueue" /\ inv'[w].pc = "next"
                                            /\ queue'[m].page = PageOf(w)
                      \/ \E p \in PageIds : /\ creates[p] = "enqueue" /\ creates'[p] # "enqueue"
                                            /\ queue'[m].page = p
<1>0. QueueType
  BY DEF TypeInv, TypeOK
<1>1. DOMAIN queue' \subseteq DOMAIN queue => FALSE
  OBVIOUS
<1>2. ASSUME NEW w \in Workers, EndBatch(w) \/ Crash(w)
      PROVE  DOMAIN queue' \subseteq DOMAIN queue
  BY <1>2 DEF EndBatch, Crash, Settle
<1>3. CASE PagerNext /\ UNCHANGED apiVars
  <2>1. ASSUME NEW w \in Workers, Receive(w)
        PROVE  FALSE
    BY <1>1, <2>1, ReceiveHold
  <2>2. ASSUME NEW w \in Workers, EnqueueNext(w) \/ EnqueueFinal(w)
        PROVE  Goal
    <3>1. PICK c \in MsgIds \ DOMAIN queue, d \in Nat :
             /\ DOMAIN queue' = DOMAIN queue \cup {c}
             /\ queue'[c] = Message(PageOf(w), AttemptOf(w) + 1, d)
      BY <1>3, <2>2, EnqueueStep
    <3>2. m = c /\ queue'[m].page = PageOf(w)
      BY <3>1 DEF Message
    <3>3. inv[w].pc = "enqueue" /\ inv'[w].pc = "next"
      <4>1. inv[w].pc = "enqueue" /\ ReturnNil(w)
        BY <2>2 DEF EnqueueNext, EnqueueFinal
      <4> QED
        BY <4>1 DEF ReturnNil, Between, Idle, TypeInv, TypeOK, PagerType
    <3> QED
      BY <3>1, <3>2, <3>3
  <2>3. ASSUME NEW w \in Workers, GoesOn(w) \/ Returns(w) \/ NextRecord(w) \/ Fail(w)
        PROVE  FALSE
    BY <1>1, <1>3, <2>3, GoesOnStep, ReturnsStep DEF NextRecord, Fail
  <2>4. ASSUME NEW d \in Devices, RegisterDevice(d) \/ TokenDies(d)
        PROVE  FALSE
    BY <1>1, <2>4 DEF RegisterDevice, TokenDies
  <2> QED
    BY <1>1, <1>2, <1>3, <2>1, <2>2, <2>3, <2>4, HandleRecordCases DEF PagerNext, PagerStep
<1>4. CASE (ClientNext \/ ApiNext) /\ UNCHANGED pagerVars
  <2>1. ASSUME NEW p \in PageIds, CreateNew(p)
        PROVE  FALSE
    BY <1>1, <2>1 DEF CreateNew
  <2>2. ASSUME NEW p \in PageIds, CreateStep(p)
        PROVE  Goal
    <3>1. CreateEnqueue(p)
          /\ \E c \in MsgIds \ DOMAIN queue :
                /\ DOMAIN queue' = DOMAIN queue \cup {c}
                /\ queue'[c] = Message(p, 0, 0)
      BY <1>1, <1>4, <2>2, CreateStepType
    <3>2. PICK c \in MsgIds \ DOMAIN queue :
             DOMAIN queue' = DOMAIN queue \cup {c} /\ queue'[c] = Message(p, 0, 0)
      BY <3>1
    <3>3. m = c /\ queue'[m].page = p
      BY <3>2 DEF Message
    <3>4. creates[p] = "enqueue" /\ creates'[p] # "enqueue"
      BY <3>1 DEF CreateEnqueue, CreateReply, TypeInv, TypeOK, ApiType
    <3> QED
      BY <3>2, <3>3, <3>4
  <2>3. ASSUME NEW a \in Ackers, AckNext(a)
        PROVE  FALSE
    BY <1>1, <1>4, <2>3, AckNextStep
  <2>4. ASSUME NEW r \in Receivers, ReceiptNext(r)
        PROVE  FALSE
    BY <1>1, <1>4, <2>4, ReceiptNextStep
  <2> QED
    BY <1>4, <2>1, <2>2, <2>3, <2>4, ApiCases
<1>5. ASSUME NEW s \in MsgIds, Duplicate(s)
      PROVE  FALSE
  BY <1>0, <1>5 DEF Duplicate, QueueType
<1>6. CASE Tick
  BY <1>0, <1>1, <1>6, DelayTickType DEF Tick
<1>7. ASSUME NEW p \in PageIds, Replicate(p) /\ UNCHANGED <<queueVars, pagerVars, apiVars>>
      PROVE  FALSE
  BY <1>1, <1>7
<1>8. CASE Rest \/ UNCHANGED vars
  BY <1>1, <1>8 DEF Rest
<1> QED
  BY <1>3, <1>4, <1>5, <1>6, <1>7, <1>8 DEF Next

\* A task of an active page that will pass the guard would have before the step.
LEMMA FreshStep ==
    ASSUME ContractInv, GuardInv, Receivers = {}, [Next]_vars, NEW p \in DOMAIN pages,
           pages'[p].state \in ActiveStates, NEW m \in DOMAIN queue, m \in DOMAIN queue',
           Fresh(m, p)'
    PROVE  /\ Fresh(m, p)
           /\ queue'[m].attempt = queue[m].attempt /\ queue[m].attempt \in Nat
<1>1. SameTask(m) /\ queue[m].attempt \in Nat
  BY TasksKept, MessageType DEF ContractInv
<1>2. pages[p].attempt \in Int /\ pages'[p].attempt \in Int
      /\ pages'[p].attempt >= pages[p].attempt
  BY AttemptMoves
<1> QED
  BY <1>1, <1>2 DEF Fresh, SameTask

\* An invocation past the guard of an active page has such a task at hand.
LEMMA FreshAtHand ==
    ASSUME TypeInv, GuardInv, NEW w \in Workers, inv[w].pc \in PastLoad \ Recorded,
           NEW p \in DOMAIN pages, PageOf(w) = p, pages[p].state \in ActiveStates
    PROVE  inv[w].msg \in DOMAIN queue /\ Fresh(inv[w].msg, p)
<1>1. inv[w].msg \in DOMAIN queue
  BY RecordAtHand DEF PastLoad, HandlingPc, PagerPc
<1>2. AttemptOf(w) > pages[p].attempt
  BY DEF GuardInv
<1> QED
  BY <1>1, <1>2 DEF Fresh, PageOf, AttemptOf

\* Past the record of an active page is who was, or has just recorded.
LEMMA RecordingStep ==
    ASSUME ContractInv, RecordInv, [Next]_vars, NEW w \in Workers, NEW p \in PageIds,
           Recording(w, p)', pages'[p].state \in ActiveStates
    PROVE  p \in DOMAIN pages /\ PageOf(w) = p /\ (Recording(w, p) \/ RecordWins(w))
<1>0. TypeInv
  BY DEF ContractInv
<1>1. /\ inv'[w] = inv[w] \/ GoesOn(w)
      /\ PageOf(w) = p /\ p \in DOMAIN pages
  BY <1>0, RecordKept DEF Recording, Recorded, HandlingPc, PagerPc
<1>2. pages[p].state \in ActiveStates
  BY <1>1, StateForward
<1>3. ASSUME RecordConflict(w)
      PROVE  inv[w].trial = 1
  BY <1>1, <1>2, <1>3, ConflictSays
<1>4. inv'[w].pc \in Recorded
  BY DEF Recording
<1>5. inv[w].pc \in Recorded \/ RecordWins(w)
  BY <1>0, <1>1, <1>3, <1>4, GoesOnTrial DEF Recorded
<1> QED
  BY <1>1, <1>5 DEF Recording

\* A create that is about to enqueue was, or has just made its page.
LEMMA CreatesStep ==
    ASSUME TypeInv, [Next]_vars, NEW p \in DOMAIN pages, creates'[p] = "enqueue"
    PROVE  creates[p] = "enqueue"
<1>0. creates \in [PageIds -> CreateStatus] /\ p \in PageIds
  BY DEF TypeInv, TypeOK, ApiType, TableType
<1>1. ASSUME NEW q \in PageIds, CreateNew(q)
      PROVE  creates[p] = "enqueue"
  BY <1>0, <1>1 DEF CreateNew, Creatable, CreateReply
<1>2. ASSUME NEW q \in PageIds, CreateStep(q), UNCHANGED pagerVars
      PROVE  creates[p] = "enqueue"
  BY <1>0, <1>2, CreateStepType
<1>3. ASSUME NEW a \in Ackers, AckNext(a)
      PROVE  UNCHANGED creates
  BY <1>3 DEF AckNext, AckRequest, AckStep, AckLoad, AckWrite, AckConflict, AckReread,
              AckEvent, AckFails
<1>4. ASSUME NEW r \in Receivers, ReceiptNext(r)
      PROVE  UNCHANGED creates
  BY <1>4 DEF ReceiptNext, ReceiptRequest, ReceiptStep, ReceiptLoad, ReceiptWrite,
              ReceiptConflict, ReceiptEvent, ReceiptFails
<1> QED
  BY <1>1, <1>2, <1>3, <1>4, RequestCases

\* A page is born with its first task still to be sent.
LEMMA OneTaskBorn ==
    ASSUME ContractInv, RecordInv, [Next]_vars, NEW p \in DOMAIN pages' \ DOMAIN pages,
           pages'[p].state \in ActiveStates
    PROVE  OneTaskOf(p)'
<1>1. p \in PageIds /\ CreateNew(p)
  BY PagesStep
<1>2. UNCHANGED queue
  BY <1>1 DEF CreateNew
<1>3. \A m \in DOMAIN queue' : queue'[m].page # p
  BY <1>2, MessageType DEF ContractInv
<1>4. \A w \in Workers : ~ Recording(w, p)'
  BY <1>1, RecordingStep
<1> QED
  BY <1>3, <1>4 DEF OneTaskOf, Fresh

\* One task stays one: sending the next is the last that is done for the one at hand.
LEMMA OneTaskKept ==
    ASSUME ContractInv, RecordInv, GuardInv, PushAlone, OneTask, Receivers = {}, MaxDups = 0,
           [Next]_vars, NEW p \in DOMAIN pages, pages'[p].state \in ActiveStates
    PROVE  OneTaskOf(p)'
<1>0. TypeInv /\ p \in PageIds
  BY DEF ContractInv, TypeInv, TypeOK, TableType
<1>1. pages[p].state \in ActiveStates /\ OneTaskOf(p)
  BY AttemptMoves DEF OneTask
<1>2. ASSUME NEW m \in DOMAIN queue' \ DOMAIN queue, queue'[m].page = p
      PROVE  /\ \A l \in DOMAIN queue' \ DOMAIN queue : l = m
             /\ \/ \E w \in Workers : Recording(w, p) /\ inv'[w].pc = "next"
                \/ creates[p] = "enqueue" /\ creates'[p] # "enqueue"
  BY <1>0, <1>2, SendStep DEF Recording, Recorded
<1>3. ASSUME NEW w \in Workers, RecordWins(w), PageOf(w) = p
      PROVE  /\ inv[w].msg \in DOMAIN queue /\ Fresh(inv[w].msg, p) /\ UNCHANGED queue
             /\ pages'[p].attempt = queue[inv[w].msg].attempt
  <2>1. inv[w].pc = "record" /\ UNCHANGED queue /\ pages'[p].attempt = AttemptOf(w)
    BY <1>3, RecordAttempt
  <2> QED
    BY <1>0, <1>1, <1>3, <2>1, FreshAtHand DEF PastLoad, Recorded, AttemptOf
<1>4. ASSUME NEW l \in DOMAIN queue', NEW m \in DOMAIN queue', Fresh(l, p)', Fresh(m, p)'
      PROVE  l = m
  <2>1. CASE l \in DOMAIN queue /\ m \in DOMAIN queue
    BY <1>1, <1>4, <2>1, FreshStep DEF OneTaskOf
  <2>2. ASSUME NEW x \in DOMAIN queue' \ DOMAIN queue, Fresh(x, p)',
               NEW y \in DOMAIN queue', Fresh(y, p)'
        PROVE  x = y
    <3>1. y \notin DOMAIN queue
      BY <1>1, <1>2, <2>2, FreshStep DEF OneTaskOf, Fresh
    <3> QED
      BY <1>2, <2>2, <3>1 DEF Fresh
  <2> QED
    BY <1>4, <2>1, <2>2
<1>5. ASSUME NEW m \in DOMAIN queue', Fresh(m, p)', NEW w \in Workers, Recording(w, p)'
      PROVE  FALSE
  <2>1. PageOf(w) = p /\ (Recording(w, p) \/ RecordWins(w))
    BY <1>0, <1>5, RecordingStep
  <2>2. CASE m \in DOMAIN queue
    <3>1. Fresh(m, p) /\ queue'[m].attempt = queue[m].attempt
      BY <1>5, <2>2, FreshStep
    <3>2. RecordWins(w) /\ m = inv[w].msg
      BY <1>1, <1>3, <2>1, <2>2, <3>1 DEF OneTaskOf
    <3>3. queue'[m].attempt > pages'[p].attempt /\ pages'[p].attempt = queue[m].attempt
      BY <1>3, <1>5, <2>1, <3>2 DEF Fresh
    <3>4. queue[m].attempt \in Nat
      BY <1>0, <2>2, MessageType
    <3> QED
      BY <3>1, <3>3, <3>4
  <2>3. CASE m \notin DOMAIN queue
    <3>1. Recording(w, p)
      BY <1>3, <2>1, <2>3
    <3>2. PICK v \in Workers : Recording(v, p) /\ inv'[v].pc = "next"
      BY <1>1, <1>2, <1>5, <2>3, <3>1 DEF OneTaskOf, Fresh
    <3>3. v = w
      BY <3>1, <3>2 DEF PushAlone, Recording, Recorded, PastLoad
    <3> QED
      BY <1>5, <3>2, <3>3 DEF Recording, Recorded
  <2> QED
    BY <2>2, <2>3
<1>6. ASSUME creates'[p] = "enqueue"
      PROVE  /\ \A m \in DOMAIN queue' : ~ Fresh(m, p)'
             /\ \A w \in Workers : ~ Recording(w, p)'
  <2>1. creates[p] = "enqueue"
    BY <1>0, <1>6, CreatesStep
  <2>2. /\ \A m \in DOMAIN queue : ~ Fresh(m, p)
        /\ \A w \in Workers : ~ Recording(w, p)
    BY <1>1, <2>1 DEF OneTaskOf
  <2>3. ASSUME NEW m \in DOMAIN queue', Fresh(m, p)'
        PROVE  FALSE
    BY <1>2, <1>6, <2>2, <2>3, FreshStep DEF Fresh
  <2>4. ASSUME NEW w \in Workers, Recording(w, p)'
        PROVE  FALSE
    BY <1>0, <1>3, <2>2, <2>4, RecordingStep
  <2> QED
    BY <2>3, <2>4
<1> QED
  BY <1>4, <1>5, <1>6 DEF OneTaskOf

\* So nobody passes the guard of a page that another is past.
LEMMA PushAloneStep ==
    ASSUME ContractInv, GuardInv, PushAlone, OneTask, ~EventualReads, [Next]_vars
    PROVE  PushAlone'
<1>0. TypeInv
  BY DEF ContractInv
<1>1. ASSUME NEW v \in Workers, NEW w \in Workers, v # w, LoadDue(v),
             inv[w].pc \in PastLoad, PageOf(v) = PageOf(w)
      PROVE  FALSE
  <2>1. PICK p \in DOMAIN pages : PageOf(v) = p
    BY <1>0, <1>1, LoadDueSays
  <2>2. /\ pages[p].state \in ActiveStates /\ inv[v].pc = "load"
        /\ AttemptOf(v) > pages[p].attempt
    BY <1>0, <1>1, <2>1, LoadDueSays
  <2>3. inv[v].msg \in DOMAIN queue /\ inv[v].msg \in MsgIds
    BY <1>0, <2>2, RecordAtHand DEF HandlingPc, PagerPc
  <2>4. Fresh(inv[v].msg, p)
    BY <2>1, <2>2 DEF Fresh, PageOf, AttemptOf
  <2>5. inv[w].pc \notin Recorded
    BY <1>1, <2>1, <2>2, <2>3, <2>4 DEF OneTask, OneTaskOf, Recording
  <2>6. inv[w].msg \in DOMAIN queue /\ Fresh(inv[w].msg, p)
    BY <1>0, <1>1, <2>1, <2>2, <2>5, FreshAtHand
  <2>7. inv[v].msg = inv[w].msg
    BY <2>2, <2>3, <2>4, <2>6 DEF OneTask, OneTaskOf
  <2>8. inv[v].msg \in HeldBy(v) /\ inv[w].msg \in HeldBy(w)
    BY <2>3, <2>7, PagerAssumption DEF HeldBy
  <2> QED
    BY <1>0, <1>1, <2>7, <2>8 DEF TypeInv, HoldInv
<1>2. ASSUME NEW w \in Workers, inv'[w].pc \in PastLoad
      PROVE  /\ PageOf(w)' = PageOf(w)
             /\ inv[w].pc \in PastLoad \/ LoadDue(w)
  BY <1>0, <1>2, RecordKept, GoesOnPc DEF PastLoad, HandlingPc, PagerPc
<1> SUFFICES ASSUME NEW v \in Workers, NEW w \in Workers, v # w,
                    inv'[v].pc \in PastLoad, inv'[w].pc \in PastLoad,
                    PageOf(v)' = PageOf(w)'
             PROVE  FALSE
  BY DEF PushAlone
<1>3. PageOf(v) = PageOf(w)
  BY <1>2
<1>4. ASSUME LoadDue(v), LoadDue(w)
      PROVE  FALSE
  <2>1. GoesOn(v) /\ inv[w].pc = "load"
    BY <1>4 DEF GoesOn, LoadDue
  <2>2. inv'[w] # inv[w]
    BY <2>1 DEF PastLoad
  <2> QED
    BY <1>0, <2>1, <2>2, OneMoves
<1> QED
  BY <1>1, <1>2, <1>3, <1>4 DEF PushAlone

------------------------------------------------------------------------------
(* The numbering of attempts: the theorems *)

\* Receipts write back the attempt they loaded, and a stale read may show an attempt that
\* was overtaken: either lets an attempt through that has run.
Numbered == Receivers = {} /\ ~EventualReads

\* Nothing is pushed or under way in the initial states.
LEMMA NumberInit == Init => GuardInv /\ SettledInv /\ PushAlone /\ OneTask
BY DEF Init, TableInit, PagerInit, Idle, GuardInv, SettledInv, PushAlone, OneTask, PastLoad

\* The invariants the numbering rests on, besides its own.
NumberBase == ContractInv /\ AnswerInv /\ TimelineInv

\* They hold of every execution.
LEMMA NumberBaseHolds == Spec => []NumberBase
<1>1. Init => TimelineInv
  BY TimelineInvInit
<1>2. ContractInv /\ AnswerInv /\ TimelineInv /\ [Next]_vars => TimelineInv'
  BY TimelineInvStep
<1>3. ContractInv /\ AnswerInv /\ TimelineInv <=> NumberBase
  BY DEF NumberBase
<1> QED
  BY <1>1, <1>2, <1>3, AnswerInvHolds, PTL DEF Spec

\* With one push of a page at a time the guard of main.go:142 does what it promises.
LEMMA GuardInvHolds == Numbered => (Spec /\ []PushAlone => []GuardInv)
<1> SUFFICES ASSUME Numbered
             PROVE  Spec /\ []PushAlone => []GuardInv
  OBVIOUS
<1>1. NumberBase /\ PushAlone /\ GuardInv /\ [Next]_vars => GuardInv'
  BY GuardInvStep DEF NumberBase, AnswerInv, Numbered
<1> QED
  BY <1>1, NumberInit, NumberBaseHolds, PTL DEF Spec

\* Duplicates are dropped (EachAttemptOnce): as long as no two invocations push the same
\* page at the same time, the timeline of an active page has one push_attempt at most for
\* each attempt, whatever is delivered twice, and wherever invocations fail or die.
THEOREM EachAttemptOnceHolds == Numbered => (Spec /\ []PushAlone => []EachAttemptOnce)
<1>1. GuardInv => EachAttemptOnce
  BY DEF GuardInv, EachAttemptOnce, Active
<1> QED
  BY <1>1, GuardInvHolds, PTL

\* Where SQS delivers nothing twice no two invocations do, however many there are and
\* however often a message comes back because an invocation failed or died: a page has one
\* task that passes the guard, and it is in one batch.
THEOREM SingleDeliveryHolds == Numbered /\ MaxDups = 0 => (Spec => []PushAlone)
<1> SUFFICES ASSUME Numbered, MaxDups = 0
             PROVE  Spec => []PushAlone
  OBVIOUS
<1> DEFINE I == GuardInv /\ PushAlone /\ OneTask
<1>1. NumberBase /\ I /\ [Next]_vars => I'
  <2> SUFFICES ASSUME NumberBase, I, [Next]_vars
               PROVE  I'
    OBVIOUS
  <2>1. ContractInv /\ RecordInv /\ TimelineInv /\ Receivers = {} /\ ~EventualReads
    BY DEF NumberBase, AnswerInv, Numbered
  <2>2. GuardInv'
    BY <2>1, GuardInvStep
  <2>3. PushAlone'
    BY <2>1, PushAloneStep
  <2>4. OneTask'
    BY <2>1, OneTaskBorn, OneTaskKept DEF OneTask
  <2> QED
    BY <2>2, <2>3, <2>4
<1> QED
  BY <1>1, NumberInit, NumberBaseHolds, PTL DEF Spec

\* So what makes the system push an attempt twice is a duplicate delivery, a stale read or
\* a receipt, and nothing else.
THEOREM NoDuplicateNoRepeat ==
    Numbered /\ MaxDups = 0 => (Spec => []EachAttemptOnce)
BY SingleDeliveryHolds, EachAttemptOnceHolds, PTL

\* Without an overlap the bound on the pushes of a settled page is inductive.
LEMMA SettledInvHolds == Numbered => (Spec /\ []NoOverlap => [](GuardInv /\ SettledInv))
<1> SUFFICES ASSUME Numbered
             PROVE  Spec /\ []NoOverlap => [](GuardInv /\ SettledInv)
  OBVIOUS
<1>1. NoOverlap => PushAlone
  BY DEF NoOverlap, PushAlone
<1>2. NumberBase /\ NoOverlap /\ GuardInv /\ SettledInv /\ [Next]_vars => SettledInv'
  BY SettledInvStep DEF NumberBase, Numbered
<1> QED
  BY <1>1, <1>2, GuardInvHolds, NumberInit, NumberBaseHolds, PTL DEF Spec

\* "Attempt numbers start at 0" and only grow (AttemptNeverRegresses), as long as no two
\* invocations push or expire the same page at the same time.
THEOREM AttemptNeverRegressesHolds == Numbered => (Spec /\ []NoOverlap => AttemptNeverRegresses)
<1> SUFFICES ASSUME Numbered
             PROVE  Spec /\ []NoOverlap => AttemptNeverRegresses
  OBVIOUS
<1>1. NumberBase /\ GuardInv /\ SettledInv /\ [Next]_vars =>
         [\A p \in DOMAIN pages : pages'[p].attempt >= pages[p].attempt]_vars
  BY AttemptGrows DEF NumberBase, Numbered
<1> QED
  BY <1>1, SettledInvHolds, NumberBaseHolds, PTL DEF Spec, AttemptNeverRegresses

\* Acks and expiry "cancel" future nags (SettledIsSilent, main.go:5-6): of a settled page
\* one attempt at most is still pushed, the one that was past the load.
THEOREM SettledIsSilentHolds ==
    Numbered /\ IsFiniteSet(Workers) /\ Workers # {} =>
        (Spec /\ []NoOverlap => []SettledIsSilent)
<1> SUFFICES ASSUME Numbered, IsFiniteSet(Workers), Workers # {}
             PROVE  Spec /\ []NoOverlap => []SettledIsSilent
  OBVIOUS
<1>1. Cardinality(Workers) \in Nat /\ Cardinality(Workers) # 0
  BY FS_CardinalityType, FS_EmptySet
<1>2. NumberBase /\ SettledInv => SettledIsSilent
  <2> SUFFICES ASSUME NumberBase, SettledInv, NEW p \in DOMAIN pages
               PROVE  events[p]["push_attempt"] <= pages[p].attempt + 1 + Cardinality(Workers)
    BY DEF SettledIsSilent
  <2>1. pages[p].attempt \in Int /\ p \in PageIds
    BY DEF NumberBase, ContractInv, TypeInv, TypeOK, TableType, PageRec, Attempts
  <2>2. events[p]["push_attempt"] \in Nat
    BY <2>1 DEF NumberBase, ContractInv, TypeInv, TypeOK, TableType, EventTypes
  <2>3. events[p]["push_attempt"] <= pages[p].attempt + 2
    BY DEF SettledInv
  <2> QED
    BY <1>1, <2>1, <2>2, <2>3
<1> QED
  BY <1>2, SettledInvHolds, NumberBaseHolds, PTL

\* With one execution environment nothing overlaps, and all three hold of it: a duplicate
\* that comes late is always recognised.
THEOREM OneWorkerHolds ==
    Numbered /\ (\E w \in Workers : Workers = {w}) =>
        (Spec => []EachAttemptOnce /\ []SettledIsSilent /\ AttemptNeverRegresses)
<1> SUFFICES ASSUME Numbered, NEW w \in Workers, Workers = {w}
             PROVE  Spec => []EachAttemptOnce /\ []SettledIsSilent /\ AttemptNeverRegresses
  OBVIOUS
<1>1. NoOverlap /\ PushAlone
  BY DEF NoOverlap, PushAlone
<1>2. IsFiniteSet(Workers) /\ Workers # {}
  BY FS_Singleton
<1> QED
  BY <1>1, <1>2, EachAttemptOnceHolds, SettledIsSilentHolds, AttemptNeverRegressesHolds, PTL

==============================================================================
