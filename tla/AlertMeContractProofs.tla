------------------------ MODULE AlertMeContractProofs ------------------------
(* The paging core implements PageContract: its initial states are initial    *)
(* states of the contract, and every step is a step of it or a stutter.       *)
EXTENDS AlertMeTypeProofs

USE DEF vars, tableVars, queueVars, pagerVars, apiVars

------------------------------------------------------------------------------
(* The writes of the table, seen from the contract *)

\* A conditional update changes the state of one page, and no note.
LEMMA SetPageStateAbstract ==
    ASSUME TableType, NEW p \in DOMAIN pages, NEW to \in PageState, NEW n \in Int,
           SetPageState(p, to, n)
    PROVE  /\ DOMAIN pages' = DOMAIN pages
           /\ pages'[p].state = to /\ pages'[p].attempt = n /\ pages'[p].note = pages[p].note
           /\ \A q \in DOMAIN pages \ {p} : pages'[q] = pages[q]
           /\ AbstractState' = [AbstractState EXCEPT ![p] = to]
           /\ AbstractNote' = AbstractNote
<1> DEFINE page == [state |-> to, attempt |-> n, note |-> pages[p].note]
<1>1. pages[p] \in PageRec
  BY DEF TableType
<1>2. pages' = [pages EXCEPT ![p] = [[pages[p] EXCEPT !.state = to] EXCEPT !.attempt = n]]
  BY DEF SetPageState
<1>3. pages'[p].state = to /\ pages'[p].attempt = n /\ pages'[p].note = pages[p].note
  BY <1>1, <1>2 DEF PageRec
<1>4. DOMAIN pages' = DOMAIN pages /\ \A q \in DOMAIN pages \ {p} : pages'[q] = pages[q]
  BY <1>2
<1>5. DOMAIN pages \subseteq PageIds
  BY DEF TableType
<1> QED
  BY <1>3, <1>4, <1>5 DEF AbstractState, AbstractNote

\* An ack changes the state and the note of one page.
LEMMA AckPageAbstract ==
    ASSUME TableType, NEW p \in DOMAIN pages, NEW a \in Ackers, AckPage(p, a)
    PROVE  /\ DOMAIN pages' = DOMAIN pages
           /\ pages'[p].state = "acked" /\ pages'[p].attempt = pages[p].attempt
           /\ \A q \in DOMAIN pages \ {p} : pages'[q] = pages[q]
           /\ AbstractState' = [AbstractState EXCEPT ![p] = "acked"]
           /\ AbstractNote' = [AbstractNote EXCEPT ![p] = a]
<1>1. pages[p] \in PageRec
  BY DEF TableType
<1>2. pages' = [pages EXCEPT ![p] = [[pages[p] EXCEPT !.state = "acked"] EXCEPT !.note = a]]
  BY DEF AckPage
<1>3. pages'[p].state = "acked" /\ pages'[p].attempt = pages[p].attempt /\ pages'[p].note = a
  BY <1>1, <1>2 DEF PageRec
<1>4. DOMAIN pages' = DOMAIN pages /\ \A q \in DOMAIN pages \ {p} : pages'[q] = pages[q]
  BY <1>2
<1>5. DOMAIN pages \subseteq PageIds
  BY DEF TableType
<1> QED
  BY <1>3, <1>4, <1>5 DEF AbstractState, AbstractNote

\* A create changes the state of one page that was absent.
LEMMA CreatePageAbstract ==
    ASSUME TableType, NEW p \in PageIds, Creatable(p), CreatePage(p)
    PROVE  /\ DOMAIN pages' = DOMAIN pages \cup {p}
           /\ pages'[p] = Page("created", -1, None)
           /\ \A q \in DOMAIN pages : pages'[q] = pages[q]
           /\ AbstractState[p] = "absent"
           /\ AbstractState' = [AbstractState EXCEPT ![p] = "created"]
           /\ AbstractNote' = AbstractNote
<1>1. DOMAIN pages' = DOMAIN pages \cup {p} /\ p \notin DOMAIN pages
  BY DEF CreatePage, Put, Creatable
<1>2. pages'[p] = Page("created", -1, None) /\ \A q \in DOMAIN pages : pages'[q] = pages[q]
  BY <1>1 DEF CreatePage, Put
<1>3. DOMAIN pages \subseteq PageIds
  BY DEF TableType
<1>4. pages'[p].state = "created" /\ pages'[p].note = None
  BY <1>2 DEF Page
<1>5. AbstractState' = [AbstractState EXCEPT ![p] = "created"]
  BY <1>1, <1>2, <1>3, <1>4 DEF AbstractState
<1>6. AbstractNote' = AbstractNote
  BY <1>1, <1>2, <1>3, <1>4 DEF AbstractNote
<1> QED
  BY <1>1, <1>2, <1>5, <1>6 DEF AbstractState

------------------------------------------------------------------------------
(* The steps that write a page *)

ContractInv == TypeInv /\ ExpiryInv

\* Every other step leaves pages and deadlines alone.
LEMMA WriteCases ==
    ASSUME [Next]_vars
    PROVE  \/ \E w \in Workers : (Expire(w) \/ RecordWins(w)) /\ UNCHANGED apiVars
           \/ \E p \in PageIds : CreateNew(p) /\ UNCHANGED pagerVars
           \/ \E a \in Ackers : AckWrite(a) /\ UNCHANGED pagerVars
           \/ \E r \in Receivers : ReceiptWrite(r) /\ UNCHANGED pagerVars
           \/ Tick
           \/ UNCHANGED <<pages, left>>
<1>1. CASE PagerNext /\ UNCHANGED apiVars
  <2>1. ASSUME NEW w \in Workers, Receive(w) \/ PagerStep(w) \/ Fail(w) \/ Crash(w)
        PROVE  Expire(w) \/ RecordWins(w) \/ UNCHANGED <<pages, left>>
    <3>1. CASE HandleRecord(w) \/ Fail(w)
      BY <3>1 DEF HandleRecord, LoadDrop, LoadExpired, LoadDue, ExpiredEvent, ListDevices,
                  NoDevices, GetSender, GetSenderFails, Send, SendGone, Prune, RecordConflict,
                  AttemptEvent, EnqueueNext, EnqueueFinal, Exhausted, Fail
    <3>2. CASE Receive(w) \/ NextRecord(w) \/ EndBatch(w) \/ Crash(w)
      BY <3>2 DEF Receive, NextRecord, EndBatch, Crash
    <3> QED
      BY <2>1, <3>1, <3>2 DEF PagerStep
  <2>2. ASSUME NEW d \in Devices, RegisterDevice(d) \/ TokenDies(d)
        PROVE  UNCHANGED <<pages, left>>
    BY <2>2 DEF RegisterDevice, TokenDies
  <2> QED
    BY <1>1, <2>1, <2>2 DEF PagerNext
<1>2. CASE (ClientNext \/ ApiNext) /\ UNCHANGED pagerVars
  <2>1. ASSUME NEW p \in PageIds, CreateStep(p)
        PROVE  UNCHANGED <<pages, left>>
    BY <2>1 DEF CreateStep, CreateConflict, CreateLookup, CreateEnqueue, CreateNotScheduled
  <2>2. ASSUME NEW a \in Ackers, AckNext(a), ~AckWrite(a)
        PROVE  UNCHANGED <<pages, left>>
    BY <2>2 DEF AckNext, AckRequest, AckStep, AckLoad, AckConflict, AckReread, AckEvent, AckFails
  <2>3. ASSUME NEW r \in Receivers, ReceiptNext(r), ~ReceiptWrite(r)
        PROVE  UNCHANGED <<pages, left>>
    BY <2>3 DEF ReceiptNext, ReceiptRequest, ReceiptStep, ReceiptLoad, ReceiptConflict,
                ReceiptEvent, ReceiptFails
  <2> QED
    BY <1>2, <2>1, <2>2, <2>3, ApiCases
<1>3. CASE \E m \in MsgIds : Duplicate(m) /\ UNCHANGED <<tableVars, pagerVars, apiVars>>
  BY <1>3
<1>4. CASE \E p \in PageIds : Replicate(p) /\ UNCHANGED <<queueVars, pagerVars, apiVars>>
  BY <1>4 DEF Replicate
<1>5. CASE Rest \/ UNCHANGED vars
  BY <1>5 DEF Rest
<1> QED
  BY <1>1, <1>2, <1>3, <1>4, <1>5 DEF Next

\* The page a recording or expiring invocation writes, and what it writes.
LEMMA RecordAbstract ==
    ASSUME ContractInv, NEW w \in Workers, RecordWins(w)
    PROVE  \E p \in DOMAIN pages :
              /\ SetPageState(p, Transition(w).to, AttemptOf(w))
              /\ Transition(w).to \in PageState /\ AttemptOf(w) \in Int
              /\ p = PageOf(w)
              /\ \/ pages[p].state \in {"created", "pushed"} /\ Transition(w).to = "pushed"
                 \/ pages[p].state = "delivered" /\ Transition(w).to = "delivered"
<1>1. inv[w].trial \in 1..3 /\ inv[w].pc = "record"
  BY DEF RecordWins, ContractInv, TypeInv, TypeOK, PagerType, Invocation
<1>2. AttemptOf(w) \in Int
  BY <1>1, RecordAtHand DEF HandlingPc, PagerPc, ContractInv
<1>3. PageOf(w) \in DOMAIN pages /\ pages[PageOf(w)].state \in Transition(w).from
      /\ SetPageState(PageOf(w), Transition(w).to, AttemptOf(w))
  BY DEF RecordWins, StateIn
<1>4. pages[PageOf(w)].state \in LiveStates
  BY <1>3 DEF ContractInv, ExpiryInv
<1>5. \/ Transition(w).from = {"created", "pushed"} /\ Transition(w).to = "pushed"
      \/ Transition(w).from = {"delivered"} /\ Transition(w).to = "delivered"
      \/ Transition(w).from = {"seen"} /\ Transition(w).to = "seen"
  BY <1>1 DEF Transition, RecordTransitions
<1> QED
  BY <1>2, <1>3, <1>4, <1>5 DEF LiveStates, PageState

\* An expiring invocation writes a page that is overdue and still active, or nothing.
LEMMA ExpireAbstract ==
    ASSUME ContractInv, NEW w \in Workers, Expire(w)
    PROVE  /\ PageOf(w) \in DOMAIN pages /\ After(left[PageOf(w)])
           /\ \/ UNCHANGED pages /\ pages[PageOf(w)].state \notin ActiveStates
              \/ /\ SetPageState(PageOf(w), "expired", inv[w].attempt)
                 /\ inv[w].attempt \in Int
                 /\ pages[PageOf(w)].state \in ActiveStates \cap LiveStates
<1>1. inv[w].pc = "expire" /\ inv[w].attempt \in Int
  BY DEF Expire, ContractInv, TypeInv, TypeOK, PagerType, Invocation, Attempts
<1>2. PageOf(w) \in DOMAIN pages
  BY <1>1, RecordAtHand DEF HandlingPc, PagerPc, ContractInv
<1> QED
  BY <1>1, <1>2 DEF Expire, StateIn, ContractInv, ExpiryInv

------------------------------------------------------------------------------
(* The steps implement the contract *)

\* The initial states are those of the contract.
LEMMA ContractInit == Init => Contract!Init
BY ScheduleAssumption
DEF Init, TableInit, Contract!Init, AbstractState, AbstractNote, Overdue

\* The state of a page that exists is its state in the contract.
LEMMA AbstractOf ==
    ASSUME TableType, NEW p \in DOMAIN pages
    PROVE  p \in PageIds /\ AbstractState[p] = pages[p].state
BY DEF TableType, AbstractState

\* Every step is a step of the contract, or a stutter.
LEMMA ContractStep ==
    ASSUME ContractInv, [Next]_vars
    PROVE  [Contract!Next]_(Contract!vars)
<1> USE DEF Contract!vars
<1>0. TableType
  BY DEF ContractInv, TypeInv, TypeOK
<1>1. ASSUME NEW w \in Workers, Expire(w)
      PROVE  [Contract!Next]_(Contract!vars)
  <2>1. PageOf(w) \in PageIds /\ PageOf(w) \in Overdue
    BY <1>0, <1>1, ExpireAbstract, AbstractOf DEF After, Overdue
  <2>2. Overdue' = Overdue
    BY <1>1 DEF Expire, Overdue
  <2>3. CASE UNCHANGED pages
    BY <2>2, <2>3 DEF AbstractState, AbstractNote
  <2>4. CASE /\ SetPageState(PageOf(w), "expired", inv[w].attempt)
             /\ inv[w].attempt \in Int
             /\ pages[PageOf(w)].state \in ActiveStates \cap LiveStates
    <3>1. AbstractState' = [AbstractState EXCEPT ![PageOf(w)] = "expired"]
          /\ AbstractNote' = AbstractNote
      BY <1>0, <1>1, <2>4, ExpireAbstract, SetPageStateAbstract DEF PageState
    <3>2. AbstractState[PageOf(w)] \in {"created", "pushed", "delivered"}
      BY <1>0, <1>1, <2>4, ExpireAbstract, AbstractOf DEF ActiveStates, LiveStates
    <3>3. Contract!Expire(PageOf(w))
      BY <2>1, <2>2, <3>1, <3>2 DEF Contract!Expire, Contract!Active
    <3> QED
      BY <2>1, <3>3 DEF Contract!Next
  <2> QED
    BY <1>1, <2>3, <2>4, ExpireAbstract
<1>2. ASSUME NEW w \in Workers, RecordWins(w)
      PROVE  [Contract!Next]_(Contract!vars)
  <2>1. PICK p \in DOMAIN pages :
           /\ SetPageState(p, Transition(w).to, AttemptOf(w))
           /\ Transition(w).to \in PageState /\ AttemptOf(w) \in Int
           /\ \/ pages[p].state \in {"created", "pushed"} /\ Transition(w).to = "pushed"
              \/ pages[p].state = "delivered" /\ Transition(w).to = "delivered"
    BY <1>2, RecordAbstract
  <2>2. /\ AbstractState' = [AbstractState EXCEPT ![p] = Transition(w).to]
        /\ AbstractNote' = AbstractNote
    BY <1>0, <2>1, SetPageStateAbstract
  <2>3. Overdue' = Overdue
    BY <1>2 DEF RecordWins, Overdue
  <2>4. p \in PageIds /\ AbstractState[p] = pages[p].state
    BY <1>0, AbstractOf
  <2>5. CASE pages[p].state = "created"
    <3>1. Contract!Push(p)
      BY <2>1, <2>2, <2>3, <2>4, <2>5 DEF Contract!Push
    <3> QED
      BY <2>4, <3>1 DEF Contract!Next
  <2>6. CASE pages[p].state # "created"
    <3>1. AbstractState' = AbstractState
      BY <2>1, <2>2, <2>4, <2>6 DEF AbstractState
    <3> QED
      BY <2>2, <2>3, <3>1
  <2> QED
    BY <2>5, <2>6
<1>3. ASSUME NEW p \in PageIds, CreateNew(p)
      PROVE  [Contract!Next]_(Contract!vars)
  <2>1. /\ AbstractState[p] = "absent"
        /\ AbstractState' = [AbstractState EXCEPT ![p] = "created"]
        /\ AbstractNote' = AbstractNote
    BY <1>0, <1>3, CreatePageAbstract DEF CreateNew
  <2>2. Overdue' = Overdue
    BY <1>3 DEF CreateNew, Overdue
  <2>3. Contract!Create(p)
    BY <2>1, <2>2 DEF Contract!Create
  <2> QED
    BY <2>3 DEF Contract!Next
<1>4. ASSUME NEW a \in Ackers, AckWrite(a)
      PROVE  [Contract!Next]_(Contract!vars)
  <2> DEFINE p == acks[a].page
  <2>1. p \in DOMAIN pages /\ pages[p].state \in ActiveStates /\ AckPage(p, a)
    BY <1>4 DEF AckWrite, Ackable, StateIn
  <2>2. /\ AbstractState' = [AbstractState EXCEPT ![p] = "acked"]
        /\ AbstractNote' = [AbstractNote EXCEPT ![p] = a]
    BY <1>0, <2>1, AckPageAbstract
  <2>3. Overdue' = Overdue
    BY <1>4 DEF AckWrite, Overdue
  <2>4. p \in PageIds /\ AbstractState[p] \in {"created", "pushed", "delivered"}
    BY <1>0, <2>1, AbstractOf DEF ContractInv, ExpiryInv, LiveStates, ActiveStates
  <2>5. Contract!Ack(p, a)
    BY <2>2, <2>3, <2>4 DEF Contract!Ack, Contract!Active
  <2> QED
    BY <2>4, <2>5 DEF Contract!Next
<1>5. ASSUME NEW r \in Receivers, ReceiptWrite(r)
      PROVE  [Contract!Next]_(Contract!vars)
  <2> DEFINE p == receipts[r].page
  <2>1. /\ p \in DOMAIN pages /\ pages[p].state \in {"created", "pushed"}
        /\ SetPageState(p, "delivered", receipts[r].attempt)
    BY <1>5 DEF ReceiptWrite, StateIn, ReceiptFrom
  <2>2. receipts[r].attempt \in Int /\ "delivered" \in PageState
    BY DEF ContractInv, TypeInv, TypeOK, ApiType, ReceiptRec, Attempts, PageState
  <2>3. /\ AbstractState' = [AbstractState EXCEPT ![p] = "delivered"]
        /\ AbstractNote' = AbstractNote
    BY <1>0, <2>1, <2>2, SetPageStateAbstract
  <2>4. Overdue' = Overdue
    BY <1>5 DEF ReceiptWrite, Overdue
  <2>5. p \in PageIds /\ AbstractState[p] \in {"created", "pushed"}
    BY <1>0, <2>1, AbstractOf
  <2>6. Contract!Deliver(p)
    BY <2>3, <2>4, <2>5 DEF Contract!Deliver
  <2> QED
    BY <2>5, <2>6 DEF Contract!Next
<1>6. CASE Tick
  <2>1. AbstractState' = AbstractState /\ AbstractNote' = AbstractNote
    BY <1>6 DEF Tick, AbstractState, AbstractNote
  <2> DEFINE late == {p \in DOMAIN pages : left'[p] < 0}
  <2>2. \A p \in PageIds : /\ p \notin DOMAIN pages => left'[p] = left[p]
                           /\ left[p] < 0 => left'[p] = left[p]
                           /\ left[p] \in -1..Expiry
    BY <1>0, <1>6, ScheduleAssumption DEF Tick, CountDown, TableType
  <2>3. Overdue' = Overdue \cup late
    BY <1>0, <2>2 DEF Overdue, TableType
  <2>4. late \in SUBSET {p \in PageIds : AbstractState[p] # "absent"}
    BY <1>0, AbstractOf DEF ContractInv, ExpiryInv, LiveStates
  <2> HIDE DEF late
  <2>5. Contract!Deadlines
    BY <2>1, <2>3, <2>4 DEF Contract!Deadlines
  <2> QED
    BY <2>5 DEF Contract!Next
<1>7. CASE UNCHANGED <<pages, left>>
  BY <1>7 DEF AbstractState, AbstractNote, Overdue
<1> QED
  BY <1>1, <1>2, <1>3, <1>4, <1>5, <1>6, <1>7, WriteCases

------------------------------------------------------------------------------
(* What an invocation knows about its page stays true *)

\* What becomes of the queue: besides the passing of time, messages stay as they are,
\* are taken or given back, and three kinds of new ones appear in free slots.
Kept(m) ==
    /\ m \in DOMAIN queue
    /\ SameTask(m)
    /\ queue'[m].wait = queue[m].wait
    /\ queue'[m].status = "held" => queue[m].status = "held" \/ queue[m].wait = 0

CopyOf(m, s) ==
    queue[s].wait = 0 /\ queue'[m] = [queue[s] EXCEPT !.status = "visible"]

NextTask(m, w, d) ==
    /\ inv[w].pc = "enqueue"
    /\ \/ HasDelay(AttemptOf(w) + 1) /\ d = NextDelay(AttemptOf(w) + 1)
       \/ ~HasDelay(AttemptOf(w) + 1)
    /\ queue'[m] = Message(PageOf(w), AttemptOf(w) + 1, d)

FirstTask(m, p) == creates[p] = "enqueue" /\ queue'[m] = Message(p, 0, 0)

New(m) ==
    /\ m \notin DOMAIN queue
    /\ \/ \E s \in DOMAIN queue : CopyOf(m, s)
       \/ \E w \in Workers, d \in Nat : NextTask(m, w, d)
       \/ \E p \in PageIds : FirstTask(m, p)

\* The end of an invocation keeps what it does not delete.
LEMMA SettleKept ==
    ASSUME QueueType, NEW done, NEW failed \in SUBSET DOMAIN queue, Settle(done, failed),
           NEW m \in DOMAIN queue'
    PROVE  Kept(m)
<1>1. DOMAIN queue' \subseteq DOMAIN queue
  BY SettleType
<1>2. SameTask(m) /\ queue'[m].wait = queue[m].wait
      /\ queue'[m].status = IF m \in failed THEN "visible" ELSE queue[m].status
  BY SettleType
<1> QED
  BY <1>1, <1>2 DEF Kept

\* Any step but the passing of time keeps a message as it is, or sends a new one.
LEMMA QueueCases ==
    ASSUME TypeInv, [Next]_vars, ~Tick, NEW m \in DOMAIN queue'
    PROVE  Kept(m) \/ New(m)
<1>0. QueueType
  BY DEF TypeInv, TypeOK
<1>1. ASSUME UNCHANGED queueVars
      PROVE  Kept(m)
  BY <1>1 DEF Kept, SameTask
<1>2. CASE PagerNext /\ UNCHANGED apiVars
  <2>1. ASSUME NEW w \in Workers, Receive(w)
        PROVE  Kept(m)
    BY <2>1, ReceiveHold DEF Kept
  <2>2. ASSUME NEW w \in Workers, EndBatch(w) \/ Crash(w)
        PROVE  Kept(m)
    <3>1. HeldBy(w) \subseteq DOMAIN queue /\ inv[w].ok \subseteq HeldBy(w)
          /\ inv[w].failed \subseteq HeldBy(w)
      BY DEF TypeInv, HoldInv, HeldBy
    <3>2. inv[w].failed \in SUBSET DOMAIN queue /\ HeldBy(w) \in SUBSET DOMAIN queue
      BY <3>1
    <3>3. CASE EndBatch(w)
      <4> DEFINE done   == inv[w].ok
                 failed == inv[w].failed
      <4>1. Settle(done, failed) /\ failed \in SUBSET DOMAIN queue
        BY <3>2, <3>3 DEF EndBatch
      <4> HIDE DEF done, failed
      <4> QED
        BY <1>0, <4>1, SettleKept
    <3>4. CASE Crash(w)
      <4> DEFINE done   == {}
                 failed == HeldBy(w)
      <4>1. Settle(done, failed) /\ failed \in SUBSET DOMAIN queue
        BY <3>2, <3>4 DEF Crash
      <4> HIDE DEF done, failed
      <4> QED
        BY <1>0, <4>1, SettleKept
    <3> QED
      BY <2>2, <3>3, <3>4
  <2>3. ASSUME NEW w \in Workers, EnqueueNext(w) \/ EnqueueFinal(w)
        PROVE  Kept(m) \/ New(m)
    <3>1. inv[w].pc = "enqueue"
      BY <2>3 DEF EnqueueNext, EnqueueFinal
    <3>2. PICK c \in MsgIds \ DOMAIN queue, d \in Nat :
             /\ \/ HasDelay(AttemptOf(w) + 1) /\ d = NextDelay(AttemptOf(w) + 1)
                \/ ~HasDelay(AttemptOf(w) + 1)
             /\ DOMAIN queue' = DOMAIN queue \cup {c}
             /\ queue'[c] = Message(PageOf(w), AttemptOf(w) + 1, d)
             /\ \A x \in DOMAIN queue : queue'[x] = queue[x]
      BY <1>2, <2>3, EnqueueStep
    <3>3. CASE m = c
      BY <3>1, <3>2, <3>3 DEF New, NextTask
    <3>4. CASE m \in DOMAIN queue
      BY <3>2, <3>4 DEF Kept, SameTask
    <3> QED
      BY <3>2, <3>3, <3>4
  <2>4. ASSUME NEW w \in Workers, GoesOn(w) \/ Returns(w) \/ NextRecord(w) \/ Fail(w)
        PROVE  Kept(m)
    BY <1>1, <1>2, <2>4, GoesOnStep, ReturnsStep DEF NextRecord, Fail
  <2>5. ASSUME NEW d \in Devices, RegisterDevice(d) \/ TokenDies(d)
        PROVE  Kept(m)
    BY <1>1, <2>5 DEF RegisterDevice, TokenDies
  <2> QED
    BY <1>2, <2>1, <2>2, <2>3, <2>4, <2>5, HandleRecordCases DEF PagerNext, PagerStep
<1>3. CASE (ClientNext \/ ApiNext) /\ UNCHANGED pagerVars
  <2>1. ASSUME NEW p \in PageIds, CreateNew(p)
        PROVE  Kept(m)
    BY <1>1, <2>1 DEF CreateNew
  <2>2. ASSUME NEW p \in PageIds, CreateStep(p)
        PROVE  Kept(m) \/ New(m)
    <3>1. CASE UNCHANGED queue
      BY <3>1 DEF Kept, SameTask
    <3>2. CASE CreateEnqueue(p)
      <4>1. creates[p] = "enqueue"
        BY <3>2 DEF CreateEnqueue
      <4>2. /\ \A x \in DOMAIN queue : queue'[x] = queue[x]
            /\ \/ UNCHANGED queue
               \/ \E c \in MsgIds \ DOMAIN queue :
                     /\ DOMAIN queue' = DOMAIN queue \cup {c}
                     /\ queue'[c] = Message(p, 0, 0)
        BY <1>3, <2>2, CreateStepType
      <4>3. CASE m \in DOMAIN queue
        BY <4>2, <4>3 DEF Kept, SameTask
      <4>4. CASE m \notin DOMAIN queue
        BY <4>1, <4>2, <4>4 DEF New, FirstTask
      <4> QED
        BY <4>3, <4>4
    <3> QED
      BY <1>3, <2>2, <3>1, <3>2, CreateStepType
  <2>3. ASSUME NEW a \in Ackers, AckNext(a)
        PROVE  Kept(m)
    BY <1>1, <1>3, <2>3, AckNextStep
  <2>4. ASSUME NEW r \in Receivers, ReceiptNext(r)
        PROVE  Kept(m)
    BY <1>1, <1>3, <2>4, ReceiptNextStep
  <2> QED
    BY <1>3, <2>1, <2>2, <2>3, <2>4, ApiCases
<1>4. CASE \E s \in MsgIds : Duplicate(s) /\ UNCHANGED <<tableVars, pagerVars, apiVars>>
  <2>1. PICK s \in MsgIds : Duplicate(s)
    BY <1>4
  <2>2. s \in DOMAIN queue /\ queue[s].wait = 0
    BY <1>0, <2>1, DuplicateType
  <2>3. PICK c \in MsgIds \ DOMAIN queue :
           /\ DOMAIN queue' = DOMAIN queue \cup {c}
           /\ queue'[c] = [queue[s] EXCEPT !.status = "visible"]
           /\ \A x \in DOMAIN queue : queue'[x] = queue[x]
    BY <1>0, <2>1, DuplicateType
  <2>4. CASE m = c
    BY <2>2, <2>3, <2>4 DEF New, CopyOf
  <2>5. CASE m \in DOMAIN queue
    BY <2>3, <2>5 DEF Kept, SameTask
  <2> QED
    BY <2>3, <2>4, <2>5
<1>5. CASE \E p \in PageIds : Replicate(p) /\ UNCHANGED <<queueVars, pagerVars, apiVars>>
  BY <1>1, <1>5
<1>6. CASE Rest \/ UNCHANGED vars
  BY <1>1, <1>6 DEF Rest
<1> QED
  BY <1>2, <1>3, <1>4, <1>5, <1>6 DEF Next

\* What a message is about is never rewritten.
LEMMA TasksKept ==
    ASSUME TypeInv, [Next]_vars, NEW m \in DOMAIN queue, m \in DOMAIN queue'
    PROVE  SameTask(m)
<1>1. CASE Tick
  BY <1>1, DelayTickType DEF Tick, TypeInv, TypeOK
<1> QED
  BY <1>1, QueueCases DEF Kept, New

\* Where each call of handleRecord leads; the deadline it goes by is the one loaded.
LEMMA GoesOnPc ==
    ASSUME TypeInv, NEW w \in Workers, GoesOn(w)
    PROVE  \/ LoadExpired(w) /\ inv'[w].pc = "expire"
           \/ Expire(w) /\ inv'[w].pc = "expiredEvent"
           \/ LoadDue(w) /\ inv'[w].pc = "list" /\ inv'[w].left = left[PageOf(w)]
           \/ /\ inv[w].pc \in PastLoad /\ inv'[w].pc \in PastLoad
              /\ inv'[w].left = inv[w].left
              /\ inv[w].pc = "attemptEvent" => inv'[w].pc = "enqueue"
              /\ inv'[w].pc = "enqueue" => inv[w].pc = "attemptEvent"
              /\ inv[w].pc # "enqueue"
              /\ inv'[w].pc = "attemptEvent" => RecordWins(w) \/ RecordConflict(w)
<1>1. inv[w] \in Invocation /\ inv \in [Workers -> Invocation]
  BY DEF TypeInv, TypeOK, PagerType
<1>2. CASE LoadExpired(w) \/ Expire(w)
  BY <1>1, <1>2 DEF LoadExpired, Expire, Goto, Invocation
<1>3. CASE LoadDue(w)
  <2> DEFINE ticks == left[PageOf(w)]
  <2>1. inv' = [inv EXCEPT ![w] = [[inv[w] EXCEPT !.pc = "list"] EXCEPT !.left = ticks]]
    BY <1>3 DEF LoadDue
  <2> HIDE DEF ticks
  <2>2. inv'[w].pc = "list" /\ inv'[w].left = ticks
    BY <1>1, <2>1 DEF Invocation
  <2> QED
    BY <1>3, <2>2 DEF ticks
<1> USE DEF PastLoad
<1>4. CASE ListDevices(w) \/ NoDevices(w) \/ GetSender(w) \/ AttemptEvent(w)
  BY <1>1, <1>4 DEF ListDevices, NoDevices, GetSender, AttemptEvent, Goto, Invocation
<1>5. ASSUME NEW d \in Devices, Send(w, d) \/ SendGone(w, d)
      PROVE  /\ inv[w].pc = "send" /\ inv'[w].pc \in {"send", "prune", "record"}
             /\ inv'[w].left = inv[w].left
  BY <1>1, <1>5 DEF Send, SendGone, AfterSend, Invocation
<1>6. CASE Prune(w)
  BY <1>1, <1>6 DEF Prune, AfterSend, Invocation
<1>7. CASE RecordWins(w)
  BY <1>1, <1>7 DEF RecordWins, Goto, Invocation
<1>8. CASE RecordConflict(w)
  BY <1>1, <1>8 DEF RecordConflict, Goto, Invocation
<1> QED
  BY <1>2, <1>3, <1>4, <1>5, <1>6, <1>7, <1>8 DEF GoesOn

\* An invocation that handles a record has just begun to, or has gone on with it, or
\* has not moved.
LEMMA HandlingStep ==
    ASSUME TypeInv, [Next]_vars, NEW w \in Workers, inv'[w].pc \in HandlingPc
    PROVE  inv'[w] = inv[w] \/ (NextRecord(w) /\ inv'[w].pc = "load") \/ GoesOn(w)
<1>0. inv \in [Workers -> Invocation]
  BY DEF TypeInv, TypeOK, PagerType
<1> USE DEF HandlingPc
<1>1. CASE PagerNext /\ UNCHANGED apiVars
  <2>1. ASSUME NEW v \in Workers, Receive(v) \/ NextRecord(v) \/ EndBatch(v) \/ Crash(v)
        PROVE  inv'[w] = inv[w] \/ (NextRecord(w) /\ inv'[w].pc = "load")
    BY <1>1, <2>1, ReceiveHold, NextRecordStep, EndBatchStep, CrashStep DEF StepOf, Idle
  <2>2. ASSUME NEW v \in Workers, Returns(v) \/ EnqueueNext(v) \/ EnqueueFinal(v) \/ Fail(v)
        PROVE  inv'[w] = inv[w]
    BY <1>0, <2>2 DEF Returns, LoadDrop, ExpiredEvent, GetSenderFails, Exhausted, Fail,
                      EnqueueNext, EnqueueFinal, ReturnNil, ReturnError, Between, Idle
  <2>3. ASSUME NEW v \in Workers, GoesOn(v), v # w
        PROVE  inv'[w] = inv[w]
    BY <2>3, GoesOnType DEF StepOf
  <2>4. ASSUME NEW d \in Devices, RegisterDevice(d) \/ TokenDies(d)
        PROVE  inv'[w] = inv[w]
    BY <2>4 DEF RegisterDevice, TokenDies
  <2> QED
    BY <1>1, <2>1, <2>2, <2>3, <2>4, HandleRecordCases DEF PagerNext, PagerStep
<1>2. CASE UNCHANGED pagerVars
  BY <1>2
<1> QED
  BY <1>1, <1>2 DEF Next, Tick, Rest

\* Past its load an invocation goes on with the same record, about the same page.
LEMMA RecordKept ==
    ASSUME TypeInv, [Next]_vars, NEW w \in Workers, inv'[w].pc \in HandlingPc \ {"load"}
    PROVE  /\ inv[w].pc \in HandlingPc
           /\ inv'[w] = inv[w] \/ GoesOn(w)
           /\ PageOf(w)' = PageOf(w) /\ AttemptOf(w)' = AttemptOf(w)
           /\ PageOf(w) \in DOMAIN pages
<1>1. inv'[w] = inv[w] \/ GoesOn(w)
  BY HandlingStep
<1>2. inv[w].pc \in HandlingPc /\ inv'[w].msg = inv[w].msg
  BY <1>1, GoesOnType
<1>3. inv[w].msg \in DOMAIN queue /\ PageOf(w) \in DOMAIN pages
  BY <1>2, RecordAtHand
<1>4. inv'[w].msg \in DOMAIN queue'
  BY TypeInvStep, PagerAssumption DEF TypeInv, HoldInv, WellFormed, HeldBy
<1>5. SameTask(inv[w].msg)
  BY <1>2, <1>3, <1>4, TasksKept
<1> QED
  BY <1>1, <1>2, <1>3, <1>5 DEF SameTask, PageOf, AttemptOf

\* An invocation is about to expire its page only after the load that found it
\* overdue, and about to say so only after the update.
LEMMA ExpiryPc ==
    ASSUME TypeInv, [Next]_vars, NEW w \in Workers,
           inv'[w].pc \in {"expire", "expiredEvent"}
    PROVE  \/ inv'[w] = inv[w]
           \/ LoadExpired(w) /\ inv'[w].pc = "expire"
           \/ Expire(w) /\ inv'[w].pc = "expiredEvent"
BY RecordKept, GoesOnPc DEF HandlingPc, PagerPc, PastLoad

\* A deadline that has passed stays passed, and a settled page stays settled.
LEMMA SettledStays ==
    ASSUME ContractInv, [Next]_vars, NEW p \in DOMAIN pages
    PROVE  /\ p \in DOMAIN pages'
           /\ pages'[p].state \in LiveStates
           /\ pages[p].state \notin ActiveStates => pages'[p].state \notin ActiveStates
           /\ After(left[p]) => After(left'[p])
<1>0. TableType /\ p \in PageIds
  BY DEF ContractInv, TypeInv, TypeOK, TableType
<1>1. ASSUME NEW w \in Workers, Expire(w)
      PROVE  p \in DOMAIN pages' /\ pages'[p].state \in LiveStates
             /\ (pages[p].state \notin ActiveStates => pages'[p].state \notin ActiveStates)
  BY <1>0, <1>1, ExpireAbstract, SetPageStateAbstract
  DEF PageState, LiveStates, ActiveStates, ContractInv, ExpiryInv
<1>2. ASSUME NEW w \in Workers, RecordWins(w)
      PROVE  p \in DOMAIN pages' /\ pages'[p].state \in LiveStates
             /\ (pages[p].state \notin ActiveStates => pages'[p].state \notin ActiveStates)
  <2>1. PICK q \in DOMAIN pages :
           /\ SetPageState(q, Transition(w).to, AttemptOf(w))
           /\ Transition(w).to \in PageState /\ AttemptOf(w) \in Int
           /\ \/ pages[q].state \in {"created", "pushed"} /\ Transition(w).to = "pushed"
              \/ pages[q].state = "delivered" /\ Transition(w).to = "delivered"
    BY <1>2, RecordAbstract
  <2>2. /\ DOMAIN pages' = DOMAIN pages
        /\ pages'[q].state = Transition(w).to
        /\ \A x \in DOMAIN pages \ {q} : pages'[x] = pages[x]
    BY <1>0, <2>1, SetPageStateAbstract
  <2> QED
    BY <2>1, <2>2 DEF LiveStates, ActiveStates, ContractInv, ExpiryInv
<1>3. ASSUME NEW q \in PageIds, CreateNew(q)
      PROVE  p \in DOMAIN pages' /\ pages'[p] = pages[p]
  BY <1>0, <1>3, CreatePageAbstract DEF CreateNew
<1>4. ASSUME NEW a \in Ackers, AckWrite(a)
      PROVE  p \in DOMAIN pages' /\ (pages'[p].state = "acked" \/ pages'[p] = pages[p])
  BY <1>0, <1>4, AckPageAbstract DEF AckWrite, Ackable, StateIn
<1>5. ASSUME NEW r \in Receivers, ReceiptWrite(r)
      PROVE  p \in DOMAIN pages' /\ pages'[p].state \in LiveStates
             /\ (pages[p].state \notin ActiveStates => pages'[p].state \notin ActiveStates)
  <2>1. receipts[r].attempt \in Int /\ "delivered" \in PageState
    BY DEF ContractInv, TypeInv, TypeOK, ApiType, ReceiptRec, Attempts, PageState
  <2> QED
    BY <1>0, <1>5, <2>1, SetPageStateAbstract
    DEF ReceiptWrite, ReceiptFrom, StateIn, LiveStates, ActiveStates, ContractInv, ExpiryInv
<1>6. UNCHANGED left \/ Tick
  BY WriteCases DEF Expire, RecordWins, CreateNew, AckWrite, ReceiptWrite
<1>7. After(left[p]) => After(left'[p])
  BY <1>0, <1>6, ScheduleAssumption DEF After, Tick, CountDown, TableType
<1>8. pages[p].state \in LiveStates /\ "acked" \in LiveStates \ ActiveStates
  BY DEF ContractInv, ExpiryInv, LiveStates, ActiveStates
<1>9. p \in DOMAIN pages' /\ pages'[p].state \in LiveStates
      /\ (pages[p].state \notin ActiveStates => pages'[p].state \notin ActiveStates)
  BY <1>1, <1>2, <1>3, <1>4, <1>5, <1>8, WriteCases DEF Tick
<1> QED
  BY <1>7, <1>9

\* A page is created live.
LEMMA CreatedLive ==
    ASSUME ContractInv, [Next]_vars, NEW p \in DOMAIN pages'
    PROVE  p \in DOMAIN pages \/ pages'[p].state = "created"
<1>0. TableType
  BY DEF ContractInv, TypeInv, TypeOK
<1>1. ASSUME NEW q \in PageIds, CreateNew(q)
      PROVE  p \in DOMAIN pages \/ pages'[p].state = "created"
  <2>1. DOMAIN pages' = DOMAIN pages \cup {q} /\ pages'[q] = Page("created", -1, None)
    BY <1>0, <1>1, CreatePageAbstract DEF CreateNew
  <2> QED
    BY <2>1 DEF Page
<1>2. ASSUME NEW w \in Workers, Expire(w) \/ RecordWins(w)
      PROVE  p \in DOMAIN pages
  BY <1>2 DEF Expire, RecordWins, SetPageState
<1>3. ASSUME NEW a \in Ackers, AckWrite(a)
      PROVE  p \in DOMAIN pages
  BY <1>3 DEF AckWrite, AckPage
<1>4. ASSUME NEW r \in Receivers, ReceiptWrite(r)
      PROVE  p \in DOMAIN pages
  BY <1>4 DEF ReceiptWrite, SetPageState
<1> QED
  BY <1>1, <1>2, <1>3, <1>4, WriteCases DEF Tick

------------------------------------------------------------------------------
(* The invariant, and the theorem *)

\* In the initial states no page exists and no invocation runs.
LEMMA ExpiryInvInit == Init => ExpiryInv
BY DEF Init, TableInit, PagerInit, Idle, ExpiryInv

\* What an invocation found overdue stays overdue, and what it saw settled settled.
LEMMA ExpiryInvStep == ContractInv /\ [Next]_vars => ExpiryInv'
<1> SUFFICES ASSUME ContractInv, [Next]_vars
             PROVE  ExpiryInv'
  OBVIOUS
<1>0. TypeInv /\ ExpiryInv /\ TypeInv'
  BY TypeInvStep DEF ContractInv
<1>1. \A p \in DOMAIN pages' : pages'[p].state \in LiveStates
  BY SettledStays, CreatedLive DEF LiveStates
<1>2. ASSUME NEW w \in Workers, inv'[w].pc \in {"expire", "expiredEvent"}
      PROVE  PageOf(w)' = PageOf(w) /\ PageOf(w) \in DOMAIN pages
  BY <1>0, <1>2, RecordKept DEF HandlingPc, PagerPc
<1>3. ASSUME NEW w \in Workers, inv'[w].pc = "expire"
      PROVE  After(left[PageOf(w)])'
  <2>1. After(left[PageOf(w)])
    BY <1>0, <1>3, ExpiryPc DEF LoadExpired, ExpiryInv, Expire
  <2> QED
    BY <1>2, <1>3, <2>1, SettledStays
<1>4. ASSUME NEW w \in Workers, inv'[w].pc = "expiredEvent"
      PROVE  (pages[PageOf(w)].state \notin ActiveStates)'
  <2>1. CASE inv'[w] = inv[w]
    <3>1. pages[PageOf(w)].state \notin ActiveStates
      BY <1>0, <1>4, <2>1 DEF ExpiryInv
    <3> QED
      BY <1>2, <1>4, <3>1, SettledStays
  <2>2. CASE Expire(w)
    <3>1. TableType
      BY <1>0 DEF TypeInv, TypeOK
    <3>2. pages'[PageOf(w)].state \notin ActiveStates
      BY <2>2, <3>1, ExpireAbstract, SetPageStateAbstract DEF PageState, ActiveStates
    <3> QED
      BY <1>2, <1>4, <3>2
  <2> QED
    BY <1>0, <1>4, <2>1, <2>2, ExpiryPc
<1> QED
  BY <1>1, <1>3, <1>4 DEF ExpiryInv

\* ExpiryInv holds of every reachable state: only an overdue page is expired, and no
\* page is ever seen or cancelled.
THEOREM ExpiryInvHolds == Spec => []ContractInv
<1>1. Init => ContractInv
  BY TypeInvInit, ExpiryInvInit DEF ContractInv
<1>2. ContractInv /\ [Next]_vars => ContractInv'
  BY TypeInvStep, ExpiryInvStep DEF ContractInv
<1> QED
  BY <1>1, <1>2, PTL DEF Spec

\* Table, queue, pager and API together implement the contract of a page, whatever
\* calls fail, whichever invocations crash, however often SQS duplicates and however
\* stale the reads are.
THEOREM CoreImplementsContract == Spec => ImplementsContract
<1>1. Init => Contract!Init
  BY ContractInit
<1>2. ContractInv /\ [Next]_vars => [Contract!Next]_(Contract!vars)
  BY ContractStep
<1> QED
  BY <1>1, <1>2, ExpiryInvHolds, PTL DEF Spec, ImplementsContract, Contract!Spec

==============================================================================
