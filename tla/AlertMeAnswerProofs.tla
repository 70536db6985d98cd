------------------------- MODULE AlertMeAnswerProofs -------------------------
(* What the API answers and what the timeline says is what happened to the    *)
(* page, and no push prunes a device that can still be reached.               *)
EXTENDS AlertMeContractProofs

USE DEF vars, tableVars, queueVars, pagerVars, apiVars

------------------------------------------------------------------------------
(* The pages *)

\* The states of a page come in an order.  It is that of the contract, which the core
\* was shown to implement.
LEMMA StateForward ==
    ASSUME ContractInv, [Next]_vars, NEW p \in DOMAIN pages
    PROVE  /\ p \in DOMAIN pages'
           /\ pages[p].state # "created" => pages'[p].state # "created"
           /\ pages[p].state \notin ReceiptFrom => pages'[p].state \notin ReceiptFrom
           /\ pages[p].state \notin ActiveStates => pages'[p].state = pages[p].state
           /\ pages[p].state \in LiveStates /\ pages'[p].state \in LiveStates
<1>1. TableType /\ TableType'
  BY TypeInvStep DEF ContractInv, TypeInv, TypeOK
<1>2. p \in DOMAIN pages' /\ pages[p].state \in LiveStates /\ pages'[p].state \in LiveStates
  BY SettledStays DEF ContractInv, ExpiryInv
<1>3. p \in PageIds /\ AbstractState[p] = pages[p].state /\ AbstractState'[p] = pages'[p].state
  BY <1>1, <1>2, AbstractOf DEF AbstractState
<1>4. AbstractState \in [PageIds -> PageState \cup {"absent"}]
  BY <1>1 DEF AbstractState, TableType, PageRec
<1>5. [Contract!Next]_(Contract!vars)
  BY ContractStep
<1> USE DEF Contract!vars, Contract!Next, Contract!Create, Contract!Push, Contract!Deliver,
            Contract!Ack, Contract!Expire, Contract!Deadlines, Contract!Active
<1> QED
  BY <1>2, <1>3, <1>4, <1>5 DEF ReceiptFrom, ActiveStates, LiveStates

\* Every step makes one page at most, and makes it "created" under its own key.
LEMMA PagesStep ==
    ASSUME ContractInv, [Next]_vars, NEW p \in DOMAIN pages' \ DOMAIN pages
    PROVE  p \in PageIds /\ CreateNew(p)
<1>1. TableType
  BY DEF ContractInv, TypeInv, TypeOK
<1>2. ASSUME NEW q \in PageIds, CreateNew(q)
      PROVE  p = q
  BY <1>1, <1>2, CreatePageAbstract DEF CreateNew
<1>3. ASSUME NEW w \in Workers, Expire(w) \/ RecordWins(w)
      PROVE  FALSE
  BY <1>3 DEF Expire, RecordWins, SetPageState
<1>4. ASSUME NEW a \in Ackers, AckWrite(a)
      PROVE  FALSE
  BY <1>4 DEF AckWrite, AckPage
<1>5. ASSUME NEW r \in Receivers, ReceiptWrite(r)
      PROVE  FALSE
  BY <1>5 DEF ReceiptWrite, SetPageState
<1> QED
  BY <1>2, <1>3, <1>4, <1>5, WriteCases DEF Tick

\* No guard is ever deleted, and the copy only catches up.
LEMMA TableStep ==
    ASSUME [Next]_vars
    PROVE  /\ DOMAIN idem \subseteq DOMAIN idem'
           /\ \/ UNCHANGED replica
              \/ /\ UNCHANGED pages
                 /\ \E p \in DOMAIN pages : replica' = Put(replica, p, pages[p])
<1>1. CASE PagerNext
  BY <1>1 DEF PagerNext, PagerStep, HandleRecord, LoadDrop, LoadExpired, LoadDue, Expire,
     ExpiredEvent, ListDevices, NoDevices, GetSender, GetSenderFails, Send, SendGone, Prune,
     RecordWins, RecordConflict, AttemptEvent, EnqueueNext, EnqueueFinal, Exhausted, Fail,
     Receive, NextRecord, EndBatch, Crash, RegisterDevice, TokenDies
<1>2. ASSUME NEW p \in PageIds, CreateNew(p) \/ CreateStep(p)
      PROVE  DOMAIN idem \subseteq DOMAIN idem' /\ UNCHANGED replica
  BY <1>2 DEF CreateNew, CreatePage, Put, CreateStep, CreateConflict, CreateLookup,
              CreateEnqueue, CreateNotScheduled
<1>3. ASSUME NEW a \in Ackers, AckNext(a)
      PROVE  UNCHANGED <<idem, replica>>
  BY <1>3 DEF AckNext, AckRequest, AckStep, AckLoad, AckWrite, AckConflict, AckReread,
              AckEvent, AckFails
<1>4. ASSUME NEW r \in Receivers, ReceiptNext(r)
      PROVE  UNCHANGED <<idem, replica>>
  BY <1>4 DEF ReceiptNext, ReceiptRequest, ReceiptStep, ReceiptLoad, ReceiptWrite,
              ReceiptConflict, ReceiptEvent, ReceiptFails
<1>5. CASE ClientNext \/ ApiNext
  BY <1>2, <1>3, <1>4, <1>5, ApiCases
<1>6. ASSUME NEW p \in PageIds, Replicate(p)
      PROVE  UNCHANGED <<pages, idem>> /\ p \in DOMAIN pages
             /\ replica' = Put(replica, p, pages[p])
  BY <1>6 DEF Replicate
<1> QED
  BY <1>1, <1>5, <1>6 DEF Next, Tick, Rest

------------------------------------------------------------------------------
(* The invocations *)

\* What becomes of the three updates of recordAttempt.
LEMMA GoesOnTrial ==
    ASSUME TypeInv, NEW w \in Workers, GoesOn(w)
    PROVE  \/ /\ inv[w].pc \notin {"record"} \cup Recorded /\ inv'[w].pc \notin Recorded
              /\ inv'[w].trial = inv[w].trial
           \/ RecordWins(w) /\ inv'[w].pc = "attemptEvent"
           \/ RecordConflict(w) /\ inv[w].trial = 3 /\ inv'[w].pc = "attemptEvent"
           \/ /\ RecordConflict(w) /\ inv[w].trial \in 1..2
              /\ inv'[w].pc = "record" /\ inv'[w].trial = inv[w].trial + 1
           \/ inv[w].pc = "attemptEvent" /\ inv'[w].pc = "enqueue"
<1>1. inv[w] \in Invocation /\ inv \in [Workers -> Invocation]
  BY DEF TypeInv, TypeOK, PagerType
<1> USE DEF Recorded
<1>2. CASE LoadExpired(w) \/ Expire(w)
  BY <1>1, <1>2 DEF LoadExpired, Expire, Goto, Invocation
<1>3. CASE LoadDue(w)
  <2> DEFINE ticks == left[PageOf(w)]
  <2>1. /\ inv' = [inv EXCEPT ![w] = [[inv[w] EXCEPT !.pc = "list"] EXCEPT !.left = ticks]]
        /\ inv[w].pc = "load"
    BY <1>3 DEF LoadDue
  <2> HIDE DEF ticks
  <2> QED
    BY <1>1, <2>1 DEF Invocation
<1>4. CASE ListDevices(w) \/ NoDevices(w) \/ GetSender(w)
  BY <1>1, <1>4 DEF ListDevices, NoDevices, GetSender, Goto, Invocation
<1>5. ASSUME NEW d \in Devices, Send(w, d) \/ SendGone(w, d)
      PROVE  /\ inv[w].pc = "send" /\ inv'[w].pc \in {"send", "prune", "record"}
             /\ inv'[w].trial = inv[w].trial
  BY <1>1, <1>5 DEF Send, SendGone, AfterSend, Invocation
<1>6. CASE Prune(w)
  BY <1>1, <1>6 DEF Prune, AfterSend, Invocation
<1>7. CASE RecordWins(w) \/ AttemptEvent(w)
  BY <1>1, <1>7 DEF RecordWins, AttemptEvent, Goto, Invocation
<1>8. CASE RecordConflict(w)
  BY <1>1, <1>8 DEF RecordConflict, RecordTransitions, Goto, Invocation
<1> QED
  BY <1>2, <1>3, <1>4, <1>5, <1>6, <1>7, <1>8 DEF GoesOn

\* An invocation that handles no record, or has just begun to, is at the first update.
LEMMA TrialStep ==
    ASSUME TypeInv, [Next]_vars, NEW w \in Workers
    PROVE  \/ inv'[w] = inv[w]
           \/ inv'[w].pc \notin HandlingPc /\ inv'[w].trial = 1
           \/ inv[w].pc = "next" /\ inv'[w].pc = "load" /\ inv'[w].trial = inv[w].trial
           \/ GoesOn(w)
<1>0. inv \in [Workers -> Invocation] /\ inv[w] \in Invocation
  BY DEF TypeInv, TypeOK, PagerType
<1> USE DEF HandlingPc
<1>1. CASE PagerNext /\ UNCHANGED apiVars
  <2>1. ASSUME NEW v \in Workers, Receive(v)
        PROVE  inv'[w] = inv[w] \/ (inv'[w].pc = "next" /\ inv'[w].trial = 1)
    BY <1>0, <2>1 DEF Receive, Idle
  <2>2. ASSUME NEW v \in Workers, NextRecord(v)
        PROVE  \/ inv'[w] = inv[w]
               \/ inv[w].pc = "next" /\ inv'[w].pc = "load" /\ inv'[w].trial = inv[w].trial
    BY <1>0, <2>2 DEF NextRecord, Invocation
  <2>3. ASSUME NEW v \in Workers, EndBatch(v) \/ Crash(v)
        PROVE  inv'[w] = inv[w] \/ (inv'[w].pc = "idle" /\ inv'[w].trial = 1)
    BY <1>0, <2>3 DEF EndBatch, Crash, Idle
  <2>4. ASSUME NEW v \in Workers, Returns(v) \/ EnqueueNext(v) \/ EnqueueFinal(v) \/ Fail(v)
        PROVE  inv'[w] = inv[w] \/ (inv'[w].pc = "next" /\ inv'[w].trial = 1)
    BY <1>0, <2>4 DEF Returns, LoadDrop, ExpiredEvent, GetSenderFails, Exhausted, Fail,
                      EnqueueNext, EnqueueFinal, ReturnNil, ReturnError, Between, Idle
  <2>5. ASSUME NEW v \in Workers, GoesOn(v), v # w
        PROVE  inv'[w] = inv[w]
    BY <2>5, GoesOnType DEF StepOf
  <2>6. ASSUME NEW d \in Devices, RegisterDevice(d) \/ TokenDies(d)
        PROVE  inv'[w] = inv[w]
    BY <2>6 DEF RegisterDevice, TokenDies
  <2> QED
    BY <1>1, <2>1, <2>2, <2>3, <2>4, <2>5, <2>6, HandleRecordCases DEF PagerNext, PagerStep, PagerPc
<1>2. CASE UNCHANGED pagerVars
  BY <1>2
<1> QED
  BY <1>1, <1>2 DEF Next, Tick, Rest

\* A lost update says what the page no longer is.
LEMMA ConflictSays ==
    ASSUME ContractInv, RecordInv, NEW w \in Workers, RecordConflict(w)
    PROVE  /\ PageOf(w) \in DOMAIN pages /\ pages[PageOf(w)].state \in LiveStates
           /\ inv[w].trial \in 1..3
           /\ pages[PageOf(w)].state \notin ReceiptFrom
           /\ inv[w].trial > 1 => pages[PageOf(w)].state \notin ActiveStates
<1>1. inv[w].pc = "record" /\ inv[w].trial \in 1..3
  BY DEF RecordConflict, ContractInv, TypeInv, TypeOK, PagerType, Invocation
<1>2. PageOf(w) \in DOMAIN pages
  BY <1>1, RecordAtHand DEF HandlingPc, PagerPc, ContractInv
<1>3. pages[PageOf(w)].state \in LiveStates
  BY <1>2 DEF ContractInv, ExpiryInv
<1>4. pages[PageOf(w)].state \notin Transition(w).from
  BY <1>2 DEF RecordConflict, StateIn
<1>5. /\ inv[w].trial = 1 => Transition(w).from = {"created", "pushed"}
      /\ inv[w].trial = 2 => Transition(w).from = {"delivered"}
  BY DEF Transition, RecordTransitions
<1>6. /\ inv[w].trial > 1 => pages[PageOf(w)].state \notin ReceiptFrom
      /\ inv[w].trial = 3 => pages[PageOf(w)].state \notin ActiveStates
  BY <1>1 DEF RecordInv
<1> QED
  BY <1>1, <1>2, <1>3, <1>4, <1>5, <1>6 DEF ReceiptFrom, ActiveStates, LiveStates

\* What an invocation knows from the updates it lost stays true.
LEMMA RecordInvStep ==
    ASSUME ContractInv, RecordInv, [Next]_vars
    PROVE  RecordInv'
<1>0. TypeInv /\ TypeInv'
  BY TypeInvStep DEF ContractInv
<1> SUFFICES ASSUME NEW w \in Workers
             PROVE  /\ inv'[w].pc \notin {"record"} \cup Recorded => inv'[w].trial = 1
                    /\ inv'[w].pc = "record" /\ inv'[w].trial > 1 =>
                          (pages[PageOf(w)].state \notin ReceiptFrom)'
                    /\ inv'[w].pc = "record" /\ inv'[w].trial = 3 =>
                          (pages[PageOf(w)].state \notin ActiveStates)'
                    /\ inv'[w].pc \in Recorded => (pages[PageOf(w)].state # "created")'
  BY DEF RecordInv
<1>1. inv'[w].pc \notin {"record"} \cup Recorded => inv'[w].trial = 1
  BY <1>0, TrialStep, GoesOnTrial DEF RecordInv, Recorded
<1>2. ASSUME inv'[w].pc \in {"record"} \cup Recorded
      PROVE  /\ inv'[w] = inv[w] \/ GoesOn(w)
             /\ PageOf(w)' = PageOf(w) /\ PageOf(w) \in DOMAIN pages
  BY <1>0, <1>2, RecordKept DEF HandlingPc, PagerPc, Recorded
<1> DEFINE p == PageOf(w)
<1>3. ASSUME inv'[w].pc = "record", inv'[w].trial > 1
      PROVE  pages'[p].state \notin ReceiptFrom
  <2>1. pages[p].state \notin ReceiptFrom
    BY <1>0, <1>2, <1>3, GoesOnTrial, ConflictSays DEF RecordInv, Recorded
  <2> QED
    BY <1>2, <1>3, <2>1, StateForward
<1>4. ASSUME inv'[w].pc = "record", inv'[w].trial = 3
      PROVE  pages'[p].state \notin ActiveStates
  <2>1. pages[p].state \notin ActiveStates
    BY <1>0, <1>2, <1>4, GoesOnTrial, ConflictSays DEF RecordInv, Recorded
  <2> QED
    BY <1>2, <1>4, <2>1, StateForward
<1>5. ASSUME inv'[w].pc \in Recorded
      PROVE  pages'[p].state # "created"
  <2>1. CASE RecordWins(w)
    <3>1. TableType
      BY <1>0 DEF TypeInv, TypeOK
    <3> QED
      BY <1>2, <1>5, <2>1, <3>1, RecordAbstract, SetPageStateAbstract
  <2>2. CASE ~RecordWins(w)
    <3>1. pages[p].state # "created"
      BY <1>0, <1>2, <1>5, <2>2, GoesOnTrial, ConflictSays DEF RecordInv, Recorded, ReceiptFrom
    <3> QED
      BY <1>2, <1>5, <3>1, StateForward
  <2> QED
    BY <2>1, <2>2
<1> QED
  BY <1>1, <1>2, <1>3, <1>4, <1>5


\* FCM is asked before a device is pruned, and a token it has given up stays so.
LEMMA DeviceInvStep ==
    ASSUME TypeInv, DeviceInv, [Next]_vars
    PROVE  DeviceInv'
<1> SUFFICES ASSUME NEW w \in Workers, inv'[w].pc = "prune"
             PROVE  inv'[w].gone \notin valid'
  BY DEF DeviceInv
<1>0. inv \in [Workers -> Invocation] /\ inv[w] \in Invocation
  BY DEF TypeInv, TypeOK, PagerType
<1>1. valid' \subseteq valid
  <2>1. CASE PagerNext
    BY <2>1 DEF PagerNext, PagerStep, HandleRecord, LoadDrop, LoadExpired, LoadDue, Expire,
       ExpiredEvent, ListDevices, NoDevices, GetSender, GetSenderFails, Send, SendGone, Prune,
       RecordWins, RecordConflict, AttemptEvent, EnqueueNext, EnqueueFinal, Exhausted, Fail,
       Receive, NextRecord, EndBatch, Crash, RegisterDevice, TokenDies
  <2> QED
    BY <2>1 DEF Next, Tick, Rest
<1>2. CASE inv'[w] = inv[w]
  BY <1>1, <1>2 DEF DeviceInv
<1>3. ASSUME NEW d \in Devices, SendGone(w, d)
      PROVE  inv'[w].gone \notin valid
  <2>1. inv' = [inv EXCEPT ![w] = [[inv[w] EXCEPT !.pc = "prune"] EXCEPT !.gone = d]]
        /\ d \notin valid
    BY <1>3 DEF SendGone
  <2> QED
    BY <1>0, <2>1 DEF Invocation
<1>4. ASSUME NEW d \in Devices, Send(w, d)
      PROVE  FALSE
  BY <1>0, <1>4 DEF Send, AfterSend, Invocation
<1>5. CASE GoesOn(w)
  <2>1. inv'[w].pc = "list" => FALSE
    OBVIOUS
  <2>2. ~ (LoadExpired(w) \/ LoadDue(w) \/ Expire(w) \/ RecordWins(w) \/ RecordConflict(w)
           \/ AttemptEvent(w))
    BY <1>0, GoesOnPc, GoesOnTrial, <1>5
    DEF LoadExpired, LoadDue, Expire, RecordWins, RecordConflict, AttemptEvent, Recorded, PastLoad
  <2>3. ~ (ListDevices(w) \/ NoDevices(w) \/ GetSender(w) \/ Prune(w))
    BY <1>0 DEF ListDevices, NoDevices, GetSender, Prune, AfterSend, Goto, Invocation
  <2> QED
    BY <1>1, <1>3, <1>4, <1>5, <2>2, <2>3 DEF GoesOn
<1> QED
  BY <1>2, <1>5, HandlingStep DEF HandlingPc, PagerPc

\* Only a token that FCM has given up loses its device.
LEMMA PruneStep ==
    ASSUME DeviceInv, [Next]_vars
    PROVE  devices \cap valid \subseteq devices'
<1>1. ASSUME NEW w \in Workers, Prune(w)
      PROVE  devices \cap valid \subseteq devices'
  BY <1>1 DEF Prune, DeviceInv
<1>2. CASE PagerNext
  BY <1>1, <1>2 DEF PagerNext, PagerStep, HandleRecord, LoadDrop, LoadExpired, LoadDue, Expire,
     ExpiredEvent, ListDevices, NoDevices, GetSender, GetSenderFails, Send, SendGone,
     RecordWins, RecordConflict, AttemptEvent, EnqueueNext, EnqueueFinal, Exhausted, Fail,
     Receive, NextRecord, EndBatch, Crash, RegisterDevice, TokenDies
<1> QED
  BY <1>2 DEF Next, Tick, Rest

------------------------------------------------------------------------------
(* The requests *)

\* One request moves at a time.
LEMMA RequestCases ==
    ASSUME [Next]_vars
    PROVE  \/ \E p \in PageIds : (CreateNew(p) \/ CreateStep(p)) /\ UNCHANGED pagerVars
           \/ \E a \in Ackers : AckNext(a) /\ UNCHANGED pagerVars
           \/ \E r \in Receivers : ReceiptNext(r) /\ UNCHANGED pagerVars
           \/ UNCHANGED apiVars
BY ApiCases DEF Next, Tick, Rest

\* An ack request stays as it is, or takes its next step.
LEMMA AckCases ==
    ASSUME TypeInv, [Next]_vars, NEW a \in Ackers
    PROVE  acks'[a] = acks[a] \/ (AckNext(a) /\ UNCHANGED pagerVars)
<1>1. acks \in [Ackers -> AckRec]
  BY DEF TypeInv, TypeOK, ApiType
<1>2. ASSUME NEW b \in Ackers, AckNext(b), b # a
      PROVE  acks'[a] = acks[a]
  BY <1>1, <1>2 DEF AckNext, AckRequest, AckStep, AckLoad, AckWrite, AckConflict, AckReread,
                    AckEvent, AckFails, AckReply
<1>3. ASSUME NEW p \in PageIds, CreateNew(p) \/ CreateStep(p)
      PROVE  UNCHANGED acks
  BY <1>3 DEF CreateNew, CreateStep, CreateConflict, CreateLookup, CreateEnqueue,
              CreateNotScheduled
<1>4. ASSUME NEW r \in Receivers, ReceiptNext(r)
      PROVE  UNCHANGED acks
  BY <1>4 DEF ReceiptNext, ReceiptRequest, ReceiptStep, ReceiptLoad, ReceiptWrite,
              ReceiptConflict, ReceiptEvent, ReceiptFails
<1> QED
  BY <1>2, <1>3, <1>4, RequestCases

\* The steps of an ack, as its status and page show them.
LEMMA AckStatus ==
    ASSUME TypeInv, NEW a \in Ackers, AckNext(a)
    PROVE  \/ AckRequest(a) /\ acks'[a].status = "load"
           \/ /\ acks'[a].page = acks[a].page
              /\ \/ /\ AckLoad(a) /\ UNCHANGED pages
                    /\ acks'[a].status = "ack" => acks[a].page \in DOMAIN pages
                    /\ acks'[a].status \in {"ack", "404"}
                 \/ AckWrite(a) /\ acks[a].status = "ack" /\ acks'[a].status = "event"
                 \/ /\ AckConflict(a) /\ acks[a].status = "ack" /\ acks'[a].status = "reread"
                    /\ UNCHANGED pages
                 \/ /\ acks[a].status = "reread" /\ acks'[a].status \in {"200", "409"}
                    /\ AckReread(a) /\ UNCHANGED pages
                    /\ \E copy \in Copies : acks'[a].status =
                          IF AckedAlready(acks[a].page, copy) THEN "200" ELSE "409"
                 \/ AckEvent(a) /\ acks[a].status = "event" /\ acks'[a].status = "200"
                 \/ AckFails(a) /\ acks'[a].status = "500"
<1>0. acks \in [Ackers -> AckRec] /\ acks[a] \in AckRec
  BY DEF TypeInv, TypeOK, ApiType
<1>1. \A copy \in Copies : DOMAIN copy \subseteq DOMAIN pages
  BY DEF Copies, TypeInv, TypeOK, TableType
<1>2. CASE AckRequest(a)
  <2>1. PICK p \in PageIds : acks' = [acks EXCEPT ![a] = [status |-> "load", page |-> p]]
    BY <1>2 DEF AckRequest
  <2> QED
    BY <1>0, <1>2, <2>1
<1>3. CASE AckLoad(a)
  <2>1. PICK copy \in Copies :
           AckReply(a, IF acks[a].page \in DOMAIN copy THEN "ack" ELSE "404")
    BY <1>3 DEF AckLoad
  <2>2. /\ acks'[a].page = acks[a].page
        /\ acks'[a].status = IF acks[a].page \in DOMAIN copy THEN "ack" ELSE "404"
    BY <1>0, <2>1 DEF AckReply, AckRec
  <2>3. UNCHANGED pages
    BY <1>3 DEF AckLoad
  <2> QED
    BY <1>1, <1>3, <2>2, <2>3
<1>4. CASE AckReread(a)
  BY <1>0, <1>4 DEF AckReread, AckReply, AckRec
<1>5. CASE AckWrite(a) \/ AckConflict(a) \/ AckEvent(a) \/ AckFails(a)
  BY <1>0, <1>5 DEF AckWrite, AckConflict, AckEvent, AckFails, AckReply, AckRec
<1> QED
  BY <1>2, <1>3, <1>4, <1>5 DEF AckNext, AckStep


\* No copy is ahead of its page in that it has been acked.
LEMMA CopyInvStep ==
    ASSUME ContractInv, CopyInv, [Next]_vars
    PROVE  CopyInv'
<1>1. DOMAIN replica \subseteq DOMAIN pages
  BY DEF ContractInv, TypeInv, TypeOK, TableType
<1>2. CASE UNCHANGED replica
  BY <1>1, <1>2, StateForward DEF CopyInv, ActiveStates
<1>3. ASSUME UNCHANGED pages, NEW p \in DOMAIN pages, replica' = Put(replica, p, pages[p])
      PROVE  CopyInv'
  BY <1>3 DEF Put, CopyInv
<1> QED
  BY <1>2, <1>3, TableStep

\* What an ack request has read or written stays true of its page.
LEMMA AckInvStep ==
    ASSUME ContractInv, CopyInv, AckInv, [Next]_vars
    PROVE  AckInv'
<1>0. TypeInv /\ TableType
  BY DEF ContractInv, TypeInv, TypeOK
<1> SUFFICES ASSUME NEW a \in Ackers
             PROVE  /\ acks'[a].status \in {"ack", "reread", "event", "200", "409"} =>
                          acks'[a].page \in DOMAIN pages'
                    /\ acks'[a].status = "reread" =>
                          pages'[acks'[a].page].state \notin ActiveStates
                    /\ acks'[a].status \in {"event", "200"} =>
                          pages'[acks'[a].page].state = "acked"
                    /\ ~EventualReads /\ acks'[a].status = "409" =>
                          pages'[acks'[a].page].state = "expired"
  BY DEF AckInv
<1> DEFINE p == acks[a].page
<1>1. CASE acks'[a] = acks[a]
  BY <1>1, StateForward DEF AckInv, ActiveStates
<1>2. CASE AckWrite(a)
  <2>1. acks'[a].page = p /\ acks'[a].status = "event"
    BY <1>0, <1>2 DEF AckWrite, AckReply, TypeInv, TypeOK, ApiType, AckRec
  <2>2. p \in DOMAIN pages' /\ pages'[p].state = "acked"
    BY <1>0, <1>2, AckPageAbstract DEF AckWrite, Ackable, StateIn
  <2> QED
    BY <2>1, <2>2
<1>3. CASE AckConflict(a)
  <2>1. acks'[a].page = p /\ acks'[a].status = "reread" /\ UNCHANGED pages
    BY <1>0, <1>3 DEF AckConflict, AckReply, TypeInv, TypeOK, ApiType, AckRec
  <2>2. p \in DOMAIN pages /\ pages[p].state \notin ActiveStates
    BY <1>3 DEF AckConflict, Ackable, StateIn, AckInv
  <2> QED
    BY <2>1, <2>2
<1>4. CASE AckReread(a)
  <2>1. PICK copy \in Copies :
           AckReply(a, IF AckedAlready(p, copy) THEN "200" ELSE "409")
    BY <1>4 DEF AckReread
  <2>2. /\ acks'[a].page = p /\ UNCHANGED pages
        /\ acks'[a].status = IF AckedAlready(p, copy) THEN "200" ELSE "409"
    BY <1>0, <1>4, <2>1 DEF AckReread, AckReply, TypeInv, TypeOK, ApiType, AckRec
  <2>3. p \in DOMAIN pages /\ pages[p].state \notin ActiveStates
    BY <1>4 DEF AckReread, AckInv
  <2>4. pages[p].state \in LiveStates
    BY <2>3 DEF ContractInv, ExpiryInv
  <2>5. copy \in {pages, replica}
    BY DEF Copies
  <2>6. AckedAlready(p, copy) => pages[p].state = "acked"
    BY <2>5 DEF AckedAlready, CopyInv
  <2>7. ~EventualReads /\ ~AckedAlready(p, copy) => pages[p].state = "expired"
    BY <2>3, <2>4 DEF Copies, AckedAlready, LiveStates, ActiveStates
  <2> QED
    BY <2>2, <2>3, <2>6, <2>7
<1>5. CASE AckLoad(a)
  <2>1. PICK copy \in Copies : AckReply(a, IF p \in DOMAIN copy THEN "ack" ELSE "404")
    BY <1>5 DEF AckLoad
  <2>2. /\ acks'[a].page = p /\ UNCHANGED pages
        /\ acks'[a].status = IF p \in DOMAIN copy THEN "ack" ELSE "404"
    BY <1>0, <1>5, <2>1 DEF AckLoad, AckReply, TypeInv, TypeOK, ApiType, AckRec
  <2>3. DOMAIN copy \subseteq DOMAIN pages
    BY <1>0 DEF Copies, TableType
  <2> QED
    BY <2>2, <2>3
<1>6. CASE AckEvent(a)
  <2>1. acks'[a].page = p /\ acks'[a].status = "200" /\ UNCHANGED pages
    BY <1>0, <1>6 DEF AckEvent, AckReply, TypeInv, TypeOK, ApiType, AckRec
  <2> QED
    BY <1>6, <2>1 DEF AckEvent, AckInv
<1> QED
  BY <1>0, <1>1, <1>2, <1>3, <1>4, <1>5, <1>6, AckCases, AckStatus


\* A receipt stays as it is, or takes its next step.
LEMMA ReceiptCases ==
    ASSUME TypeInv, [Next]_vars, NEW r \in Receivers
    PROVE  receipts'[r] = receipts[r] \/ (ReceiptNext(r) /\ UNCHANGED pagerVars)
<1>1. receipts \in [Receivers -> ReceiptRec]
  BY DEF TypeInv, TypeOK, ApiType
<1>2. ASSUME NEW q \in Receivers, ReceiptNext(q), q # r
      PROVE  receipts'[r] = receipts[r]
  BY <1>1, <1>2 DEF ReceiptNext, ReceiptRequest, ReceiptStep, ReceiptLoad, ReceiptWrite,
                    ReceiptConflict, ReceiptEvent, ReceiptFails, ReceiptReply
<1>3. ASSUME NEW p \in PageIds, CreateNew(p) \/ CreateStep(p)
      PROVE  UNCHANGED receipts
  BY <1>3 DEF CreateNew, CreateStep, CreateConflict, CreateLookup, CreateEnqueue,
              CreateNotScheduled
<1>4. ASSUME NEW a \in Ackers, AckNext(a)
      PROVE  UNCHANGED receipts
  BY <1>4 DEF AckNext, AckRequest, AckStep, AckLoad, AckWrite, AckConflict, AckReread,
              AckEvent, AckFails
<1> QED
  BY <1>2, <1>3, <1>4, RequestCases

\* The steps of a receipt, as its status and page show them.
LEMMA ReceiptStatus ==
    ASSUME TypeInv, NEW r \in Receivers, ReceiptNext(r)
    PROVE  \/ receipts'[r].status \in {"load", "404", "500"}
           \/ /\ receipts'[r].page = receipts[r].page
              /\ \/ /\ ReceiptLoad(r) /\ receipts'[r].status = "set" /\ UNCHANGED pages
                    /\ \E copy \in Copies : /\ receipts[r].page \in DOMAIN copy
                                            /\ receipts'[r].attempt =
                                                  copy[receipts[r].page].attempt
                 \/ ReceiptWrite(r) /\ receipts[r].status = "set" /\ receipts'[r].status = "event"
                 \/ /\ ReceiptConflict(r) /\ receipts[r].status = "set"
                    /\ receipts'[r].status = "204" /\ UNCHANGED pages
                 \/ /\ ReceiptEvent(r) /\ receipts[r].status = "event"
                    /\ receipts'[r].status = "204" /\ UNCHANGED pages
<1>0. receipts \in [Receivers -> ReceiptRec] /\ receipts[r] \in ReceiptRec
  BY DEF TypeInv, TypeOK, ApiType
<1>1. CASE ReceiptRequest(r)
  <2>1. PICK p \in PageIds :
           receipts' = [receipts EXCEPT ![r] = [[receipts[r] EXCEPT !.status = "load"]
                                                              EXCEPT !.page = p]]
    BY <1>1 DEF ReceiptRequest
  <2> QED
    BY <1>0, <2>1 DEF ReceiptRec
<1>2. CASE ReceiptLoad(r)
  <2>1. PICK copy \in Copies :
          IF receipts[r].page \in DOMAIN copy
          THEN receipts' = [receipts EXCEPT ![r].status = "set",
                               ![r].attempt = copy[receipts[r].page].attempt]
          ELSE ReceiptReply(r, "404")
    BY <1>2 DEF ReceiptLoad
  <2>2. CASE receipts[r].page \in DOMAIN copy
    <3> DEFINE n == copy[receipts[r].page].attempt
    <3>1. receipts' = [receipts EXCEPT ![r] = [[receipts[r] EXCEPT !.status = "set"]
                                                              EXCEPT !.attempt = n]]
      BY <2>1, <2>2
    <3> HIDE DEF n
    <3>2. /\ receipts'[r].page = receipts[r].page /\ receipts'[r].status = "set"
          /\ receipts'[r].attempt = n
      BY <1>0, <3>1 DEF ReceiptRec
    <3>3. UNCHANGED pages
      BY <1>2 DEF ReceiptLoad
    <3> QED
      BY <1>2, <2>2, <3>2, <3>3 DEF n
  <2>3. CASE receipts[r].page \notin DOMAIN copy
    BY <1>0, <2>1, <2>3 DEF ReceiptReply, ReceiptRec
  <2> QED
    BY <2>2, <2>3
<1>3. CASE ReceiptWrite(r) \/ ReceiptConflict(r) \/ ReceiptEvent(r) \/ ReceiptFails(r)
  BY <1>0, <1>3 DEF ReceiptWrite, ReceiptConflict, ReceiptEvent, ReceiptFails, ReceiptReply,
                    ReceiptRec
<1> QED
  BY <1>1, <1>2, <1>3 DEF ReceiptNext, ReceiptStep

\* A page whose receipt was written, or refused, is past "pushed" for good.
LEMMA ReceiptInvStep ==
    ASSUME ContractInv, ReceiptInv, [Next]_vars
    PROVE  ReceiptInv'
<1>0. TypeInv /\ TableType
  BY DEF ContractInv, TypeInv, TypeOK
<1> SUFFICES ASSUME NEW r \in Receivers, receipts'[r].status \in {"event", "204"}
             PROVE  /\ receipts'[r].page \in DOMAIN pages'
                    /\ pages'[receipts'[r].page].state \notin ReceiptFrom
  BY DEF ReceiptInv
<1> DEFINE p == receipts[r].page
<1>1. CASE receipts'[r] = receipts[r]
  BY <1>1, StateForward DEF ReceiptInv
<1>2. CASE ReceiptWrite(r) /\ receipts'[r].page = p
  <2>1. receipts[r].attempt \in Int /\ "delivered" \in PageState
    BY <1>0 DEF TypeInv, TypeOK, ApiType, ReceiptRec, Attempts, PageState
  <2>2. p \in DOMAIN pages' /\ pages'[p].state = "delivered"
    BY <1>0, <1>2, <2>1, SetPageStateAbstract DEF ReceiptWrite, StateIn
  <2> QED
    BY <1>2, <2>2 DEF ReceiptFrom
<1>3. CASE ReceiptConflict(r) /\ receipts'[r].page = p
  BY <1>0, <1>3 DEF ReceiptConflict, StateIn, TypeInv, RequestInv
<1>4. CASE ReceiptEvent(r) /\ receipts'[r].page = p
  BY <1>4 DEF ReceiptEvent, ReceiptInv
<1> QED
  BY <1>0, <1>1, <1>2, <1>3, <1>4, ReceiptCases, ReceiptStatus

\* A create that found its key taken can look the page up.
LEMMA CreateInvStep ==
    ASSUME ContractInv, CreateInv, [Next]_vars
    PROVE  CreateInv'
<1>0. TypeInv /\ creates \in [PageIds -> CreateStatus]
  BY DEF ContractInv, TypeInv, TypeOK, ApiType
<1> SUFFICES ASSUME NEW p \in PageIds
             PROVE  /\ creates'[p] \in {"create", "lookup", "200", "409"} => p \notin DOMAIN pages'
                    /\ creates'[p] \in {"lookup", "200", "409"} => Key[p] \in DOMAIN idem'
                    /\ ~EventualReads => creates'[p] # "409"
  BY DEF CreateInv
<1>1. \/ creates'[p] = creates[p]
      \/ CreateNew(p) /\ creates'[p] = "enqueue"
      \/ creates[p] \in {"create", "lookup", "enqueue"} /\ CreateStep(p)
  <2>1. ASSUME NEW q \in PageIds, CreateNew(q) \/ CreateStep(q), q # p
        PROVE  creates'[p] = creates[p]
    BY <1>0, <2>1 DEF CreateNew, CreateStep, CreateConflict, CreateLookup, CreateEnqueue,
                      CreateNotScheduled, CreateReply
  <2>2. CreateNew(p) => creates'[p] = "enqueue"
    BY <1>0 DEF CreateNew, CreateReply
  <2>3. CreateStep(p) => creates[p] \in {"create", "lookup", "enqueue"}
    BY DEF CreateStep, CreateConflict, CreateLookup, CreateEnqueue, CreateNotScheduled
  <2>4. ASSUME NEW a \in Ackers, AckNext(a)
        PROVE  UNCHANGED creates
    BY <2>4 DEF AckNext, AckRequest, AckStep, AckLoad, AckWrite, AckConflict, AckReread,
                AckEvent, AckFails
  <2>5. ASSUME NEW r \in Receivers, ReceiptNext(r)
        PROVE  UNCHANGED creates
    BY <2>5 DEF ReceiptNext, ReceiptRequest, ReceiptStep, ReceiptLoad, ReceiptWrite,
                ReceiptConflict, ReceiptEvent, ReceiptFails
  <2> QED
    BY <2>1, <2>2, <2>3, <2>4, <2>5, RequestCases
<1>2. p \in DOMAIN pages' \ DOMAIN pages => CreateNew(p) /\ creates'[p] = "enqueue"
  BY <1>0, PagesStep DEF CreateNew, CreateReply
<1>3. DOMAIN idem \subseteq DOMAIN idem'
  BY TableStep
<1>4. CASE creates'[p] = creates[p]
  BY <1>2, <1>3, <1>4 DEF CreateInv
<1>5. CASE CreateConflict(p)
  BY <1>0, <1>2, <1>3, <1>5 DEF CreateConflict, Creatable, CreateReply, CreateInv
<1>6. CASE CreateLookup(p)
  <2>1. PICK copy \in Copies :
           CreateReply(p, IF KeyFound(Key[p], copy) THEN "200" ELSE "409")
    BY <1>6 DEF CreateLookup
  <2>2. p \notin DOMAIN pages /\ Key[p] \in DOMAIN idem
    BY <1>6 DEF CreateLookup, CreateInv
  <2>3. ~EventualReads => KeyFound(Key[p], copy)
    BY <1>0, <2>2 DEF Copies, KeyFound, TypeInv, RequestInv
  <2>4. creates'[p] = IF KeyFound(Key[p], copy) THEN "200" ELSE "409"
    BY <1>0, <2>1 DEF CreateReply
  <2>5. p \notin DOMAIN pages'
    BY <1>2, <2>2, <2>4
  <2> QED
    BY <1>3, <2>2, <2>3, <2>4, <2>5
<1>7. CASE CreateEnqueue(p) \/ CreateNotScheduled(p)
  BY <1>0, <1>7 DEF CreateEnqueue, CreateNotScheduled, CreateReply
<1>8. CASE creates'[p] = "enqueue"
  BY <1>8
<1> QED
  BY <1>1, <1>4, <1>5, <1>6, <1>7, <1>8 DEF CreateStep


------------------------------------------------------------------------------
(* The invariant of the answers, and what follows from it *)

\* In the initial states nothing runs and nothing was asked.
LEMMA AnswerInvInit == Init => AnswerInv
<1> SUFFICES ASSUME Init PROVE AnswerInv
  OBVIOUS
<1> USE DEF Init, TableInit, PagerInit, ApiInit
<1>1. RecordInv /\ DeviceInv
  BY DEF RecordInv, DeviceInv, Idle, Recorded
<1>2. AckInv /\ ReceiptInv /\ CreateInv /\ CopyInv
  BY DEF AckInv, ReceiptInv, CreateInv, CopyInv
<1> QED
  BY <1>1, <1>2 DEF AnswerInv

\* AnswerInv is inductive, relative to ContractInv.
LEMMA AnswerInvStep == ContractInv /\ AnswerInv /\ [Next]_vars => AnswerInv'
BY RecordInvStep, DeviceInvStep, AckInvStep, ReceiptInvStep, CreateInvStep, CopyInvStep
DEF AnswerInv, ContractInv

\* AnswerInv holds of every reachable state.
THEOREM AnswerInvHolds == Spec => [](ContractInv /\ AnswerInv)
<1>1. Init => AnswerInv
  BY AnswerInvInit
<1>2. ContractInv /\ AnswerInv /\ [Next]_vars => AnswerInv'
  BY AnswerInvStep
<1> QED
  BY <1>1, <1>2, ExpiryInvHolds, PTL DEF Spec

\* A page whose receipt was answered with 204 is past "pushed" for good (ReceiptSticks),
\* however the receipt raced with the record of its attempt and however stale its read.
THEOREM ReceiptSticksHolds == Spec => []ReceiptSticks
<1>1. AnswerInv => ReceiptSticks
  BY DEF AnswerInv, ReceiptInv, ReceiptSticks, ReceiptFrom
<1> QED
  BY <1>1, AnswerInvHolds, PTL

\* handleAckPage answers 200 only for a page that is acked, and 409 only for one that
\* expired (AckIdempotent), whoever else acks it.  Reads have to be consistent: a stale
\* copy may show an acked page as active, and the second ack is refused.
THEOREM AckIdempotentHolds == ~EventualReads => (Spec => []AckIdempotent)
<1>1. ~EventualReads /\ AnswerInv => AckIdempotent
  BY DEF AnswerInv, AckInv, AckIdempotent
<1>2. ASSUME ~EventualReads
      PROVE  AnswerInv => AckIdempotent
  BY <1>1, <1>2
<1>3. ASSUME ~EventualReads
      PROVE  Spec => []AckIdempotent
  BY <1>2, <1>3, AnswerInvHolds, PTL
<1> QED
  BY <1>3

\* Requests with one idempotency key share one page, and with consistent reads none of
\* them is refused (OnePagePerKey).
THEOREM OnePagePerKeyHolds == ~EventualReads => (Spec => []OnePagePerKey)
<1>1. ASSUME ~EventualReads, ContractInv, AnswerInv
      PROVE  OnePagePerKey
  <2>1. \A p, q \in DOMAIN pages : Key[p] = Key[q] => p = q
    BY <1>1 DEF ContractInv, TypeInv, RequestInv
  <2>2. \A p \in PageIds : creates[p] # "409"
    BY <1>1 DEF AnswerInv, CreateInv
  <2>3. ASSUME NEW p \in PageIds, creates[p] = "200"
        PROVE  \E q \in DOMAIN pages \ {p} : Key[q] = Key[p]
    BY <1>1, <2>3 DEF AnswerInv, CreateInv, ContractInv, TypeInv, RequestInv
  <2> QED
    BY <2>1, <2>2, <2>3 DEF OnePagePerKey
<1>2. ASSUME ~EventualReads
      PROVE  ContractInv /\ AnswerInv => OnePagePerKey
  BY <1>1, <1>2
<1>3. ASSUME ~EventualReads
      PROVE  Spec => []OnePagePerKey
  BY <1>2, <1>3, AnswerInvHolds, PTL
<1> QED
  BY <1>3

\* An attempt that loses all three updates of recordAttempt has lost them to a page
\* that is settled (RecordLosesOnlyToTerminal), whatever receipts do in between.
THEOREM RecordLosesHolds == Spec => RecordLosesOnlyToTerminal
<1>1. ASSUME ContractInv, AnswerInv, [Next]_vars, NEW w \in Workers,
             inv[w].pc = "record", inv'[w].pc = "attemptEvent"
      PROVE  LET p == PageOf(w)
             IN  Terminal(pages[p].state) \/ pages'[p].attempt = AttemptOf(w)
  <2>1. TypeInv /\ TableType /\ RecordInv
    BY <1>1 DEF ContractInv, TypeInv, TypeOK, AnswerInv
  <2>2. GoesOn(w)
    BY <1>1, <2>1, HandlingStep DEF HandlingPc, PagerPc
  <2>3. CASE RecordWins(w)
    BY <1>1, <2>1, <2>3, RecordAbstract, SetPageStateAbstract
  <2>4. CASE RecordConflict(w) /\ inv[w].trial = 3
    BY <1>1, <2>1, <2>4, ConflictSays DEF Terminal, LiveStates, PageState, ActiveStates
  <2> QED
    BY <1>1, <2>1, <2>2, <2>3, <2>4, GoesOnTrial DEF Recorded
<1>2. ContractInv /\ AnswerInv /\ [Next]_vars =>
         [\A w \in Workers :
             inv[w].pc = "record" /\ inv'[w].pc = "attemptEvent" =>
                LET p == PageOf(w)
                IN  Terminal(pages[p].state) \/ pages'[p].attempt = AttemptOf(w)]_vars
  BY <1>1
<1> QED
  BY <1>2, AnswerInvHolds, PTL DEF Spec, RecordLosesOnlyToTerminal

\* Pruning never costs the recipient a device that can be reached (LiveDeviceNeverPruned),
\* however many environments push, and however often FCM fails.
THEOREM LiveDeviceHolds == Spec => LiveDeviceNeverPruned
<1>1. AnswerInv /\ [Next]_vars => [devices \cap valid \subseteq devices']_vars
  BY PruneStep DEF AnswerInv
<1> QED
  BY <1>1, AnswerInvHolds, PTL DEF Spec, LiveDeviceNeverPruned


------------------------------------------------------------------------------
(* The timeline *)

\* What appending an event does to the timeline of each page.
LEMMA AppendCount ==
    ASSUME TableType, NEW q \in PageIds, NEW s \in EventTypes,
           events' = [events EXCEPT ![q][s] = @ + 1],
           NEW p \in PageIds, NEW t \in EventTypes
    PROVE  events'[p][t] = IF p = q /\ t = s THEN events[p][t] + 1 ELSE events[p][t]
BY DEF TableType

\* Each kind of event is appended by one call of one handler, once.
LEMMA EventStep ==
    ASSUME TypeInv, [Next]_vars, NEW p \in PageIds, NEW t \in EventTypes
    PROVE  \/ events'[p][t] = events[p][t]
           \/ /\ events'[p][t] = events[p][t] + 1
              /\ \/ t = "created" /\ CreateNew(p)
                 \/ t = "acked" /\ \E a \in Ackers : AckEvent(a) /\ acks[a].page = p
                 \/ /\ t = "delivered"
                    /\ \E r \in Receivers : ReceiptEvent(r) /\ receipts[r].page = p
                 \/ /\ t = "push_attempt"
                    /\ \E w \in Workers : AttemptEvent(w) /\ PageOf(w) = p
                 \/ /\ t \in {"expired", "no_devices"}
                    /\ \E w \in Workers : (ExpiredEvent(w) \/ NoDevices(w)) /\ PageOf(w) = p
<1>0. TableType
  BY DEF TypeInv, TypeOK
<1>1. ASSUME NEW q \in PageIds, CreateNew(q)
      PROVE  \/ events'[p][t] = events[p][t]
             \/ events'[p][t] = events[p][t] + 1 /\ p = q /\ t = "created"
  <2>1. events' = [events EXCEPT ![q]["created"] = @ + 1] /\ "created" \in EventTypes
    BY <1>1 DEF CreateNew, CreatePage, EventTypes
  <2> QED
    BY <1>0, <2>1, AppendCount
<1>2. ASSUME NEW q \in PageIds, NEW s \in EventTypes, AppendEvent(q, s)
      PROVE  \/ events'[p][t] = events[p][t]
             \/ events'[p][t] = events[p][t] + 1 /\ p = q /\ t = s
  BY <1>0, <1>2, AppendCount DEF AppendEvent
<1>3. {"acked", "delivered", "push_attempt", "expired", "no_devices"} \subseteq EventTypes
  BY DEF EventTypes
<1>4. CASE PagerNext
  <2>1. ASSUME NEW w \in Workers, ExpiredEvent(w)
        PROVE  \/ events'[p][t] = events[p][t]
               \/ events'[p][t] = events[p][t] + 1 /\ p = PageOf(w) /\ t = "expired"
    <3>1. PageOf(w) \in PageIds /\ AppendEvent(PageOf(w), "expired")
      BY <2>1, RecordAtHand DEF ExpiredEvent, HandlingPc, PagerPc
    <3> QED
      BY <1>2, <1>3, <3>1
  <2>2. ASSUME NEW w \in Workers, NoDevices(w)
        PROVE  \/ events'[p][t] = events[p][t]
               \/ events'[p][t] = events[p][t] + 1 /\ p = PageOf(w) /\ t = "no_devices"
    <3>1. PageOf(w) \in PageIds /\ AppendEvent(PageOf(w), "no_devices")
      BY <2>2, RecordAtHand DEF NoDevices, HandlingPc, PagerPc
    <3> QED
      BY <1>2, <1>3, <3>1
  <2>3. ASSUME NEW w \in Workers, AttemptEvent(w)
        PROVE  \/ events'[p][t] = events[p][t]
               \/ events'[p][t] = events[p][t] + 1 /\ p = PageOf(w) /\ t = "push_attempt"
    <3>1. PageOf(w) \in PageIds /\ AppendEvent(PageOf(w), "push_attempt")
      BY <2>3, RecordAtHand DEF AttemptEvent, HandlingPc, PagerPc
    <3> QED
      BY <1>2, <1>3, <3>1
  <2>4. \/ UNCHANGED events
        \/ \E w \in Workers : ExpiredEvent(w) \/ NoDevices(w) \/ AttemptEvent(w)
    BY <1>4 DEF PagerNext, PagerStep, HandleRecord, LoadDrop, LoadExpired, LoadDue, Expire,
       ListDevices, GetSender, GetSenderFails, Send, SendGone, Prune, RecordWins,
       RecordConflict, EnqueueNext, EnqueueFinal, Exhausted, Fail, Receive, NextRecord,
       EndBatch, Crash, RegisterDevice, TokenDies
  <2> QED
    BY <2>1, <2>2, <2>3, <2>4
<1>5. ASSUME NEW a \in Ackers, AckNext(a)
      PROVE  \/ events'[p][t] = events[p][t]
             \/ /\ events'[p][t] = events[p][t] + 1
                /\ AckEvent(a) /\ p = acks[a].page /\ t = "acked"
  <2>1. AckEvent(a) => acks[a].page \in PageIds /\ AppendEvent(acks[a].page, "acked")
    BY DEF AckEvent, TypeInv, RequestInv
  <2>2. AckEvent(a) \/ UNCHANGED events
    BY <1>5 DEF AckNext, AckRequest, AckStep, AckLoad, AckWrite, AckConflict, AckReread, AckFails
  <2> QED
    BY <1>2, <1>3, <2>1, <2>2
<1>6. ASSUME NEW r \in Receivers, ReceiptNext(r)
      PROVE  \/ events'[p][t] = events[p][t]
             \/ /\ events'[p][t] = events[p][t] + 1
                /\ ReceiptEvent(r) /\ p = receipts[r].page /\ t = "delivered"
  <2>1. ReceiptEvent(r) => /\ receipts[r].page \in PageIds
                           /\ AppendEvent(receipts[r].page, "delivered")
    BY DEF ReceiptEvent, TypeInv, RequestInv
  <2>2. ReceiptEvent(r) \/ UNCHANGED events
    BY <1>6 DEF ReceiptNext, ReceiptRequest, ReceiptStep, ReceiptLoad, ReceiptWrite,
                ReceiptConflict, ReceiptFails
  <2> QED
    BY <1>2, <1>3, <2>1, <2>2
<1>7. ASSUME NEW q \in PageIds, CreateStep(q)
      PROVE  UNCHANGED events
  BY <1>7 DEF CreateStep, CreateConflict, CreateLookup, CreateEnqueue, CreateNotScheduled
<1>8. CASE ClientNext \/ ApiNext
  BY <1>1, <1>5, <1>6, <1>7, <1>8, ApiCases
<1> QED
  BY <1>4, <1>8 DEF Next, Tick, Rest, Replicate

\* A page is acked once.
LEMMA AckTimeline ==
    ASSUME ContractInv, AnswerInv, TimelineInv, [Next]_vars, NEW p \in PageIds
    PROVE  /\ events'[p]["acked"] \in 0..1
           /\ events'[p]["acked"] > 0 => pages'[p].state = "acked"
           /\ \A a \in Ackers : Acking(a, p)' => events'[p]["acked"] = 0
           /\ \A a, b \in Ackers : Acking(a, p)' /\ Acking(b, p)' => a = b
<1>0. TypeInv /\ TimelineOf(p) /\ "acked" \in EventTypes
  BY DEF ContractInv, TimelineInv, EventTypes
<1>1. \A a \in Ackers : Acking(a, p) => p \in DOMAIN pages /\ pages[p].state = "acked"
  BY DEF Acking, AnswerInv, AckInv
<1>2. ASSUME NEW a \in Ackers, Acking(a, p)', ~Acking(a, p)
      PROVE  AckWrite(a) /\ p \in DOMAIN pages /\ pages[p].state \in ActiveStates
  <2>1. AckNext(a)
    BY <1>0, <1>2, AckCases DEF Acking
  <2>2. AckWrite(a) /\ acks'[a].page = acks[a].page
    BY <1>0, <1>2, <2>1, AckStatus DEF Acking
  <2> QED
    BY <1>2, <2>2 DEF Acking, AckWrite, Ackable, StateIn
<1>3. events[p]["acked"] > 0 => p \in DOMAIN pages /\ pages[p].state = "acked"
  BY <1>0 DEF TimelineOf
<1>4. events'[p]["acked"] = events[p]["acked"]
      \/ \E a \in Ackers : /\ events'[p]["acked"] = events[p]["acked"] + 1
                           /\ AckEvent(a) /\ Acking(a, p)
  BY <1>0, EventStep DEF Acking, AckEvent
<1>5. \A a \in Ackers : AckEvent(a) => ~Acking(a, p)'
  BY <1>0 DEF Acking, AckEvent, AckReply, TypeInv, TypeOK, ApiType, AckRec
<1>6. \A a \in Ackers : AckWrite(a) => events' = events
  BY DEF AckWrite
<1>7. "acked" \notin ActiveStates
  BY DEF ActiveStates
<1>8. events'[p]["acked"] \in 0..1
  BY <1>0, <1>4 DEF TimelineOf
<1>9. events'[p]["acked"] > 0 => pages'[p].state = "acked"
  BY <1>0, <1>1, <1>3, <1>4, <1>7, StateForward
<1>10. ASSUME NEW a \in Ackers, Acking(a, p)'
       PROVE  events'[p]["acked"] = 0
  <2>1. CASE ~Acking(a, p)
    BY <1>0, <1>2, <1>3, <1>6, <1>7, <1>10, <2>1 DEF TimelineOf
  <2>2. CASE Acking(a, p)
    BY <1>0, <1>4, <1>5, <1>10, <2>2 DEF TimelineOf
  <2> QED
    BY <2>1, <2>2
<1>11. ASSUME NEW a \in Ackers, NEW b \in Ackers, Acking(a, p)', Acking(b, p)'
       PROVE  a = b
  <2>1. CASE Acking(a, p) /\ Acking(b, p)
    BY <1>0, <2>1 DEF TimelineOf
  <2>2. CASE ~Acking(a, p) /\ ~Acking(b, p)
    <3>1. AckWrite(a) /\ AckWrite(b)
      BY <1>2, <1>11, <2>2
    <3>2. acks \in [Ackers -> AckRec]
      BY <1>0 DEF TypeInv, TypeOK, ApiType
    <3> QED
      BY <1>11, <2>2, <3>1, <3>2 DEF AckWrite, AckReply, Acking
  <2> QED
    BY <1>1, <1>2, <1>7, <1>11, <2>1, <2>2
<1> QED
  BY <1>8, <1>9, <1>10, <1>11


\* A page is delivered once.
LEMMA ReceiptTimeline ==
    ASSUME ContractInv, AnswerInv, TimelineInv, [Next]_vars, NEW p \in PageIds
    PROVE  /\ events'[p]["delivered"] \in 0..1
           /\ events'[p]["delivered"] > 0 => pages'[p].state \notin ReceiptFrom
           /\ \A r \in Receivers : Delivering(r, p)' => events'[p]["delivered"] = 0
           /\ \A q, r \in Receivers : Delivering(q, p)' /\ Delivering(r, p)' => q = r
<1>0. TypeInv /\ TimelineOf(p) /\ "delivered" \in EventTypes
  BY DEF ContractInv, TimelineInv, EventTypes
<1>1. \A r \in Receivers : Delivering(r, p) => p \in DOMAIN pages /\ pages[p].state \notin ReceiptFrom
  BY DEF Delivering, AnswerInv, ReceiptInv
<1>2. ASSUME NEW r \in Receivers, Delivering(r, p)', ~Delivering(r, p)
      PROVE  ReceiptWrite(r) /\ p \in DOMAIN pages /\ pages[p].state \in ReceiptFrom
  <2>1. ReceiptNext(r)
    BY <1>0, <1>2, ReceiptCases DEF Delivering
  <2>2. ReceiptWrite(r) /\ receipts'[r].page = receipts[r].page
    BY <1>0, <1>2, <2>1, ReceiptStatus DEF Delivering
  <2> QED
    BY <1>2, <2>2 DEF Delivering, ReceiptWrite, StateIn
<1>3. events[p]["delivered"] > 0 => p \in DOMAIN pages /\ pages[p].state \notin ReceiptFrom
  BY <1>0 DEF TimelineOf
<1>4. events'[p]["delivered"] = events[p]["delivered"]
      \/ \E r \in Receivers : /\ events'[p]["delivered"] = events[p]["delivered"] + 1
                              /\ ReceiptEvent(r) /\ Delivering(r, p)
  BY <1>0, EventStep DEF Delivering, ReceiptEvent
<1>5. \A r \in Receivers : ReceiptEvent(r) => ~Delivering(r, p)'
  BY <1>0 DEF Delivering, ReceiptEvent, ReceiptReply, TypeInv, TypeOK, ApiType, ReceiptRec
<1>6. \A r \in Receivers : ReceiptWrite(r) => events' = events
  BY DEF ReceiptWrite
<1>7. events'[p]["delivered"] \in 0..1
  BY <1>0, <1>4 DEF TimelineOf
<1>8. events'[p]["delivered"] > 0 => pages'[p].state \notin ReceiptFrom
  BY <1>0, <1>1, <1>3, <1>4, StateForward
<1>9. ASSUME NEW r \in Receivers, Delivering(r, p)'
      PROVE  events'[p]["delivered"] = 0
  <2>1. CASE ~Delivering(r, p)
    BY <1>0, <1>2, <1>3, <1>6, <1>9, <2>1 DEF TimelineOf
  <2>2. CASE Delivering(r, p)
    BY <1>0, <1>4, <1>5, <1>9, <2>2 DEF TimelineOf
  <2> QED
    BY <2>1, <2>2
<1>10. ASSUME NEW q \in Receivers, NEW r \in Receivers, Delivering(q, p)', Delivering(r, p)'
       PROVE  q = r
  <2>1. CASE Delivering(q, p) /\ Delivering(r, p)
    BY <1>0, <2>1 DEF TimelineOf
  <2>2. CASE ~Delivering(q, p) /\ ~Delivering(r, p)
    <3>1. ReceiptWrite(q) /\ ReceiptWrite(r)
      BY <1>2, <1>10, <2>2
    <3>2. receipts \in [Receivers -> ReceiptRec]
      BY <1>0 DEF TypeInv, TypeOK, ApiType
    <3> QED
      BY <1>10, <2>2, <3>1, <3>2 DEF ReceiptWrite, ReceiptReply, Delivering
  <2> QED
    BY <1>1, <1>2, <1>10, <2>1, <2>2
<1> QED
  BY <1>7, <1>8, <1>9, <1>10

\* A page that does not exist has no timeline, and one that does began with "created".
LEMMA BirthTimeline ==
    ASSUME ContractInv, AnswerInv, TimelineInv, [Next]_vars, NEW p \in PageIds
    PROVE  /\ p \notin DOMAIN pages' => \A t \in EventTypes : events'[p][t] = 0
           /\ p \in DOMAIN pages' => events'[p]["created"] = 1
<1>0. TypeInv /\ TimelineOf(p) /\ "created" \in EventTypes
  BY DEF ContractInv, TimelineInv, EventTypes
<1>1. \A t \in EventTypes :
         events'[p][t] = events[p][t] \/ p \in DOMAIN pages \/ (t = "created" /\ CreateNew(p))
  BY <1>0, EventStep, RecordAtHand
  DEF AckEvent, AnswerInv, AckInv, ReceiptEvent, ReceiptInv, AttemptEvent, ExpiredEvent,
      NoDevices, HandlingPc, PagerPc
<1>2. CreateNew(p) => /\ p \notin DOMAIN pages /\ p \in DOMAIN pages'
                      /\ events'[p]["created"] = events[p]["created"] + 1
  BY <1>0 DEF CreateNew, Creatable, CreatePage, Put, TypeInv, TypeOK, TableType
<1>3. p \in DOMAIN pages => p \in DOMAIN pages'
  BY StateForward
<1>4. p \in DOMAIN pages' \ DOMAIN pages => CreateNew(p)
  BY PagesStep
<1>5. p \in DOMAIN pages => events'[p]["created"] = events[p]["created"]
  BY <1>0, <1>2, EventStep
<1> QED
  BY <1>0, <1>1, <1>2, <1>3, <1>4, <1>5 DEF TimelineOf

\* A page that was pushed once is not "created" any more.
LEMMA PushTimeline ==
    ASSUME ContractInv, AnswerInv, TimelineInv, [Next]_vars, NEW p \in PageIds,
           events'[p]["push_attempt"] > 0
    PROVE  pages'[p].state # "created"
<1>0. TypeInv /\ TimelineOf(p) /\ "push_attempt" \in EventTypes
  BY DEF ContractInv, TimelineInv, EventTypes
<1>1. CASE events'[p]["push_attempt"] = events[p]["push_attempt"]
  <2>1. p \in DOMAIN pages /\ pages[p].state # "created"
    BY <1>0, <1>1 DEF TimelineOf
  <2> QED
    BY <2>1, StateForward
<1>2. ASSUME NEW w \in Workers, AttemptEvent(w), PageOf(w) = p
      PROVE  pages'[p].state # "created"
  <2>1. inv[w].pc = "attemptEvent" /\ UNCHANGED pages
    BY <1>2 DEF AttemptEvent
  <2> QED
    BY <1>2, <2>1 DEF AnswerInv, RecordInv, Recorded
<1> QED
  BY <1>0, <1>1, <1>2, EventStep

\* No timeline has an event in the initial states.
LEMMA TimelineInvInit == Init => TimelineInv
BY DEF Init, TableInit, ApiInit, TimelineInv, TimelineOf, Acking, Delivering, EventTypes

\* TimelineInv is inductive, relative to ContractInv and AnswerInv.
LEMMA TimelineInvStep == ContractInv /\ AnswerInv /\ TimelineInv /\ [Next]_vars => TimelineInv'
BY AckTimeline, ReceiptTimeline, BirthTimeline, PushTimeline DEF TimelineInv, TimelineOf

\* Of a page that exists, TimelineInv says what the timeline promises.
LEMMA TimelineInvImplies == ContractInv /\ TimelineInv => TimelineAgrees
<1> SUFFICES ASSUME ContractInv, TimelineInv, NEW p \in DOMAIN pages
             PROVE  /\ events[p]["created"] = 1
                    /\ events[p]["acked"] <= 1 /\ events[p]["delivered"] <= 1
                    /\ events[p]["acked"] > 0 => pages[p].state = "acked"
                    /\ events[p]["delivered"] + events[p]["push_attempt"] > 0 =>
                           pages[p].state # "created"
  BY DEF TimelineAgrees
<1>1. p \in PageIds /\ \A t \in EventTypes : events[p][t] \in Nat
  BY DEF ContractInv, TypeInv, TypeOK, TableType
<1>2. TimelineOf(p) /\ "delivered" \in EventTypes /\ "push_attempt" \in EventTypes
  BY <1>1 DEF TimelineInv, EventTypes
<1> QED
  BY <1>1, <1>2 DEF TimelineOf, ReceiptFrom

\* The timeline tells no more than what happened (TimelineAgrees): one "acked" and one
\* "delivered" at most, and none that the state of the page does not bear out, whatever
\* calls fail and however many requests race.
THEOREM TimelineHolds == Spec => []TimelineAgrees
<1>1. Init => TimelineInv
  BY TimelineInvInit
<1>2. ContractInv /\ AnswerInv /\ TimelineInv /\ [Next]_vars => TimelineInv'
  BY TimelineInvStep
<1> QED
  BY <1>1, <1>2, AnswerInvHolds, TimelineInvImplies, PTL DEF Spec

==============================================================================
