----------------------------- MODULE CanaryProofs -----------------------------
(* The canary is a client of the core like any other: whatever it does, the   *)
(* core keeps to its specification.  And its heartbeat tells the truth.       *)
EXTENDS CanaryProps, AlertMeAnswerProofs

USE DEF vars, tableVars, queueVars, pagerVars, apiVars

------------------------------------------------------------------------------
(* The canary and the core *)

\* Every call of the canary is a request of the API, or changes nothing there.
LEMMA CanaryStepOfCore == CanaryStep => [Next]_vars
<1> SUFFICES ASSUME CanaryStep PROVE [Next]_vars
  OBVIOUS
<1>1. CASE PostAck
  BY <1>1 DEF PostAck, Next, ClientNext
<1>2. CASE PostPage \/ CreateAnswered \/ Poll \/ AckAnswered \/ Heartbeat \/ Fails
  BY <1>2 DEF PostPage, CreateAnswered, Poll, AckAnswered, Heartbeat, Fails
<1> QED
  BY <1>1, <1>2 DEF CanaryStep

\* A step of the canary or of the core is a step of the core, or leaves it alone.
LEMMA StepOfCore == [CanaryNext]_canaryVars => [Next]_vars
BY CanaryStepOfCore DEF CanaryNext, CoreStep, canaryVars

\* The core with the canary as its client is the core: all that is proved of AlertMe
\* holds while the canary runs (canary/main.go:124-209).
THEOREM CanaryIsAClient == CanarySpec => Spec
<1>1. CanaryInit => Init
  BY DEF CanaryInit
<1> QED
  BY <1>1, StepOfCore, PTL DEF CanarySpec, Spec

------------------------------------------------------------------------------
(* The pages of bots *)

\* An attempt of p was recorded, and no expiry from an older read has hidden it.
OnRecord(p) ==
    /\ p \in DOMAIN pages
    /\ pages[p].state \in {"pushed", "acked", "expired"}
    /\ pages[p].state # "expired" => pages[p].attempt >= 0

\* A page is "pushed" by the record of an attempt only, also in a copy that lags behind,
\* and "acked" by a request that leaves its note.
BotInv ==
    /\ \A p \in DOMAIN pages :
          /\ pages[p].state \in LiveStates \ {"delivered"}
          /\ pages[p].state = "pushed" => OnRecord(p)
          /\ pages[p].state = "acked" => pages[p].note \in Ackers
    /\ \A p \in DOMAIN replica :
          /\ replica[p].state # "delivered"
          /\ replica[p].state = "pushed" => OnRecord(p)

\* What a step does to a page that exists.
LEMMA PageMoves ==
    ASSUME Receivers = {}, ContractInv, [Next]_vars, NEW p \in DOMAIN pages
    PROVE  /\ p \in DOMAIN pages'
           /\ \/ pages'[p] = pages[p]
              \/ pages[p].state \in ActiveStates /\ pages'[p].state = "expired"
              \/ /\ pages[p].state \in {"created", "pushed"}
                 /\ pages'[p].state = "pushed" /\ pages'[p].attempt >= 0
              \/ pages[p].state = "delivered"
              \/ /\ pages[p].state \in ActiveStates /\ pages'[p].state = "acked"
                 /\ pages'[p].attempt = pages[p].attempt /\ pages'[p].note \in Ackers
<1>0. TableType
  BY DEF ContractInv, TypeInv, TypeOK
<1>1. p \in DOMAIN pages'
  BY StateForward
<1>2. ASSUME NEW w \in Workers, Expire(w)
      PROVE  \/ pages'[p] = pages[p]
             \/ pages[p].state \in ActiveStates /\ pages'[p].state = "expired"
  BY <1>0, <1>2, ExpireAbstract, SetPageStateAbstract DEF PageState
<1>3. ASSUME NEW w \in Workers, RecordWins(w)
      PROVE  \/ pages'[p] = pages[p]
             \/ /\ pages[p].state \in {"created", "pushed"}
                /\ pages'[p].state = "pushed" /\ pages'[p].attempt >= 0
             \/ pages[p].state = "delivered"
  <2>1. AttemptOf(w) \in Nat
    BY <1>3, RecordAtHand DEF RecordWins, HandlingPc, PagerPc, ContractInv
  <2> QED
    BY <1>0, <1>3, <2>1, RecordAbstract, SetPageStateAbstract
<1>4. ASSUME NEW a \in Ackers, AckWrite(a)
      PROVE  \/ pages'[p] = pages[p]
             \/ /\ pages[p].state \in ActiveStates /\ pages'[p].state = "acked"
                /\ pages'[p].attempt = pages[p].attempt /\ pages'[p].note \in Ackers
  <2>1. pages[p] \in PageRec
    BY <1>0 DEF TableType
  <2>2. AckPage(acks[a].page, a) /\ pages[acks[a].page].state \in ActiveStates
    BY <1>4 DEF AckWrite, Ackable, StateIn
  <2> QED
    BY <2>1, <2>2 DEF AckPage, PageRec
<1>5. ASSUME NEW q \in PageIds, CreateNew(q)
      PROVE  pages'[p] = pages[p]
  BY <1>0, <1>5, CreatePageAbstract DEF CreateNew
<1> QED
  BY <1>1, <1>2, <1>3, <1>4, <1>5, WriteCases DEF Tick

\* No page is on record in the initial states.
LEMMA BotInvInit == Init => BotInv
BY DEF Init, TableInit, BotInv

\* A page on record stays so.
LEMMA OnRecordStays ==
    ASSUME Receivers = {}, ContractInv, [Next]_vars, NEW p, OnRecord(p)
    PROVE  OnRecord(p)'
BY PageMoves DEF OnRecord, ActiveStates

\* BotInv is inductive where no phone sends receipts.
LEMMA BotInvStep ==
    ASSUME Receivers = {}, ContractInv, BotInv, [Next]_vars
    PROVE  BotInv'
<1>1. ASSUME NEW p \in DOMAIN pages'
      PROVE  /\ pages'[p].state \in LiveStates \ {"delivered"}
             /\ pages'[p].state = "pushed" => OnRecord(p)'
             /\ pages'[p].state = "acked" => pages'[p].note \in Ackers
  <2>1. CASE p \in DOMAIN pages
    BY <2>1, PageMoves DEF BotInv, OnRecord, ActiveStates, LiveStates
  <2>2. CASE p \notin DOMAIN pages
    <3>1. p \in PageIds /\ CreateNew(p) /\ TableType
      BY <1>1, <2>2, PagesStep DEF ContractInv, TypeInv, TypeOK
    <3>2. pages'[p] = Page("created", -1, None)
      BY <3>1, CreatePageAbstract DEF CreateNew
    <3>3. pages'[p].state = "created"
      BY <3>2 DEF Page
    <3> QED
      BY <3>3 DEF LiveStates
  <2> QED
    BY <2>1, <2>2
<1>2. ASSUME NEW p \in DOMAIN replica'
      PROVE  replica'[p].state # "delivered" /\ (replica'[p].state = "pushed" => OnRecord(p)')
  <2>1. CASE UNCHANGED replica
    BY <1>2, <2>1, OnRecordStays DEF BotInv
  <2>2. ASSUME NEW q \in DOMAIN pages, UNCHANGED pages, replica' = Put(replica, q, pages[q])
        PROVE  replica'[p].state # "delivered" /\ (replica'[p].state = "pushed" => OnRecord(p)')
    <3>1. CASE p = q
      BY <1>1, <1>2, <2>2, <3>1 DEF Put
    <3>2. CASE p # q
      BY <1>2, <2>2, <3>2, OnRecordStays DEF Put, BotInv
    <3> QED
      BY <3>1, <3>2
  <2> QED
    BY <2>1, <2>2, TableStep
<1> QED
  BY <1>1, <1>2 DEF BotInv

------------------------------------------------------------------------------
(* The run of the canary *)

CanaryPc == {"login", "created", "poll", "ack", "acked", "heartbeat", "alive", "failed"}

\* What the canary was told so far, the page still bears out; the only ack is its own.
CanaryInv ==
    /\ canary \in [pc : CanaryPc, page : PageIds \cup {None}, age : Nat]
    /\ \A a \in Ackers : acks[a].status # "new" =>
          /\ acks[a].page = canary.page
          /\ canary.pc \notin {"login", "created", "poll", "ack"}
    /\ canary.pc \in {"ack", "acked", "heartbeat", "alive"} => OnRecord(canary.page)
    /\ canary.pc \in {"heartbeat", "alive"} => pages[canary.page].state = "acked"

\* Nothing is asked for at the start.
LEMMA CanaryInvInit == CanaryInit => CanaryInv
BY DEF CanaryInit, Init, ApiInit, CanaryInv, CanaryPc

\* The core, whatever it does meanwhile, takes nothing back.
LEMMA CoreKeepsCanaryInv ==
    ASSUME Receivers = {}, ContractInv, CanaryInv, [Next]_vars,
           canary'.pc = canary.pc, canary'.page = canary.page,
           canary' \in [pc : CanaryPc, page : PageIds \cup {None}, age : Nat],
           \A a \in Ackers : acks[a].status = "new" => acks'[a].status = "new"
    PROVE  CanaryInv'
<1>0. TypeInv
  BY DEF ContractInv
<1>1. ASSUME NEW a \in Ackers, acks'[a].status # "new"
      PROVE  acks[a].status # "new" /\ acks'[a].page = acks[a].page
  <2>1. acks[a].status # "new"
    BY <1>1
  <2>2. ~AckRequest(a)
    BY <2>1 DEF AckRequest
  <2> QED
    BY <1>0, <2>1, <2>2, AckCases, AckStatus
<1>2. OnRecord(canary.page) => OnRecord(canary.page)'
  <2> SUFFICES ASSUME NEW p, p = canary.page, OnRecord(p)
               PROVE  OnRecord(p)'
    BY DEF OnRecord
  <2> QED
    BY OnRecordStays
<1>3. OnRecord(canary.page) /\ pages[canary.page].state = "acked" =>
         pages'[canary.page].state = "acked"
  BY StateForward DEF OnRecord, ActiveStates
<1> QED
  BY <1>1, <1>2, <1>3 DEF CanaryInv

\* The calls of the canary.
LEMMA CanaryKeepsCanaryInv ==
    ASSUME ContractInv, AnswerInv, BotInv, CanaryInv, CanaryStep
    PROVE  CanaryInv'
<1> USE DEF CanaryInv, CanaryPc, Continue
<1>1. CASE PostPage
  BY <1>1 DEF PostPage, OnRecord
<1>2. CASE CreateAnswered \/ Heartbeat \/ Fails
  BY <1>2 DEF CreateAnswered, Heartbeat, Fails, Ended, OnRecord
<1>3. CASE Poll
  <2>1. PICK copy \in Copies : canary.page \in DOMAIN copy /\ Advanced(copy[canary.page].state)
    BY <1>3 DEF Poll
  <2>2. OnRecord(canary.page)
    BY <2>1 DEF Copies, BotInv, Advanced
  <2> QED
    BY <1>3, <2>2 DEF Poll, OnRecord
<1>4. CASE PostAck
  <2>1. PICK a \in Ackers : AckRequest(a) /\ acks'[a].page = canary.page
    BY <1>4 DEF PostAck
  <2>2. \A b \in Ackers \ {a} : acks'[b] = acks[b]
    BY <2>1 DEF AckRequest, ContractInv, TypeInv, TypeOK, ApiType
  <2> QED
    BY <1>4, <2>1, <2>2 DEF PostAck, AckRequest, OnRecord
<1>5. CASE AckAnswered
  <2>1. PICK a \in Ackers : acks[a].status = "200"
    BY <1>5 DEF AckAnswered
  <2>2. pages[canary.page].state = "acked"
    BY <2>1 DEF AnswerInv, AckInv
  <2> QED
    BY <1>5, <2>2 DEF AckAnswered, OnRecord
<1> QED
  BY <1>1, <1>2, <1>3, <1>4, <1>5 DEF CanaryStep

\* CanaryInv is inductive, relative to what is known of the core.
LEMMA CanaryInvStep ==
    ASSUME Receivers = {}, ContractInv, AnswerInv, BotInv, CanaryInv, [CanaryNext]_canaryVars
    PROVE  CanaryInv'
<1>1. CASE CanaryStep
  BY <1>1, CanaryKeepsCanaryInv
<1>2. CASE CoreStep
  <2>1. canary'.pc = canary.pc /\ canary'.page = canary.page
        /\ canary' \in [pc : CanaryPc, page : PageIds \cup {None}, age : Nat]
    BY <1>2 DEF CoreStep, CanaryInv
  <2> QED
    BY <1>2, <2>1, CoreKeepsCanaryInv DEF CoreStep
<1>3. CASE UNCHANGED canaryVars
  BY <1>3 DEF canaryVars, CanaryInv, OnRecord
<1> QED
  BY <1>1, <1>2, <1>3 DEF CanaryNext

\* A heartbeat means that an attempt of this very page was recorded and that the ack of
\* bot B reached it (HeartbeatTruthful, canary/main.go:1-4): whatever the pager's calls
\* and the clock do, and however stale the page the canary polls.  Bots have no phone.
THEOREM HeartbeatHolds ==
    Receivers = {} => (CanarySpec => []HeartbeatTruthful)
<1> SUFFICES ASSUME Receivers = {}
             PROVE  CanarySpec => []HeartbeatTruthful
  OBVIOUS
<1>1. Init => BotInv
  BY BotInvInit
<1>2. ContractInv /\ AnswerInv /\ BotInv /\ [Next]_vars => BotInv'
  BY BotInvStep
<1>3. Spec => [](ContractInv /\ AnswerInv /\ BotInv)
  BY <1>1, <1>2, AnswerInvHolds, PTL DEF Spec
<1>4. CanaryInit => CanaryInv
  BY CanaryInvInit
<1>5. ContractInv /\ AnswerInv /\ BotInv /\ CanaryInv /\ [CanaryNext]_canaryVars => CanaryInv'
  BY CanaryInvStep
<1>6. ContractInv /\ BotInv /\ CanaryInv => HeartbeatTruthful
  BY DEF BotInv, CanaryInv, HeartbeatTruthful, OnRecord
<1> QED
  BY <1>3, <1>4, <1>5, <1>6, CanaryIsAClient, PTL DEF CanarySpec

==============================================================================
