----------------------------- MODULE FanoutProofs -----------------------------
(* With the pushes carried out by the FCM client, the core is still the core: *)
(* every step of Fanout is a step of AlertMe, or leaves its state alone.      *)
(* And no device of a round is forgotten, or alerted more often than promised.*)
EXTENDS FanoutProps, AlertMeTypeProofs, FiniteSetTheorems, SequenceTheorems

USE DEF vars, tableVars, queueVars, pagerVars, apiVars

------------------------------------------------------------------------------
(* The Send that a worker is in *)

\* A Send in progress is for a device of the round of its worker.
InRound(w) ==
    /\ inv[w].pc = "send"
    /\ call[w].device \in Devices \cap inv[w].todo

\* A device is reported gone only once its token is dead.
GoneIsDead(w) == call[w].result = "gone" => call[w].device \notin valid

CallType == [pc : {"none", "post", "backoff", "returned"}, device : Devices \cup {None},
             try : Int, result : {"none", "sent", "gone", "failed"}]

CallInv ==
    /\ call \in [Workers -> CallType]
    /\ \A w \in Workers : call[w].pc # "none" => InRound(w) /\ GoneIsDead(w)

FanoutInv == TypeInv /\ CallInv

\* No Send is in progress at the start.
LEMMA FanoutInvInit == FanoutInit => FanoutInv
<1> SUFFICES ASSUME FanoutInit PROVE FanoutInv
  OBVIOUS
<1>1. TypeInv
  BY TypeInvInit DEF FanoutInit
<1>2. CallInv
  BY DEF FanoutInit, ClientInit, NoCall, CallInv, CallType
<1> QED
  BY <1>1, <1>2 DEF FanoutInv

------------------------------------------------------------------------------
(* Every step is one of the core *)

\* The return of a Send is the step Pager guesses: Send, or SendGone.
LEMMA SendReturnsIsASend ==
    ASSUME "send" \in Faults, FanoutInv, NEW w \in Workers, SendReturns(w)
    PROVE  Next
<1> DEFINE d == call[w].device
<1>1. d \in Devices /\ d \in inv[w].todo /\ inv[w].pc = "send" /\ GoneIsDead(w)
  BY DEF SendReturns, FanoutInv, CallInv, InRound
<1>2. Send(w, d) \/ SendGone(w, d)
  BY <1>1 DEF SendReturns, Send, SendGone, GoneIsDead
<1>3. PagerStep(w)
  BY <1>1, <1>2 DEF PagerStep, HandleRecord
<1> QED
  BY <1>3 DEF SendReturns, Next, PagerNext

\* A step of Fanout is one of AlertMe, or leaves the state of AlertMe alone.
LEMMA FanoutStep ==
    ASSUME "send" \in Faults, FanoutInv, [FanoutNext]_fanoutVars
    PROVE  [Next]_vars
<1>1. CASE CoreStep \/ UNCHANGED fanoutVars
  BY <1>1 DEF CoreStep, fanoutVars
<1>2. ASSUME NEW w \in Workers, ClientStep(w) \/ \E d \in Devices : CallSend(w, d)
      PROVE  UNCHANGED vars
  BY <1>2 DEF ClientStep, CallSend
<1>3. ASSUME NEW w \in Workers, SendReturns(w)
      PROVE  Next
  BY <1>3, SendReturnsIsASend
<1>4. ASSUME NEW w \in Workers, DieSending(w)
      PROVE  Next
  BY <1>4 DEF DieSending, Next, PagerNext
<1> QED
  BY <1>1, <1>2, <1>3, <1>4 DEF FanoutNext

------------------------------------------------------------------------------
(* FanoutInv is inductive *)

\* No token comes back to life.
LEMMA ValidShrinks ==
    ASSUME Next PROVE valid' \subseteq valid
<1>1. ASSUME NEW w \in Workers, Receive(w) \/ PagerStep(w) \/ Fail(w) \/ Crash(w)
      PROVE  UNCHANGED valid
  BY <1>1 DEF Receive, Fail, Crash, PagerStep, NextRecord, EndBatch, HandleRecord, LoadDrop,
     LoadExpired, LoadDue, Expire, ExpiredEvent, ListDevices, NoDevices, GetSender,
     GetSenderFails, Send, SendGone, Prune, RecordWins, RecordConflict, AttemptEvent,
     EnqueueNext, EnqueueFinal, Exhausted
<1>2. ASSUME NEW d \in Devices, RegisterDevice(d) \/ TokenDies(d)
      PROVE  valid' \subseteq valid
  BY <1>2 DEF RegisterDevice, TokenDies
<1> QED
  BY <1>1, <1>2 DEF Next, PagerNext, Tick, Rest

\* The Sends of the other workers are not disturbed.
LEMMA OthersKept ==
    ASSUME FanoutInv, valid' \subseteq valid, NEW w \in Workers,
           call'[w] = call[w], inv[w].pc = "send" => inv'[w] = inv[w],
           call'[w].pc # "none"
    PROVE  InRound(w)' /\ GoneIsDead(w)'
BY DEF FanoutInv, CallInv, InRound, GoneIsDead

\* The client's steps: a Send begins, posts, pauses or has its result.
LEMMA ClientKeepsCallInv ==
    ASSUME FanoutInv, NEW w \in Workers, UNCHANGED vars,
           Post(w) \/ Backoff(w) \/
           \E d \in Devices : inv[w].pc = "send" /\ d \in inv[w].todo /\ BeginSend(w, d)
    PROVE  CallInv'
<1> USE DEF FanoutInv, CallInv, CallType, InRound, GoneIsDead
<1>1. CASE Backoff(w)
  BY <1>1 DEF Backoff
<1>2. ASSUME NEW d \in Devices, inv[w].pc = "send", d \in inv[w].todo, BeginSend(w, d)
      PROVE  CallInv'
  <2> DEFINE c == [pc |-> "post", device |-> d, try |-> 0, result |-> "none"]
  <2>1. c \in CallType /\ c.device = d /\ c.result = "none"
    OBVIOUS
  <2>2. call' = [call EXCEPT ![w] = c]
    BY <1>2 DEF BeginSend
  <2> HIDE DEF c
  <2> QED
    BY <1>2, <2>1, <2>2
<1>3. CASE Post(w)
  <2>1. PICK reply \in Replies(call[w].device) :
           call' = IF Retried(reply) /\ TriesLeft(call[w].try)
                   THEN [call EXCEPT ![w].pc = "backoff"]
                   ELSE [call EXCEPT ![w].pc = "returned", ![w].result = Result(reply)]
    BY <1>3 DEF Post
  <2>2. call[w].pc = "post"
    BY <1>3 DEF Post
  <2>3. CASE Retried(reply) /\ TriesLeft(call[w].try)
    BY <2>1, <2>2, <2>3
  <2>4. Result(reply) \in {"sent", "gone", "failed"}
        /\ (Result(reply) = "gone" => call[w].device \notin valid)
    BY DEF Result, Replies
  <2>5. CASE ~(Retried(reply) /\ TriesLeft(call[w].try))
    <3> DEFINE r == Result(reply)
    <3>1. call' = [call EXCEPT ![w].pc = "returned", ![w].result = r]
      BY <2>1, <2>5
    <3> HIDE DEF r
    <3>2. r \in {"sent", "gone", "failed"} /\ (r = "gone" => call[w].device \notin valid)
      BY <2>4 DEF r
    <3> QED
      BY <2>2, <3>1, <3>2
  <2> QED
    BY <2>3, <2>5
<1> QED
  BY <1>1, <1>2, <1>3

\* The end of a Send, by its return or with its invocation.
LEMMA EndOfSendKeepsCallInv ==
    ASSUME FanoutInv, NEW w \in Workers, SendReturns(w) \/ DieSending(w)
    PROVE  CallInv'
<1>1. call' = [call EXCEPT ![w] = NoCall] /\ UNCHANGED valid
  BY DEF SendReturns, DieSending, Crash
<1>2. \A v \in Workers \ {w} : inv'[v] = inv[v]
  BY DEF SendReturns, DieSending, Crash, FanoutInv, TypeInv, TypeOK, PagerType
<1> QED
  BY <1>1, <1>2 DEF NoCall, FanoutInv, CallInv, CallType, InRound, GoneIsDead

\* FanoutInv is inductive.
LEMMA FanoutInvStep ==
    ASSUME "send" \in Faults, FanoutInv, [FanoutNext]_fanoutVars
    PROVE  FanoutInv'
<1>1. TypeInv'
  BY FanoutStep, TypeInvStep DEF FanoutInv
<1>2. CASE UNCHANGED fanoutVars
  BY <1>1, <1>2 DEF fanoutVars, clientVars, FanoutInv, CallInv, InRound, GoneIsDead
<1>3. CASE CoreStep
  <2>1. valid' \subseteq valid /\ UNCHANGED call
    BY <1>3, ValidShrinks DEF CoreStep
  <2>2. \A w \in Workers : call'[w].pc # "none" => InRound(w)' /\ GoneIsDead(w)'
    BY <1>3, <2>1, OthersKept DEF CoreStep
  <2> QED
    BY <1>1, <2>1, <2>2 DEF FanoutInv, CallInv
<1>4. ASSUME NEW w \in Workers, ClientStep(w) \/ \E d \in Devices : CallSend(w, d)
      PROVE  CallInv'
  BY <1>4, ClientKeepsCallInv DEF ClientStep, CallSend
<1>5. ASSUME NEW w \in Workers, SendReturns(w) \/ DieSending(w)
      PROVE  CallInv'
  BY <1>5, EndOfSendKeepsCallInv
<1> QED
  BY <1>1, <1>2, <1>3, <1>4, <1>5 DEF FanoutNext, FanoutInv

------------------------------------------------------------------------------

\* With the pushes carried out, one device after the other and with retries, the core
\* does what Pager's guesses of their outcome allow, provided that pushes may fail:
\* all that is proved of AlertMe holds of it (main.go:168-187, fcm.go:98-139).
THEOREM FanoutImplementsCore ==
    ASSUME "send" \in Faults
    PROVE  FanoutSpec => ImplementsCore
<1>1. FanoutInit => Init
  BY DEF FanoutInit
<1>2. FanoutInv /\ [FanoutNext]_fanoutVars => FanoutInv'
  BY FanoutInvStep
<1>3. FanoutInv /\ [FanoutNext]_fanoutVars => [Next]_vars
  BY FanoutStep
<1> QED
  BY <1>1, <1>2, <1>3, FanoutInvInit, PTL DEF FanoutSpec, Spec, ImplementsCore

------------------------------------------------------------------------------
(* The posts of a round *)

AnyReply == {"ok", "lost", "down", "gone", "refused"}

\* FCM answered for good, or was asked twice.
Tried(posts) ==
    /\ posts # <<>> /\ Len(posts) <= 2
    /\ Retried(posts[Len(posts)]) => Len(posts) = 2

\* A Send in progress has made as many posts as its loop counts.
InProgress(c, posts) ==
    /\ c.try \in {0, 1}
    /\ c.pc \in {"post", "backoff"} => c.result = "none"
    /\ c.pc = "post" => Len(posts) = c.try
    /\ c.pc = "backoff" => c.try = 0 /\ Len(posts) = 1
    /\ c.pc = "returned" => Tried(posts)

\* A device had its turn, has it, or waits for it.
Turn(w, d) ==
    IF d \notin inv[w].todo \/ (inv[w].pc = "prune" /\ inv[w].gone = d)
    THEN Tried(log[w][d])
    ELSE IF call[w].pc # "none" /\ call[w].device = d
         THEN InProgress(call[w], log[w][d])
         ELSE log[w][d] = <<>>

RoundOf(w) ==
    /\ DOMAIN log[w] \subseteq Devices
    /\ \A d \in DOMAIN log[w] : log[w][d] \in Seq(AnyReply) /\ Turn(w, d)
    /\ inv[w].todo \subseteq DOMAIN log[w]
    /\ inv[w].pc \notin {"sender", "send", "prune"} => inv[w].todo = {}
    /\ inv[w].pc \notin Round => log[w] = NoLog
    /\ inv[w].pc = "prune" => inv[w].gone \in inv[w].todo

LogInv == DOMAIN log = Workers /\ \A w \in Workers : RoundOf(w)

\* How an invocation gets into a round, through it and out of it, but for its Sends.
LEMMA RoundMoves ==
    ASSUME TypeInv, [Next]_vars, NEW w \in Workers, inv[w].pc # "send"
    PROVE  \/ /\ inv'[w].pc = inv[w].pc
              /\ inv'[w].todo = inv[w].todo /\ inv'[w].gone = inv[w].gone
           \/ /\ inv'[w].pc \notin Round
              /\ \/ inv'[w].todo = {}
                 \/ inv'[w].todo = inv[w].todo /\ inv[w].pc \notin {"sender", "prune"}
           \/ /\ inv[w].pc = "list" /\ inv'[w].todo = devices
              /\ inv'[w].pc = IF devices = {} THEN "noDevices" ELSE "sender"
           \/ inv[w].pc = "noDevices" /\ inv'[w].pc = "record" /\ inv'[w].todo = inv[w].todo
           \/ inv[w].pc = "sender" /\ inv'[w].pc = "send" /\ inv'[w].todo = inv[w].todo
           \/ /\ inv[w].pc = "prune" /\ inv'[w].todo = inv[w].todo \ {inv[w].gone}
              /\ inv'[w].pc = AfterSend(w, inv[w].gone)
<1>0. inv \in [Workers -> Invocation] /\ inv[w] \in Invocation
  BY DEF TypeInv, TypeOK, PagerType
<1>1. ASSUME NEW v \in Workers, Receive(v)
      PROVE  inv'[w] = inv[w] \/ (inv'[w].pc = "next" /\ inv'[w].todo = {})
  BY <1>0, <1>1 DEF Receive, Idle
<1>2. ASSUME NEW v \in Workers, EndBatch(v) \/ Crash(v)
      PROVE  inv'[w] = inv[w] \/ (inv'[w].pc = "idle" /\ inv'[w].todo = {})
  BY <1>0, <1>2 DEF EndBatch, Crash, Idle
<1>3. ASSUME NEW v \in Workers, Returns(v) \/ EnqueueNext(v) \/ EnqueueFinal(v) \/ Fail(v)
      PROVE  inv'[w] = inv[w] \/ (inv'[w].pc = "next" /\ inv'[w].todo = {})
  BY <1>0, <1>3 DEF Returns, LoadDrop, ExpiredEvent, GetSenderFails, Exhausted, Fail,
                    EnqueueNext, EnqueueFinal, ReturnNil, ReturnError, Between, Idle
<1>4. ASSUME NEW v \in Workers, NextRecord(v)
      PROVE  inv'[w] = inv[w] \/ (inv[w].pc = "next" /\ inv'[w].pc = "load" /\ inv'[w].todo = inv[w].todo)
  BY <1>0, <1>4 DEF NextRecord, Invocation
<1>5. ASSUME NEW v \in Workers, GoesOn(v), v # w
      PROVE  inv'[w] = inv[w]
  BY <1>5, GoesOnType DEF StepOf
<1>6. CASE LoadExpired(w)
  <2>1. inv[w].pc = "load" /\ inv'[w].pc = "expire" /\ inv'[w].todo = inv[w].todo
    BY <1>0, <1>6 DEF LoadExpired, Invocation
  <2> QED
    BY <2>1 DEF Round
<1>7. CASE LoadDue(w)
  <2> DEFINE ticks == left[PageOf(w)]
  <2>1. /\ inv' = [inv EXCEPT ![w] = [[inv[w] EXCEPT !.pc = "list"] EXCEPT !.left = ticks]]
        /\ inv[w].pc = "load"
    BY <1>7 DEF LoadDue
  <2> HIDE DEF ticks
  <2>2. inv'[w].pc = "list" /\ inv'[w].todo = inv[w].todo
    BY <1>0, <2>1 DEF Invocation
  <2> QED
    BY <2>1, <2>2 DEF Round
<1>8. CASE Expire(w) \/ RecordWins(w) \/ AttemptEvent(w)
  <2>1. /\ inv[w].pc \in {"expire", "record", "attemptEvent"}
        /\ inv'[w].pc \in {"expiredEvent", "attemptEvent", "enqueue"}
        /\ inv'[w].todo = inv[w].todo
    BY <1>0, <1>8 DEF Expire, RecordWins, AttemptEvent, Goto, Invocation
  <2> QED
    BY <2>1 DEF Round
<1>9. CASE RecordConflict(w)
  <2>1. /\ inv[w].pc = "record" /\ inv'[w].pc \in {"record", "attemptEvent"}
        /\ inv'[w].todo = inv[w].todo /\ inv'[w].gone = inv[w].gone
    BY <1>0, <1>9 DEF RecordConflict, RecordTransitions, Goto, Invocation
  <2> QED
    BY <2>1 DEF Round
<1>10. CASE ListDevices(w)
  BY <1>0, <1>10 DEF ListDevices, Invocation
<1>11. CASE NoDevices(w) \/ GetSender(w)
  BY <1>0, <1>11 DEF NoDevices, GetSender, Goto, Invocation
<1>12. CASE Prune(w)
  BY <1>0, <1>12 DEF Prune, AfterSend, Invocation
<1>13. ~ \E d \in Devices : Send(w, d) \/ SendGone(w, d)
  BY DEF Send, SendGone
<1>14. CASE \E v \in Workers : Receive(v) \/ PagerStep(v) \/ Fail(v) \/ Crash(v)
  BY <1>1, <1>2, <1>3, <1>4, <1>5, <1>6, <1>7, <1>8, <1>9, <1>10, <1>11, <1>12, <1>13, <1>14,
     HandleRecordCases DEF PagerStep, GoesOn, Round
<1>15. CASE UNCHANGED inv
  BY <1>15
<1> QED
  BY <1>14, <1>15 DEF Next, PagerNext, RegisterDevice, TokenDies, Tick, Rest

\* No post was made at the start.
LEMMA LogInvInit == FanoutInit => LogInv
BY DEF FanoutInit, ClientInit, Init, PagerInit, Idle, NoLog, LogInv, RoundOf, Round

\* One more post.
LEMMA OneMorePost ==
    ASSUME NEW posts \in Seq(AnyReply), NEW reply \in AnyReply
    PROVE  /\ Append(posts, reply) \in Seq(AnyReply) /\ Append(posts, reply) # <<>>
           /\ Len(posts) \in Nat /\ Len(Append(posts, reply)) = Len(posts) + 1
           /\ Append(posts, reply)[Len(posts) + 1] = reply
           /\ \A i \in 1..Len(posts) : Append(posts, reply)[i] = posts[i]
BY AppendProperties, LenProperties

\* A worker that does not push gets on with its round, or leaves it.
LEMMA CoreKeepsRound ==
    ASSUME FanoutInv, LogInv, CoreStep, NEW w \in Workers
    PROVE  RoundOf(w)'
<1>1. /\ call' = call
      /\ log'[w] = IF RoundBegins(w) THEN [d \in devices |-> <<>>]
                   ELSE IF inv'[w].pc \in Round THEN log[w] ELSE NoLog
  BY DEF CoreStep
<1>2. RoundOf(w) /\ DOMAIN NoLog = {}
  BY DEF LogInv, NoLog
<1>3. CASE inv[w].pc = "send"
  <2>1. inv'[w] = inv[w] /\ log'[w] = log[w]
    BY <1>1, <1>3 DEF CoreStep, RoundBegins, Round
  <2> QED
    BY <1>1, <1>2, <2>1 DEF RoundOf, Turn
<1>4. CASE inv[w].pc # "send"
  <2>0. call[w].pc = "none"
    BY <1>4 DEF FanoutInv, CallInv, InRound
  <2>1. TypeInv /\ [Next]_vars /\ devices \subseteq Devices
    BY DEF FanoutInv, TypeInv, TypeOK, PagerType, CoreStep
  <2>2. CASE /\ inv'[w].pc = inv[w].pc
             /\ inv'[w].todo = inv[w].todo /\ inv'[w].gone = inv[w].gone
    <3>1. log'[w] = log[w]
      BY <1>1, <1>2, <2>2 DEF RoundOf, RoundBegins
    <3> QED
      BY <1>1, <1>2, <2>2, <3>1 DEF RoundOf, Turn
  <2>3. CASE /\ inv'[w].pc \notin Round
             /\ \/ inv'[w].todo = {}
                \/ inv'[w].todo = inv[w].todo /\ inv[w].pc \notin {"sender", "prune"}
    <3>1. inv'[w].todo = {} /\ inv'[w].pc \notin {"sender", "send", "prune"}
      BY <1>2, <1>4, <2>3 DEF RoundOf, Round
    <3>2. log'[w] = NoLog
      BY <1>1, <2>3 DEF RoundBegins, Round
    <3> QED
      BY <1>2, <3>1, <3>2 DEF RoundOf
  <2>4. CASE /\ inv[w].pc = "list" /\ inv'[w].todo = devices
             /\ inv'[w].pc = IF devices = {} THEN "noDevices" ELSE "sender"
    <3>1. log'[w] = [d \in devices |-> <<>>]
      BY <1>1, <2>4 DEF RoundBegins
    <3>2. inv'[w].pc \in {"noDevices", "sender"} /\ (inv'[w].pc = "noDevices" => devices = {})
      BY <2>4
    <3>3. \A d \in devices : Turn(w, d)'
      BY <1>1, <2>0, <2>4, <3>1, <3>2 DEF Turn
    <3> QED
      BY <2>1, <2>4, <3>1, <3>2, <3>3, EmptySeq DEF RoundOf, Round
  <2>5. CASE \/ inv[w].pc = "noDevices" /\ inv'[w].pc = "record" /\ inv'[w].todo = inv[w].todo
             \/ inv[w].pc = "sender" /\ inv'[w].pc = "send" /\ inv'[w].todo = inv[w].todo
    <3>1. log'[w] = log[w]
      BY <1>1, <2>5 DEF RoundBegins, Round
    <3>2. \A d \in DOMAIN log[w] : Turn(w, d)'
      BY <1>1, <1>2, <2>5, <3>1 DEF RoundOf, Turn
    <3> QED
      BY <1>2, <2>5, <3>1, <3>2 DEF RoundOf, Round
  <2>6. CASE /\ inv[w].pc = "prune" /\ inv'[w].todo = inv[w].todo \ {inv[w].gone}
             /\ inv'[w].pc = AfterSend(w, inv[w].gone)
    <3>1. inv'[w].pc \in {"record", "send"} /\ (inv'[w].pc = "record" => inv'[w].todo = {})
      BY <2>6 DEF AfterSend
    <3>2. log'[w] = log[w]
      BY <1>1, <2>6, <3>1 DEF RoundBegins, Round
    <3> QED
      BY <1>1, <1>2, <2>0, <2>6, <3>1, <3>2 DEF RoundOf, Turn, Round
  <2> QED
    BY <1>4, <2>1, <2>2, <2>3, <2>4, <2>5, <2>6, RoundMoves
<1> QED
  BY <1>3, <1>4

\* The Send a worker is in, and the log of its device.
LEMMA SendAtHand ==
    ASSUME FanoutInv, LogInv, NEW w \in Workers, call[w].pc # "none"
    PROVE  /\ inv[w].pc = "send" /\ call[w].device \in Devices
           /\ call[w].device \in inv[w].todo /\ call[w].device \in DOMAIN log[w]
           /\ log[w][call[w].device] \in Seq(AnyReply)
           /\ InProgress(call[w], log[w][call[w].device])
           /\ \A d \in DOMAIN log[w] \ {call[w].device} :
                 IF d \notin inv[w].todo THEN Tried(log[w][d]) ELSE log[w][d] = <<>>
<1>1. InRound(w) /\ RoundOf(w)
  BY DEF FanoutInv, CallInv, LogInv
<1> QED
  BY <1>1 DEF InRound, RoundOf, Turn

\* The posts of a Send, and the pauses between them.
LEMMA ClientKeepsRound ==
    ASSUME FanoutInv, LogInv, NEW w \in Workers, UNCHANGED vars, Post(w) \/ Backoff(w)
    PROVE  /\ LogInv'
           /\ call'[w].device = call[w].device
<1> DEFINE d == call[w].device
<1>0. call \in [Workers -> CallType] /\ DOMAIN log = Workers /\ RoundOf(w) /\ call[w].pc # "none"
  BY DEF FanoutInv, CallInv, LogInv, Post, Backoff
<1>1. /\ inv[w].pc = "send" /\ d \in inv[w].todo /\ d \in DOMAIN log[w]
      /\ log[w][d] \in Seq(AnyReply) /\ InProgress(call[w], log[w][d])
      /\ \A e \in DOMAIN log[w] \ {d} :
            IF e \notin inv[w].todo THEN Tried(log[w][e]) ELSE log[w][e] = <<>>
  BY <1>0, SendAtHand
<1> HIDE DEF d
<1>2. ASSUME NEW posts \in Seq(AnyReply), log' = [log EXCEPT ![w] = [log[w] EXCEPT ![d] = posts]],
             call'[w].pc # "none", call'[w].device = d, InProgress(call'[w], posts),
             \A v \in Workers \ {w} : call'[v] = call[v]
      PROVE  LogInv'
  <2>1. DOMAIN log' = Workers /\ \A v \in Workers \ {w} : log'[v] = log[v]
    BY <1>0, <1>2
  <2>2. \A v \in Workers \ {w} : RoundOf(v)'
    BY <1>2, <2>1 DEF LogInv, RoundOf, Turn
  <2>3. /\ DOMAIN log'[w] = DOMAIN log[w] /\ log'[w][d] = posts
        /\ \A e \in DOMAIN log[w] \ {d} : log'[w][e] = log[w][e]
    BY <1>0, <1>1, <1>2
  <2>4. \A e \in DOMAIN log[w] : log'[w][e] \in Seq(AnyReply) /\ Turn(w, e)'
    BY <1>0, <1>1, <1>2, <2>3 DEF Turn, RoundOf
  <2>5. RoundOf(w)'
    BY <1>0, <1>1, <2>3, <2>4 DEF RoundOf, Round
  <2> QED
    BY <2>1, <2>2, <2>5 DEF LogInv
<1>3. CASE Backoff(w)
  <2>1. /\ call' = [call EXCEPT ![w] = [[call[w] EXCEPT !.pc = "post"] EXCEPT !.try = call[w].try + 1]]
        /\ call[w].pc = "backoff" /\ log' = log
    BY <1>3 DEF Backoff
  <2>2. /\ call'[w].pc = "post" /\ call'[w].try = call[w].try + 1
        /\ call'[w].device = d /\ call'[w].result = call[w].result
        /\ \A v \in Workers \ {w} : call'[v] = call[v]
    BY <1>0, <2>1 DEF CallType, d
  <2>3. InProgress(call'[w], log[w][d])
    <3>1. call[w].try = 0 /\ Len(log[w][d]) = 1 /\ call[w].result = "none"
      BY <1>1, <2>1 DEF InProgress
    <3>2. call'[w].try = 1 /\ call'[w].result = "none" /\ call'[w].pc = "post"
      BY <2>2, <3>1
    <3> QED
      BY <3>1, <3>2 DEF InProgress
  <2>4. \A v \in Workers \ {w} : RoundOf(v)'
    BY <2>1, <2>2 DEF LogInv, RoundOf, Turn
  <2>5. \A e \in DOMAIN log[w] : Turn(w, e)'
    BY <1>0, <1>1, <2>1, <2>2, <2>3 DEF Turn
  <2>6. RoundOf(w)'
    BY <1>0, <2>1, <2>5 DEF RoundOf
  <2> QED
    BY <1>0, <2>1, <2>2, <2>4, <2>6 DEF LogInv, d
<1>4. CASE Post(w)
  <2>1. PICK reply \in Replies(d) :
           /\ log' = [log EXCEPT ![w] = [log[w] EXCEPT ![d] = Append(log[w][d], reply)]]
           /\ call' = IF Retried(reply) /\ TriesLeft(call[w].try)
                      THEN [call EXCEPT ![w].pc = "backoff"]
                      ELSE [call EXCEPT ![w].pc = "returned", ![w].result = Result(reply)]
    BY <1>4 DEF Post, d
  <2> DEFINE posts == Append(log[w][d], reply)
  <2>2. reply \in AnyReply /\ call[w].pc = "post"
    BY <1>4 DEF Replies, AnyReply, Post
  <2>3. /\ posts \in Seq(AnyReply) /\ posts # <<>> /\ Len(posts) = call[w].try + 1
        /\ posts[Len(posts)] = reply /\ call[w].try \in {0, 1} /\ call[w].result = "none"
    BY <1>1, <2>2, OneMorePost DEF InProgress
  <2> HIDE DEF posts
  <2>4. CASE Retried(reply) /\ TriesLeft(call[w].try)
    <3>1. call' = [call EXCEPT ![w].pc = "backoff"]
      BY <2>1, <2>4
    <3>2. /\ call'[w].pc = "backoff" /\ call'[w].device = d /\ call'[w].try = call[w].try
          /\ call'[w].result = "none" /\ \A v \in Workers \ {w} : call'[v] = call[v]
      BY <1>0, <2>3, <3>1 DEF CallType, d
    <3>3. InProgress(call'[w], posts)
      BY <2>3, <2>4, <3>2 DEF InProgress, TriesLeft
    <3> QED
      BY <1>2, <2>1, <2>3, <3>2, <3>3 DEF posts, d
  <2>5. CASE ~(Retried(reply) /\ TriesLeft(call[w].try))
    <3> DEFINE r == Result(reply)
    <3>1. call' = [call EXCEPT ![w] = [[call[w] EXCEPT !.pc = "returned"] EXCEPT !.result = r]]
      BY <2>1, <2>5
    <3> HIDE DEF r
    <3>2. /\ call'[w].pc = "returned" /\ call'[w].device = d /\ call'[w].try = call[w].try
          /\ \A v \in Workers \ {w} : call'[v] = call[v]
      BY <1>0, <3>1 DEF CallType, d
    <3>3. Tried(posts)
      BY <2>3, <2>5 DEF Tried, TriesLeft
    <3>4. InProgress(call'[w], posts)
      BY <2>3, <3>2, <3>3 DEF InProgress
    <3> QED
      BY <1>2, <2>1, <2>3, <3>2, <3>4 DEF posts, d
  <2> QED
    BY <2>4, <2>5
<1> QED
  BY <1>3, <1>4

\* A Send begins, for a device that waited for its turn.
LEMMA CallSendKeepsRound ==
    ASSUME FanoutInv, LogInv, NEW w \in Workers, NEW d \in Devices, CallSend(w, d)
    PROVE  LogInv'
<1> DEFINE c == [pc |-> "post", device |-> d, try |-> 0, result |-> "none"]
<1>1. /\ call' = [call EXCEPT ![w] = c] /\ UNCHANGED <<inv, log>>
      /\ call[w].pc = "none" /\ inv[w].pc = "send" /\ d \in inv[w].todo
  BY DEF CallSend, BeginSend
<1>2. c.pc = "post" /\ c.device = d /\ c.try = 0 /\ c.result = "none"
  OBVIOUS
<1> HIDE DEF c
<1>3. call'[w] = c /\ \A v \in Workers \ {w} : call'[v] = call[v]
  BY <1>1 DEF FanoutInv, CallInv
<1>4. \A v \in Workers \ {w} : RoundOf(v)'
  BY <1>1, <1>3 DEF LogInv, RoundOf, Turn
<1>5. RoundOf(w)
  BY DEF LogInv
<1>6. log[w][d] = <<>>
  BY <1>1, <1>5 DEF RoundOf, Turn
<1>7. InProgress(c, log[w][d])
  BY <1>2, <1>6, EmptySeq DEF InProgress
<1>8. \A e \in DOMAIN log[w] : Turn(w, e)'
  BY <1>1, <1>2, <1>3, <1>5, <1>7 DEF RoundOf, Turn
<1>9. RoundOf(w)'
  BY <1>1, <1>5, <1>8 DEF RoundOf
<1> QED
  BY <1>1, <1>4, <1>9 DEF LogInv

\* A Send returns: its device had its turn.
LEMMA SendReturnsKeepsRound ==
    ASSUME FanoutInv, LogInv, NEW w \in Workers, SendReturns(w)
    PROVE  LogInv'
<1> DEFINE d == call[w].device
<1>0. inv \in [Workers -> Invocation] /\ inv[w] \in Invocation
  BY DEF FanoutInv, TypeInv, TypeOK, PagerType
<1>1. /\ inv[w].pc = "send" /\ d \in inv[w].todo /\ d \in DOMAIN log[w]
      /\ InProgress(call[w], log[w][d])
      /\ \A e \in DOMAIN log[w] \ {d} :
            IF e \notin inv[w].todo THEN Tried(log[w][e]) ELSE log[w][e] = <<>>
  BY SendAtHand DEF SendReturns
<1>2. Tried(log[w][d])
  BY <1>1 DEF SendReturns, InProgress
<1>3. /\ call' = [call EXCEPT ![w] = NoCall] /\ log' = log
      /\ inv' = IF call[w].result = "gone"
                THEN [inv EXCEPT ![w] = [[inv[w] EXCEPT !.pc = "prune"] EXCEPT !.gone = d]]
                ELSE [inv EXCEPT ![w] = [[inv[w] EXCEPT !.todo = inv[w].todo \ {d}]
                                            EXCEPT !.pc = AfterSend(w, d)]]
  BY DEF SendReturns
<1> HIDE DEF d
<1>4. call'[w].pc = "none" /\ \A v \in Workers \ {w} : call'[v] = call[v] /\ inv'[v] = inv[v]
  BY <1>0, <1>3 DEF FanoutInv, CallInv, NoCall
<1>5. \/ inv'[w].pc = "prune" /\ inv'[w].gone = d /\ inv'[w].todo = inv[w].todo
      \/ /\ inv'[w].pc = AfterSend(w, d) /\ inv'[w].todo = inv[w].todo \ {d}
  BY <1>0, <1>3 DEF Invocation
<1>6. \A v \in Workers \ {w} : RoundOf(v)'
  BY <1>3, <1>4 DEF LogInv, RoundOf, Turn
<1>7. RoundOf(w)
  BY DEF LogInv
<1>8. CASE inv'[w].pc = "prune" /\ inv'[w].gone = d /\ inv'[w].todo = inv[w].todo
  <2>1. \A e \in DOMAIN log[w] : Turn(w, e)'
    BY <1>1, <1>2, <1>3, <1>4, <1>8 DEF Turn
  <2> QED
    BY <1>1, <1>3, <1>6, <1>7, <1>8, <2>1 DEF LogInv, RoundOf, Round
<1>9. CASE inv'[w].pc = AfterSend(w, d) /\ inv'[w].todo = inv[w].todo \ {d}
  <2>1. inv'[w].pc \in {"record", "send"} /\ (inv'[w].pc = "record" => inv'[w].todo = {})
    BY <1>9 DEF AfterSend
  <2>2. \A e \in DOMAIN log[w] : Turn(w, e)'
    BY <1>1, <1>2, <1>3, <1>4, <1>9, <2>1 DEF Turn
  <2>3. RoundOf(w)'
    BY <1>3, <1>7, <1>9, <2>1, <2>2 DEF RoundOf, Round
  <2> QED
    BY <1>3, <1>6, <2>3, <1>7 DEF LogInv
<1> QED
  BY <1>5, <1>8, <1>9

\* LogInv is inductive, relative to FanoutInv.
LEMMA LogInvStep ==
    ASSUME FanoutInv, LogInv, [FanoutNext]_fanoutVars
    PROVE  LogInv'
<1>1. CASE CoreStep
  BY <1>1, CoreKeepsRound DEF LogInv, CoreStep
<1>2. ASSUME NEW w \in Workers, ClientStep(w)
      PROVE  LogInv'
  BY <1>2, ClientKeepsRound DEF ClientStep
<1>3. ASSUME NEW w \in Workers, DieSending(w)
      PROVE  LogInv'
  <2>1. inv \in [Workers -> Invocation] /\ DOMAIN log = Workers /\ DOMAIN call = Workers
    BY DEF FanoutInv, TypeInv, TypeOK, PagerType, CallInv, LogInv
  <2>2. inv'[w] = Idle /\ log'[w] = NoLog /\ DOMAIN log' = Workers
    BY <1>3, <2>1 DEF DieSending, Crash
  <2>3. \A v \in Workers \ {w} : inv'[v] = inv[v] /\ log'[v] = log[v] /\ call'[v] = call[v]
    BY <1>3, <2>1 DEF DieSending, Crash
  <2>4. RoundOf(w)'
    BY <2>2 DEF RoundOf, Idle, NoLog, Round
  <2>5. \A v \in Workers \ {w} : RoundOf(v)'
    BY <2>3 DEF LogInv, RoundOf, Turn
  <2> QED
    BY <2>2, <2>4, <2>5 DEF LogInv
<1>4. ASSUME NEW w \in Workers, SendReturns(w) \/ \E d \in Devices : CallSend(w, d)
      PROVE  LogInv'
  BY <1>4, SendReturnsKeepsRound, CallSendKeepsRound
<1>5. CASE UNCHANGED fanoutVars
  BY <1>5 DEF fanoutVars, clientVars, LogInv, RoundOf, Turn
<1> QED
  BY <1>1, <1>2, <1>3, <1>4, <1>5 DEF FanoutNext

\* What there is to know of a worker that is in no Send.
LEMMA NoCallIs == /\ NoCall \in Calls /\ NoCall.pc = "none"
                  /\ NoCall.device = None /\ NoCall.result = "none"
BY DEF NoCall, Calls

\* A worker that is in no Send has forgotten the last one.
Forgets == \A w \in Workers : call[w].pc = "none" => call[w] = NoCall

\* Forgets is inductive, relative to FanoutInv.
LEMMA ForgetsStep ==
    ASSUME FanoutInv, Forgets, [FanoutNext]_fanoutVars
    PROVE  Forgets'
<1>0. call \in [Workers -> CallType]
  BY DEF FanoutInv, CallInv
<1>1. ASSUME NEW w \in Workers, Backoff(w) \/ \E d \in Devices : BeginSend(w, d)
      PROVE  \A v \in Workers : call'[v].pc = "none" => call'[v] = call[v] /\ v # w
  BY <1>0, <1>1 DEF Backoff, BeginSend, CallType
<1>2. ASSUME NEW w \in Workers, Post(w)
      PROVE  \A v \in Workers : call'[v].pc = "none" => call'[v] = call[v] /\ v # w
  <2>1. \E r : \/ call' = [call EXCEPT ![w] = [call[w] EXCEPT !.pc = "backoff"]]
                \/ call' = [call EXCEPT ![w] = [[call[w] EXCEPT !.pc = "returned"]
                                                    EXCEPT !.result = r]]
    BY <1>2 DEF Post
  <2>2. CASE call' = [call EXCEPT ![w] = [call[w] EXCEPT !.pc = "backoff"]]
    BY <1>0, <2>2 DEF CallType
  <2>3. ASSUME NEW r, call' = [call EXCEPT ![w] = [[call[w] EXCEPT !.pc = "returned"]
                                                      EXCEPT !.result = r]]
        PROVE  \A v \in Workers : call'[v].pc = "none" => call'[v] = call[v] /\ v # w
    BY <1>0, <2>3 DEF CallType
  <2> QED
    BY <2>1, <2>2, <2>3
<1>3. ASSUME NEW w \in Workers, call' = [call EXCEPT ![w] = NoCall]
      PROVE  Forgets'
  BY <1>0, <1>3 DEF Forgets
<1>4. CASE CoreStep \/ UNCHANGED fanoutVars
  BY <1>4 DEF CoreStep, fanoutVars, clientVars, Forgets
<1> QED
  BY <1>1, <1>2, <1>3, <1>4 DEF FanoutNext, ClientStep, CallSend, SendReturns, DieSending, Forgets

\* FanoutInv, LogInv and Forgets hold of every reachable state.
THEOREM LogInvHolds ==
    ASSUME "send" \in Faults
    PROVE  FanoutSpec => [](FanoutInv /\ LogInv /\ Forgets)
<1>1. FanoutInit => FanoutInv /\ LogInv /\ Forgets
  BY FanoutInvInit, LogInvInit DEF FanoutInit, ClientInit, Forgets
<1>2. FanoutInv /\ LogInv /\ Forgets /\ [FanoutNext]_fanoutVars =>
         (FanoutInv /\ LogInv /\ Forgets)'
  BY FanoutInvStep, LogInvStep, ForgetsStep
<1> QED
  BY <1>1, <1>2, PTL DEF FanoutSpec

\* A worker is in a Send only where the loop calls it, for a device of its round, and
\* posts to no device more than twice in a round (CallsTypeOK, fcm.go:98-139).
THEOREM CallsTypeCorrect ==
    ASSUME "send" \in Faults
    PROVE  FanoutSpec => []CallsTypeOK
<1>1. ASSUME FanoutInv, LogInv, Forgets
      PROVE  CallsTypeOK
  <2>1. ASSUME NEW w \in Workers
        PROVE  /\ call[w] \in Calls
               /\ call[w].pc # "none" => inv[w].pc = "send" /\ call[w].device \in inv[w].todo
    <3>1. call[w] \in CallType /\ (call[w] = NoCall \/ call[w].pc # "none")
      BY <1>1 DEF FanoutInv, CallInv, Forgets
    <3>2. CASE call[w].pc # "none"
      <4>1. call[w].try \in {0, 1} /\ inv[w].pc = "send" /\ call[w].device \in inv[w].todo
        BY <1>1, <3>2, SendAtHand DEF InProgress
      <4> QED
        BY <3>1, <4>1 DEF CallType, Calls
    <3>3. CASE call[w] = NoCall
      BY <3>3, NoCallIs
    <3> QED
      BY <3>1, <3>2, <3>3
  <2>2. ASSUME NEW w \in Workers, NEW d \in DOMAIN log[w]
        PROVE  Len(log[w][d]) <= 2
    <3>1. RoundOf(w)
      BY <1>1 DEF LogInv
    <3>2. Turn(w, d)
      BY <3>1 DEF RoundOf
    <3>3. \/ Tried(log[w][d]) \/ log[w][d] = <<>>
          \/ call[w].pc \in {"post", "backoff", "returned"} /\ InProgress(call[w], log[w][d])
      BY <1>1, <3>2 DEF Turn, FanoutInv, CallInv, CallType
    <3>4. CASE log[w][d] = <<>>
      <4>1. Len(log[w][d]) = 0
        BY <3>4, EmptySeq
      <4> QED
        BY <4>1
    <3>5. CASE call[w].pc \in {"post", "backoff", "returned"} /\ InProgress(call[w], log[w][d])
      <4>1. CASE call[w].pc = "returned"
        BY <3>5, <4>1 DEF InProgress, Tried
      <4>2. CASE call[w].pc \in {"post", "backoff"}
        <5>1. Len(log[w][d]) = 0 \/ Len(log[w][d]) = 1
          BY <3>5, <4>2 DEF InProgress
        <5>2. \A n : n = 0 \/ n = 1 => n <= 2
          OBVIOUS
        <5> QED
          BY <5>1, <5>2, Zenon
      <4> QED
        BY <3>5, <4>1, <4>2
    <3> QED
      BY <3>3, <3>4, <3>5 DEF Tried
  <2>3. \A w \in Workers : inv[w].todo \subseteq DOMAIN log[w]
    BY <1>1 DEF LogInv, RoundOf
  <2>4. call \in [Workers -> Calls]
    BY <1>1, <2>1 DEF FanoutInv, CallInv
  <2> QED
    BY <2>1, <2>2, <2>3, <2>4 DEF CallsTypeOK
<1> QED
  BY <1>1, LogInvHolds, PTL

\* When an attempt is about to be recorded, every device of its round has had its turn:
\* FCM answered, or was asked twice in vain (RecordedMeansTried, main.go:168-187).
THEOREM RecordedMeansTriedHolds ==
    ASSUME "send" \in Faults
    PROVE  FanoutSpec => []RecordedMeansTried
<1>1. FanoutInv /\ LogInv => RecordedMeansTried
  BY DEF LogInv, RoundOf, Turn, Tried, RecordedMeansTried
<1> QED
  BY <1>1, LogInvHolds, PTL

------------------------------------------------------------------------------
(* The client implements the contract of a sender *)

\* The variables of the contract, under the mapping of FanoutProps.
Tokens  == [w \in Workers |-> call[w].device]
Results == [w \in Workers |-> call[w].result]
Heard   == [w \in Workers |-> AcceptedPosts(w, call[w].device)]

AcceptedIn(posts) == {i \in DOMAIN posts : Accepted(posts[i])}

\* A post more is an accepted one more, or not.
LEMMA AcceptedAppend ==
    ASSUME NEW posts \in Seq(AnyReply), NEW reply \in AnyReply
    PROVE  /\ Cardinality(AcceptedIn(posts)) \in 0..Len(posts)
           /\ Cardinality(AcceptedIn(Append(posts, reply))) =
                 Cardinality(AcceptedIn(posts)) + IF Accepted(reply) THEN 1 ELSE 0
<1> DEFINE n == Len(posts)
           more == Append(posts, reply)
<1>1. n \in Nat /\ DOMAIN posts = 1..n
  BY LenProperties
<1>2. /\ more \in Seq(AnyReply) /\ Len(more) = n + 1 /\ more[n + 1] = reply
      /\ \A i \in 1..n : more[i] = posts[i]
  BY OneMorePost
<1>3. DOMAIN more = 1..(n + 1)
  BY <1>2, LenProperties
<1> HIDE DEF n, more
<1>4. IsFiniteSet(1..n) /\ Cardinality(1..n) = n
  <2>1. 1 \in Int /\ n \in Int
    BY <1>1
  <2>2. IsFiniteSet(1..n) /\ Cardinality(1..n) = IF 1 > n THEN 0 ELSE n - 1 + 1
    BY <2>1, FS_Interval
  <2> QED
    BY <1>1, <2>2
<1>5. AcceptedIn(posts) \in SUBSET (1..n)
  BY <1>1 DEF AcceptedIn
<1>6. /\ IsFiniteSet(AcceptedIn(posts)) /\ Cardinality(AcceptedIn(posts)) <= n
      /\ Cardinality(AcceptedIn(posts)) \in Nat
  BY <1>4, <1>5, FS_Subset, FS_CardinalityType
<1>7. n + 1 \notin AcceptedIn(posts)
  BY <1>1, <1>5
<1>8. AcceptedIn(more) = IF Accepted(reply) THEN AcceptedIn(posts) \cup {n + 1}
                         ELSE AcceptedIn(posts)
  BY <1>1, <1>2, <1>3 DEF AcceptedIn
<1>9. Cardinality(AcceptedIn(posts) \cup {n + 1}) = Cardinality(AcceptedIn(posts)) + 1
  BY <1>6, <1>7, FS_AddElement
<1> QED
  BY <1>1, <1>6, <1>8, <1>9 DEF more, n

\* Nobody alerts for a worker that is in no Send.
LEMMA SilentIfNoCall ==
    ASSUME LogInv, NEW w \in Workers, call[w] = NoCall
    PROVE  AcceptedPosts(w, call[w].device) = 0
<1>1. None \notin DOMAIN log[w]
  BY PagerAssumption DEF LogInv, RoundOf
<1> QED
  BY <1>1, NoCallIs DEF AcceptedPosts

\* A step of one worker's Send moves one element of each mapped variable.
LEMMA OneSend ==
    ASSUME NEW w \in Workers,
           \A v \in Workers \ {w} : call'[v] = call[v] /\ log'[v] = log[v]
    PROVE  /\ Tokens' = [Tokens EXCEPT ![w] = call'[w].device]
           /\ Results' = [Results EXCEPT ![w] = call'[w].result]
           /\ Heard' = [Heard EXCEPT ![w] = AcceptedPosts(w, call[w].device)']
BY DEF Tokens, Results, Heard, AcceptedPosts

\* The core moves no Send, and tokens die one by one.
LEMMA CoreStepOfSender ==
    ASSUME FanoutInv, LogInv, LogInv', Forgets, CoreStep
    PROVE  [Sender!Next]_(Sender!vars)
<1>1. UNCHANGED <<Tokens, Results>>
  BY DEF CoreStep, Tokens, Results
<1>2. ASSUME NEW w \in Workers
      PROVE  AcceptedPosts(w, call[w].device)' = AcceptedPosts(w, call[w].device)
  <2>1. CASE inv[w].pc = "send"
    <3>1. log'[w] = log[w] /\ call' = call
      BY <2>1 DEF CoreStep, RoundBegins, Round
    <3> QED
      BY <3>1 DEF AcceptedPosts
  <2>2. CASE inv[w].pc # "send"
    <3>1. call[w] = NoCall /\ call' = call
      BY <2>2 DEF CoreStep, Forgets, FanoutInv, CallInv, InRound
    <3>2. AcceptedPosts(w, call[w].device) = 0
      BY <3>1, SilentIfNoCall
    <3>3. None \notin DOMAIN log'[w]
      BY PagerAssumption DEF LogInv, RoundOf
    <3>4. AcceptedPosts(w, call[w].device)' = 0
      BY <3>1, <3>3, NoCallIs DEF AcceptedPosts
    <3> QED
      BY <3>2, <3>4
  <2> QED
    BY <2>1, <2>2
<1>3. UNCHANGED Heard
  BY <1>2 DEF Heard
<1>4. valid' = valid \/ \E d \in Devices : valid' = valid \ {d}
  <2>1. ASSUME NEW w \in Workers, Receive(w) \/ PagerStep(w) \/ Fail(w) \/ Crash(w)
        PROVE  UNCHANGED valid
    BY <2>1 DEF Receive, Fail, Crash, PagerStep, NextRecord, EndBatch, HandleRecord, LoadDrop,
       LoadExpired, LoadDue, Expire, ExpiredEvent, ListDevices, NoDevices, GetSender,
       GetSenderFails, Send, SendGone, Prune, RecordWins, RecordConflict, AttemptEvent,
       EnqueueNext, EnqueueFinal, Exhausted
  <2>2. ASSUME NEW d \in Devices, RegisterDevice(d) \/ TokenDies(d)
        PROVE  valid' = valid \/ valid' = valid \ {d}
    BY <2>2 DEF RegisterDevice, TokenDies
  <2> QED
    BY <2>1, <2>2 DEF CoreStep, Next, PagerNext, Tick, Rest
<1> QED
  BY <1>1, <1>3, <1>4
  DEF Sender!Next, Sender!vars, Sender!Unregister, Tokens, Results, Heard

\* A post is a step of the contract.
LEMMA PostOfSender ==
    ASSUME FanoutInv, LogInv, NEW w \in Workers, Post(w), UNCHANGED vars
    PROVE  Sender!Proceed(w)
<1> DEFINE d == call[w].device
           s == log[w][d]
<1>0. /\ call \in [Workers -> CallType] /\ DOMAIN log = Workers /\ call[w].pc = "post"
      /\ DOMAIN log[w] \subseteq Devices
  BY DEF FanoutInv, CallInv, LogInv, RoundOf, Post
<1>1. /\ d \in Devices /\ d \in DOMAIN log[w] /\ s \in Seq(AnyReply)
      /\ Len(s) = call[w].try /\ call[w].try \in {0, 1} /\ call[w].result = "none"
  BY <1>0, SendAtHand DEF InProgress
<1>2. PICK reply \in Replies(d) :
         /\ log' = [log EXCEPT ![w] = [log[w] EXCEPT ![d] = Append(s, reply)]]
         /\ call' = IF Retried(reply) /\ TriesLeft(call[w].try)
                    THEN [call EXCEPT ![w].pc = "backoff"]
                    ELSE [call EXCEPT ![w].pc = "returned", ![w].result = Result(reply)]
  BY DEF Post
<1> HIDE DEF d, s
<1> DEFINE h == IF Accepted(reply) THEN 1 ELSE 0
           r == call'[w].result
<1>3. reply \in AnyReply
  BY <1>2 DEF Replies, AnyReply
<1>4. /\ call'[w].device = d /\ \A v \in Workers \ {w} : call'[v] = call[v]
      /\ r = "none" \/ r = Result(reply)
  <2>1. CASE call' = [call EXCEPT ![w] = [call[w] EXCEPT !.pc = "backoff"]]
    BY <1>0, <1>1, <2>1 DEF CallType, d
  <2>2. ASSUME NEW x, x = Result(reply),
               call' = [call EXCEPT ![w] = [[call[w] EXCEPT !.pc = "returned"] EXCEPT !.result = x]]
        PROVE  /\ call'[w].device = d /\ \A v \in Workers \ {w} : call'[v] = call[v]
               /\ r = Result(reply)
    BY <1>0, <2>2 DEF CallType, d
  <2> QED
    BY <1>2, <2>1, <2>2
<1>5. /\ log'[w][d] = Append(s, reply) /\ d \in DOMAIN log'[w]
      /\ \A v \in Workers \ {w} : log'[v] = log[v]
  BY <1>0, <1>1, <1>2
<1>6. /\ Cardinality(AcceptedIn(s)) \in 0..Len(s)
      /\ Cardinality(AcceptedIn(Append(s, reply))) = Cardinality(AcceptedIn(s)) + h
  BY <1>1, <1>3, AcceptedAppend
<1>7. AcceptedPosts(w, d) = Cardinality(AcceptedIn(s))
  BY <1>1 DEF AcceptedPosts, AcceptedIn, s
<1>8. AcceptedPosts(w, call[w].device)' = Cardinality(AcceptedIn(s)) + h
  BY <1>4, <1>5, <1>6 DEF AcceptedPosts, AcceptedIn
<1> DEFINE k == Cardinality(AcceptedIn(s))
<1>9. k \in {0, 1} /\ h \in {0, 1}
  BY <1>1, <1>6
<1>10. /\ Tokens[w] = d /\ Results[w] = "none" /\ Heard[w] = k
       /\ Tokens' = [Tokens EXCEPT ![w] = d] /\ Results' = [Results EXCEPT ![w] = r]
       /\ Heard' = [Heard EXCEPT ![w] = k + h]
  BY <1>1, <1>4, <1>5, <1>7, <1>8, OneSend DEF Tokens, Results, Heard, d
<1>11. /\ h = 1 => d \in valid
       /\ r \in {"none", "sent", "gone", "failed"}
       /\ r = "sent" => h = 1
       /\ r = "gone" => d \notin valid
  BY <1>2, <1>4 DEF Accepted, Result, Replies
<1> HIDE DEF h, r, k
<1>12. k + h <= 2 /\ (h = 1 => k + h > 0)
  BY <1>9
<1>13. UNCHANGED <<Tokens, valid>>
  BY <1>10 DEF Tokens
<1>14. d # None /\ Heard'[w] = k + h
  BY <1>1, <1>10, PagerAssumption DEF Heard
<1>15. /\ \E x \in {0, 1} :
             /\ x = 1 => Tokens[w] \in valid
             /\ Heard[w] + x <= 2
             /\ Heard' = [Heard EXCEPT ![w] = Heard[w] + x]
       /\ \E x \in {"none", "sent", "gone", "failed"} :
             /\ x = "sent" => Heard'[w] > 0
             /\ x = "gone" => Tokens[w] \notin valid
             /\ Results' = [Results EXCEPT ![w] = x]
  BY <1>9, <1>10, <1>11, <1>12, <1>14
<1> QED
  BY <1>10, <1>13, <1>14, <1>15 DEF Sender!Proceed, Tokens, Results, Heard

\* A Send begins, pauses, and ends in its caller's hands.
LEMMA CallOfSender ==
    ASSUME FanoutInv, LogInv, LogInv', Forgets, NEW w \in Workers
    PROVE  /\ \A d \in Devices : CallSend(w, d) => Sender!Begin(w, d)
           /\ Backoff(w) /\ UNCHANGED vars => UNCHANGED Sender!vars
           /\ SendReturns(w) \/ DieSending(w) => Sender!End(w)
<1>0. call \in [Workers -> CallType] /\ DOMAIN log = Workers
  BY DEF FanoutInv, CallInv, LogInv
<1>1. ASSUME NEW d \in Devices, CallSend(w, d)
      PROVE  Sender!Begin(w, d)
  <2> DEFINE c == [pc |-> "post", device |-> d, try |-> 0, result |-> "none"]
  <2>1. /\ call' = [call EXCEPT ![w] = c] /\ UNCHANGED <<inv, log, valid>>
        /\ call[w].pc = "none" /\ inv[w].pc = "send" /\ d \in inv[w].todo
    BY <1>1 DEF CallSend, BeginSend
  <2>2. c.device = d /\ c.result = "none"
    OBVIOUS
  <2> HIDE DEF c
  <2>3. call'[w] = c /\ \A v \in Workers \ {w} : call'[v] = call[v] /\ log'[v] = log[v]
    BY <1>0, <2>1
  <2>4. call[w] = NoCall
    BY <2>1 DEF Forgets
  <2>5. Tokens[w] = None /\ Results[w] = "none" /\ Heard[w] = 0
    BY <2>4, NoCallIs, SilentIfNoCall DEF Tokens, Results, Heard
  <2>6. AcceptedPosts(w, call[w].device)' = 0
    <3>1. RoundOf(w)
      BY DEF LogInv
    <3>2. log'[w][d] = <<>>
      BY <2>1, <3>1 DEF RoundOf, Turn
    <3>3. AcceptedIn(<<>>) = {}
      BY DEF AcceptedIn
    <3>4. AcceptedPosts(w, d)' = IF d \in DOMAIN log'[w] THEN Cardinality(AcceptedIn(log'[w][d])) ELSE 0
      BY DEF AcceptedPosts, AcceptedIn
    <3>5. AcceptedPosts(w, d)' = 0
      BY <3>2, <3>3, <3>4, FS_EmptySet
    <3> QED
      BY <2>2, <2>3, <3>5 DEF AcceptedPosts
  <2>7. /\ Tokens' = [Tokens EXCEPT ![w] = d]
        /\ Results' = [Results EXCEPT ![w] = "none"] /\ Heard' = [Heard EXCEPT ![w] = 0]
    BY <2>2, <2>3, <2>6, OneSend
  <2>8. UNCHANGED <<Results, Heard>>
    BY <2>5, <2>7 DEF Results, Heard
  <2> QED
    BY <2>1, <2>5, <2>7, <2>8 DEF Sender!Begin, Tokens, Results, Heard
<1>2. ASSUME Backoff(w), UNCHANGED vars
      PROVE  UNCHANGED Sender!vars
  <2> DEFINE n == call[w].try + 1
  <2>1. /\ call' = [call EXCEPT ![w] = [[call[w] EXCEPT !.pc = "post"] EXCEPT !.try = n]]
        /\ log' = log
    BY <1>2 DEF Backoff
  <2> HIDE DEF n
  <2>2. \A v \in Workers : call'[v].device = call[v].device /\ call'[v].result = call[v].result
    BY <1>0, <2>1 DEF CallType
  <2> QED
    BY <1>2, <2>1, <2>2 DEF Sender!vars, AcceptedPosts
<1>3. ASSUME SendReturns(w) \/ DieSending(w)
      PROVE  Sender!End(w)
  <2>1. /\ call' = [call EXCEPT ![w] = NoCall] /\ UNCHANGED valid
        /\ \A v \in Workers \ {w} : log'[v] = log[v]
    BY <1>0, <1>3 DEF SendReturns, DieSending, Crash
  <2>2. call'[w] = NoCall /\ \A v \in Workers \ {w} : call'[v] = call[v]
    BY <1>0, <2>1
  <2>3. None \notin DOMAIN log'[w]
    BY PagerAssumption DEF LogInv, RoundOf
  <2>4. AcceptedPosts(w, call[w].device)' = 0
    BY <2>2, <2>3, NoCallIs DEF AcceptedPosts
  <2>5. /\ Tokens' = [Tokens EXCEPT ![w] = None]
        /\ Results' = [Results EXCEPT ![w] = "none"] /\ Heard' = [Heard EXCEPT ![w] = 0]
    BY <2>1, <2>2, <2>4, NoCallIs, OneSend
  <2> QED
    BY <2>1, <2>5 DEF Sender!End, Tokens, Results, Heard
<1> QED
  BY <1>1, <1>2, <1>3

\* The FCM client implements the contract of push.Sender (ImplementsSender): nil means
\* that FCM took the push, ErrTokenGone that the token is dead, and in no case does a
\* phone alert more than twice for one Send.
THEOREM FcmImplementsSender ==
    ASSUME "send" \in Faults
    PROVE  FanoutSpec => ImplementsSender
<1>1. FanoutInit => Sender!Init
  BY PagerAssumption
  DEF FanoutInit, ClientInit, Init, PagerInit, NoCall, NoLog, Sender!Init, AcceptedPosts
<1>2. FanoutInv /\ LogInv /\ LogInv' /\ Forgets /\ [FanoutNext]_fanoutVars =>
         [Sender!Next]_(Sender!vars)
  <2> SUFFICES ASSUME FanoutInv, LogInv, LogInv', Forgets, [FanoutNext]_fanoutVars
               PROVE  [Sender!Next]_(Sender!vars)
    OBVIOUS
  <2>1. CASE CoreStep
    BY <2>1, CoreStepOfSender
  <2>2. ASSUME NEW w \in Workers, Post(w), UNCHANGED vars
        PROVE  Sender!Next
    BY <2>2, PostOfSender DEF Sender!Next
  <2>3. ASSUME NEW w \in Workers, Backoff(w), UNCHANGED vars
        PROVE  UNCHANGED Sender!vars
    BY <2>3, CallOfSender
  <2>4. ASSUME NEW w \in Workers, SendReturns(w) \/ DieSending(w)
        PROVE  Sender!Next
    BY <2>4, CallOfSender DEF Sender!Next
  <2>5. ASSUME NEW w \in Workers, NEW d \in Devices, CallSend(w, d)
        PROVE  Sender!Next
    BY <2>5, CallOfSender DEF Sender!Next
  <2>6. CASE UNCHANGED fanoutVars
    BY <2>6 DEF fanoutVars, clientVars, Sender!vars, AcceptedPosts
  <2> QED
    BY <2>1, <2>2, <2>3, <2>4, <2>5, <2>6 DEF FanoutNext, ClientStep
<1> QED
  BY <1>1, <1>2, LogInvHolds, PTL DEF FanoutSpec, ImplementsSender, Sender!Spec

==============================================================================
