-------------------------------- MODULE Pager --------------------------------
(* The pager lambda, backend/cmd/pager/main.go: execution environments        *)
(* (Workers) that take batches of PageTasks from the nag queue and drive the  *)
(* pages through their attempts.  handleRecord is cut at every call it makes: *)
(* pc names the call an invocation is about to make, so that invocations, API *)
(* requests and the clock interleave between any two of them.                 *)
EXTENDS PageTable, NagQueue

CONSTANTS
    Workers,    \* execution environments of the lambda
    BatchSize,  \* batchSize of the event source
    Devices,    \* push tokens the recipient may register
    Crashes,    \* the pcs at which an invocation may die (crash, timeout)
    MaxEarly    \* bound on attempts a truncated final delay adds to the schedule

ASSUME PagerAssumption ==
    /\ BatchSize \in Nat \ {0}
    /\ MaxEarly \in Nat
    /\ None \notin MsgIds \cup Devices

VARIABLES
    inv,      \* the invocation each worker runs
    sender,   \* handler.sender / senderErr behind senderOnce
    devices,  \* the recipient's device items
    valid     \* tokens FCM still accepts

pagerVars == <<inv, sender, devices, valid>>

\* An invocation: the batch is rest (not started), msg (the record at hand), ok and
\* failed; the other fields are the locals of handleRecord for that record.
Idle == [pc |-> "idle", rest |-> {}, msg |-> None, ok |-> {}, failed |-> {},
         attempt |-> -1, left |-> 0, trial |-> 1, todo |-> {}, gone |-> None]

PagerInit ==
    /\ inv = [w \in Workers |-> Idle]
    /\ sender = [w \in Workers |-> "unset"]
    /\ devices = {}
    /\ valid = Devices

\* task.PageID and task.Attempt of the record worker w handles
PageOf(w)    == queue[inv[w].msg].page
AttemptOf(w) == queue[inv[w].msg].attempt

Goto(w, pc) == inv' = [inv EXCEPT ![w].pc = pc]

\* handleRecord returned: nil, or an error that makes a BatchItemFailure.
Between(w) == [Idle EXCEPT !.pc = "next", !.rest = inv[w].rest,
                           !.ok = inv[w].ok, !.failed = inv[w].failed]

ReturnNil(w)   == inv' = [inv EXCEPT ![w] = [Between(w) EXCEPT !.ok = @ \cup {inv[w].msg}]]
\* Mutant: the error is logged and not reported to SQS.
SwallowError(w) == inv' = [inv EXCEPT ![w] = [Between(w) EXCEPT !.ok = @ \cup {inv[w].msg}]]

ReturnError(w) == inv' = [inv EXCEPT ![w] = [Between(w) EXCEPT !.failed = @ \cup {inv[w].msg}]]

------------------------------------------------------------------------------
(* handleBatch *)

Receive(w) ==
    /\ inv[w].pc = "idle"
    /\ \E batch \in SUBSET Visible :
          /\ batch # {}
          /\ Cardinality(batch) <= BatchSize
          /\ Take(batch)
          /\ inv' = [inv EXCEPT ![w] = [Idle EXCEPT !.pc = "next", !.rest = batch]]
    /\ UNCHANGED <<tableVars, sender, devices, valid>>

NextRecord(w) ==
    /\ inv[w].pc = "next"
    /\ \E m \in inv[w].rest :
          inv' = [inv EXCEPT ![w].pc = "load", ![w].msg = m, ![w].rest = @ \ {m}]
    /\ UNCHANGED <<tableVars, queueVars, sender, devices, valid>>

\* The response of handleBatch: SQS deletes the batch but for the reported items.
EndBatch(w) ==
    /\ inv[w].pc = "next"
    /\ inv[w].rest = {}
    /\ Settle(inv[w].ok, inv[w].failed)
    /\ inv' = [inv EXCEPT ![w] = Idle]
    /\ UNCHANGED <<tableVars, sender, devices, valid>>

\* Everything a dying invocation has taken returns to the queue, and the next one
\* of the worker is a cold start.
HeldBy(w) == inv[w].rest \cup inv[w].ok \cup inv[w].failed \cup ({inv[w].msg} \ {None})

Crash(w) ==
    /\ inv[w].pc \in Crashes
    /\ Settle({}, HeldBy(w))
    /\ inv' = [inv EXCEPT ![w] = Idle]
    /\ sender' = [sender EXCEPT ![w] = "unset"]
    /\ UNCHANGED <<tableVars, devices, valid>>

------------------------------------------------------------------------------
(* handleRecord, from the load of the page to the first push *)

\* A store, queue or credential call returns an error without having had an effect,
\* and handleRecord returns it.
Fail(w) ==
    /\ inv[w].pc \in Faults \cap {"load", "expire", "list", "record", "enqueue"}
    /\ ReturnError(w)
    /\ UNCHANGED <<tableVars, queueVars, sender, devices, valid>>

\* Mutants: > in place of >=, and no guard at all.
RanBeyond(page, n) == page.attempt > n
NeverRan(page, n) == FALSE

\* The idempotency guard: the attempt was recorded already.
AlreadyRan(page, n) == page.attempt >= n

\* Mutant: the check of the state is missing.
NeedsNagIfFound(p, copy) == p \in DOMAIN copy

\* The page was found and is active: otherwise the task is dropped.
NeedsNag(p, copy) == p \in DOMAIN copy /\ Active(copy[p].state)

\* Mutant: a task that comes after the deadline is dropped with the rest.
LoadDropLate(w) ==
    /\ inv[w].pc = "load"
    /\ \E copy \in Copies :
          NeedsNag(PageOf(w), copy) =>
             After(left[PageOf(w)]) \/ AlreadyRan(copy[PageOf(w)], AttemptOf(w))
    /\ ReturnNil(w)
    /\ UNCHANGED <<tableVars, queueVars, sender, devices, valid>>

LoadDrop(w) ==
    /\ inv[w].pc = "load"
    /\ \E copy \in Copies :
          NeedsNag(PageOf(w), copy) =>
             ~After(left[PageOf(w)]) /\ AlreadyRan(copy[PageOf(w)], AttemptOf(w))
    /\ ReturnNil(w)
    /\ UNCHANGED <<tableVars, queueVars, sender, devices, valid>>

LoadExpired(w) ==
    /\ inv[w].pc = "load"
    /\ \E copy \in Copies :
          /\ NeedsNag(PageOf(w), copy)
          /\ After(left[PageOf(w)])
          /\ inv' = [inv EXCEPT ![w].pc = "expire", ![w].attempt = copy[PageOf(w)].attempt]
    /\ UNCHANGED <<tableVars, queueVars, sender, devices, valid>>

LoadDue(w) ==
    /\ inv[w].pc = "load"
    /\ \E copy \in Copies :
          /\ NeedsNag(PageOf(w), copy)
          /\ ~After(left[PageOf(w)])
          /\ ~AlreadyRan(copy[PageOf(w)], AttemptOf(w))
    /\ inv' = [inv EXCEPT ![w].pc = "list", ![w].left = left[PageOf(w)]]
    /\ UNCHANGED <<tableVars, queueVars, sender, devices, valid>>

\* A conflict of this update is ignored: the page was settled meanwhile.
Expire(w) ==
    /\ inv[w].pc = "expire"
    /\ IF StateIn(PageOf(w), ActiveStates)
       THEN SetPageState(PageOf(w), "expired", inv[w].attempt)
       ELSE UNCHANGED pages
    /\ Goto(w, "expiredEvent")
    /\ UNCHANGED <<idem, events, replica, left, queueVars, sender, devices, valid>>

ExpiredEvent(w) ==
    /\ inv[w].pc = "expiredEvent"
    /\ AppendEvent(PageOf(w), "expired")
    /\ ReturnNil(w)
    /\ UNCHANGED <<pages, idem, replica, left, queueVars, sender, devices, valid>>

ListDevices(w) ==
    /\ inv[w].pc = "list"
    /\ inv' = [inv EXCEPT ![w].todo = devices,
                          ![w].pc = IF devices = {} THEN "noDevices" ELSE "sender"]
    /\ UNCHANGED <<tableVars, queueVars, sender, devices, valid>>

NoDevices(w) ==
    /\ inv[w].pc = "noDevices"
    /\ AppendEvent(PageOf(w), "no_devices")
    /\ Goto(w, "record")
    /\ UNCHANGED <<pages, idem, replica, left, queueVars, sender, devices, valid>>

\* getSender: senderOnce runs the initialisation once in the life of the worker and
\* keeps its outcome, error included.
GetSender(w) ==
    /\ inv[w].pc = "sender"
    /\ sender[w] # "failed"
    /\ sender' = [sender EXCEPT ![w] = "ready"]
    /\ Goto(w, "send")
    /\ UNCHANGED <<tableVars, queueVars, devices, valid>>

GetSenderFails(w) ==
    /\ inv[w].pc = "sender"
    /\ sender[w] = "failed" \/ (sender[w] = "unset" /\ "sender" \in Faults)
    /\ sender' = [sender EXCEPT ![w] = "failed"]
    /\ ReturnError(w)
    /\ UNCHANGED <<tableVars, queueVars, devices, valid>>

------------------------------------------------------------------------------
(* handleRecord, from the pushes to the next attempt *)

AfterSend(w, d) == IF inv[w].todo = {d} THEN "record" ELSE "send"

\* Sent, or failed in a way that is only logged: the next attempt is the retry.
Send(w, d) ==
    /\ inv[w].pc = "send"
    /\ d \in inv[w].todo
    /\ d \in valid \/ "send" \in Faults
    /\ inv' = [inv EXCEPT ![w].todo = @ \ {d}, ![w].pc = AfterSend(w, d)]
    /\ UNCHANGED <<tableVars, queueVars, sender, devices, valid>>

\* Mutant: every failed push prunes the device.
PruneOnError(w, d) ==
    /\ inv[w].pc = "send"
    /\ d \in inv[w].todo
    /\ d \notin valid \/ "send" \in Faults
    /\ inv' = [inv EXCEPT ![w].pc = "prune", ![w].gone = d]
    /\ UNCHANGED <<tableVars, queueVars, sender, devices, valid>>

\* push.ErrTokenGone
SendGone(w, d) ==
    /\ inv[w].pc = "send"
    /\ d \in inv[w].todo
    /\ d \notin valid
    /\ inv' = [inv EXCEPT ![w].pc = "prune", ![w].gone = d]
    /\ UNCHANGED <<tableVars, queueVars, sender, devices, valid>>

\* DeleteDevice; its failure is only logged.
Prune(w) ==
    /\ inv[w].pc = "prune"
    /\ devices' = devices \ {inv[w].gone} \/ ("prune" \in Faults /\ UNCHANGED devices)
    /\ inv' = [inv EXCEPT ![w].todo = @ \ {inv[w].gone}, ![w].gone = None,
                          ![w].pc = AfterSend(w, inv[w].gone)]
    /\ UNCHANGED <<tableVars, queueVars, sender, valid>>

\* recordAttempt: three conditional updates, tried in turn.
\* Mutant: delivered pages are left out.
TransitionsWithoutDelivered == << [from |-> {"created", "pushed"}, to |-> "pushed"],
                                  [from |-> {"seen"},              to |-> "seen"] >>

RecordTransitions == << [from |-> {"created", "pushed"}, to |-> "pushed"],
                        [from |-> {"delivered"},         to |-> "delivered"],
                        [from |-> {"seen"},              to |-> "seen"] >>

Transition(w) == RecordTransitions[inv[w].trial]

RecordWins(w) ==
    /\ inv[w].pc = "record"
    /\ StateIn(PageOf(w), Transition(w).from)
    /\ SetPageState(PageOf(w), Transition(w).to, AttemptOf(w))
    /\ Goto(w, "attemptEvent")
    /\ UNCHANGED <<idem, events, replica, left, queueVars, sender, devices, valid>>

\* Losing the last condition is taken for a page that was settled meanwhile.
RecordConflict(w) ==
    /\ inv[w].pc = "record"
    /\ ~StateIn(PageOf(w), Transition(w).from)
    /\ IF inv[w].trial < Len(RecordTransitions)
       THEN inv' = [inv EXCEPT ![w].trial = @ + 1]
       ELSE Goto(w, "attemptEvent")
    /\ UNCHANGED <<tableVars, queueVars, sender, devices, valid>>

AttemptEvent(w) ==
    /\ inv[w].pc = "attemptEvent"
    /\ AppendEvent(PageOf(w), "push_attempt")
    /\ Goto(w, "enqueue")
    /\ UNCHANGED <<pages, idem, replica, left, queueVars, sender, devices, valid>>

\* The delay of the final tick: what remained at `now`, capped.  A remainder that is
\* no whole number of ticks is truncated by Enqueue; MaxEarly bounds how often.
FinalDelays(w) ==
    LET remaining == inv[w].left
        capped    == IF remaining > MaxFinalDelay THEN MaxFinalDelay ELSE remaining
        truncated == IF AttemptOf(w) < Len(Delays) + MaxEarly THEN {remaining - 1} ELSE {}
    IN  {capped} \cup IF remaining > MaxFinalDelay THEN {} ELSE truncated

EnqueueNext(w) ==
    /\ inv[w].pc = "enqueue"
    /\ HasDelay(AttemptOf(w) + 1)
    /\ Enqueue(PageOf(w), AttemptOf(w) + 1, NextDelay(AttemptOf(w) + 1))
    /\ ReturnNil(w)
    /\ UNCHANGED <<tableVars, sender, devices, valid>>

EnqueueFinal(w) ==
    /\ inv[w].pc = "enqueue"
    /\ ~HasDelay(AttemptOf(w) + 1)
    /\ Before(inv[w].left)
    /\ \E delay \in FinalDelays(w) : Enqueue(PageOf(w), AttemptOf(w) + 1, delay)
    /\ ReturnNil(w)
    /\ UNCHANGED <<tableVars, sender, devices, valid>>

\* Mutant: no final tick is sent before the deadline.
ExhaustedEarly(w) ==
    /\ inv[w].pc = "enqueue"
    /\ ~HasDelay(AttemptOf(w) + 1)
    /\ ReturnNil(w)
    /\ UNCHANGED <<tableVars, queueVars, sender, devices, valid>>

Exhausted(w) ==
    /\ inv[w].pc = "enqueue"
    /\ ~HasDelay(AttemptOf(w) + 1)
    /\ ~Before(inv[w].left)
    /\ ReturnNil(w)
    /\ UNCHANGED <<tableVars, queueVars, sender, devices, valid>>

------------------------------------------------------------------------------
(* The recipient's phones, and FCM *)

\* handleRegisterDevice: PutDevice
RegisterDevice(d) ==
    /\ d \in valid \ devices
    /\ devices' = devices \cup {d}
    /\ UNCHANGED <<tableVars, queueVars, inv, sender, valid>>

\* The app is removed: FCM answers UNREGISTERED for the token from now on.
TokenDies(d) ==
    /\ d \in valid
    /\ valid' = valid \ {d}
    /\ UNCHANGED <<tableVars, queueVars, inv, sender, devices>>

------------------------------------------------------------------------------

HandleRecord(w) ==
    \/ LoadDrop(w) \/ LoadExpired(w) \/ LoadDue(w) \/ Expire(w) \/ ExpiredEvent(w)
    \/ ListDevices(w) \/ NoDevices(w) \/ GetSender(w) \/ GetSenderFails(w)
    \/ \E d \in Devices : Send(w, d) \/ SendGone(w, d)
    \/ Prune(w) \/ RecordWins(w) \/ RecordConflict(w) \/ AttemptEvent(w)
    \/ EnqueueNext(w) \/ EnqueueFinal(w) \/ Exhausted(w)

PagerStep(w) == NextRecord(w) \/ EndBatch(w) \/ HandleRecord(w)

==============================================================================
