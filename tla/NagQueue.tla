------------------------------ MODULE NagQueue -------------------------------
(* The SQS nag queue and its dead-letter queue, as the code uses them: the    *)
(* PageTask messages of backend/internal/queue/queue.go and the settings of   *)
(* infra/lib/alertme-stack.ts.  SQS delivers a message at least once and in   *)
(* no order.  A message taken by a pager is invisible until the invocation    *)
(* ends (the visibility timeout, 60 s, is longer than the 30 s an invocation  *)
(* may run); it is then deleted, or becomes visible again, or is moved to the *)
(* dead-letter queue when it has been received MaxReceive times.              *)
EXTENDS Integers, FiniteSets

CONSTANTS
    MsgIds,      \* slots for messages: bounds how many are in the queue at once
    MaxReceive,  \* maxReceiveCount
    MaxDups      \* bound on the duplicates SQS makes

ASSUME QueueAssumption ==
    /\ MaxReceive \in Nat \ {0}
    /\ MaxDups \in Nat

VARIABLES
    queue,  \* message -> [page, attempt, wait, receives, status]
    dlq,    \* the tasks of the dead-letter queue
    dups    \* duplicates made so far

queueVars == <<queue, dlq, dups>>

QueueInit == queue = [m \in {} |-> 0] /\ dlq = {} /\ dups = 0

\* queue.PageTask
Task(p, n) == [page |-> p, attempt |-> n]

\* Mutant: DelaySeconds is not passed on.
UndelayedMessage(p, n, delay) ==
    [page |-> p, attempt |-> n, wait |-> 0, receives |-> 0, status |-> "visible"]

\* A message with its delivery attributes: the ticks of DelaySeconds it still has
\* to wait, how often it was received, and "held" while an invocation has it.
Message(p, n, delay) ==
    [page |-> p, attempt |-> n, wait |-> delay, receives |-> 0, status |-> "visible"]

FreeSlots == MsgIds \ DOMAIN queue

\* SQS.Enqueue
Enqueue(p, n, delay) ==
    /\ FreeSlots # {}
    /\ LET m == CHOOSE x \in FreeSlots : TRUE
       IN  queue' = [x \in DOMAIN queue \cup {m} |->
                        IF x = m THEN Message(p, n, delay) ELSE queue[x]]
    /\ UNCHANGED <<dlq, dups>>

Visible == {m \in DOMAIN queue : queue[m].status = "visible" /\ queue[m].wait = 0}

\* The event source hands a batch of visible messages to an invocation.
Take(batch) ==
    /\ queue' = [m \in DOMAIN queue |->
                    IF m \in batch
                    THEN [queue[m] EXCEPT !.status = "held", !.receives = @ + 1]
                    ELSE queue[m]]
    /\ UNCHANGED <<dlq, dups>>

\* The end of an invocation: the messages of `done` are deleted, those of `failed`
\* become visible again, or go to the dead-letter queue.
Dead(failed) == {m \in failed : queue[m].receives >= MaxReceive}

Settle(done, failed) ==
    /\ queue' = [m \in DOMAIN queue \ (done \cup Dead(failed)) |->
                    IF m \in failed THEN [queue[m] EXCEPT !.status = "visible"] ELSE queue[m]]
    /\ dlq' = dlq \cup {Task(queue[m].page, queue[m].attempt) : m \in Dead(failed)}
    /\ UNCHANGED dups

\* At-least-once delivery: a message that is due, or already taken, is delivered
\* once more than it was sent.
Duplicate(m) ==
    /\ m \in DOMAIN queue
    /\ queue[m].wait = 0
    /\ dups < MaxDups
    /\ FreeSlots # {}
    /\ LET c == CHOOSE x \in FreeSlots : TRUE
       IN  queue' = [x \in DOMAIN queue \cup {c} |->
                        IF x = c THEN [queue[m] EXCEPT !.status = "visible"] ELSE queue[x]]
    /\ dups' = dups + 1
    /\ UNCHANGED dlq

\* A tick of the delay timers.
DelayTick ==
    queue' = [m \in DOMAIN queue |->
                 IF queue[m].wait > 0 THEN [queue[m] EXCEPT !.wait = @ - 1] ELSE queue[m]]

==============================================================================
