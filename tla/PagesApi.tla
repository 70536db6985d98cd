------------------------------ MODULE PagesApi -------------------------------
(* The handlers of backend/internal/api/handlers.go that change a page:       *)
(* create, ack and delivered receipt.  Every request is a process; its status *)
(* is the call the handler is about to make, then the HTTP code of its        *)
(* response.  Requests that validation, the pairing check or the recipient    *)
(* check turn away change nothing and are left out.                           *)
EXTENDS PageTable, NagQueue

CONSTANTS
    Ackers,     \* ack requests; each names the note it would leave
    Receivers   \* delivered receipts

VARIABLES
    creates,   \* status of the create request that draws page id p
    acks,      \* [status, page] of an ack request
    receipts   \* [status, page, attempt] of a receipt

apiVars == <<creates, acks, receipts>>

ApiInit ==
    /\ creates = [p \in PageIds |-> "create"]
    /\ acks = [a \in Ackers |-> [status |-> "new", page |-> None]]
    /\ receipts = [r \in Receivers |-> [status |-> "new", page |-> None, attempt |-> -1]]

------------------------------------------------------------------------------
(* handleCreatePage *)

CreateReply(p, status) == creates' = [creates EXCEPT ![p] = status]

CreateNew(p) ==
    /\ creates[p] = "create"
    /\ Creatable(p)
    /\ CreatePage(p)
    /\ CreateReply(p, "enqueue")
    /\ UNCHANGED <<replica, left, queueVars, acks, receipts>>

CreateConflict(p) ==
    /\ creates[p] = "create"
    /\ ~Creatable(p)
    /\ CreateReply(p, "lookup")
    /\ UNCHANGED <<tableVars, queueVars, acks, receipts>>

CreateLookup(p) ==
    /\ creates[p] = "lookup"
    /\ \E copy \in Copies :
          CreateReply(p, IF KeyFound(Key[p], copy) THEN "200" ELSE "409")
    /\ UNCHANGED <<tableVars, queueVars, acks, receipts>>

CreateEnqueue(p) ==
    /\ creates[p] = "enqueue"
    /\ Enqueue(p, 0, 0)
    /\ CreateReply(p, "201")
    /\ UNCHANGED <<tableVars, acks, receipts>>

\* Enqueue fails, or the lambda dies before it: the page stays as it is.
CreateNotScheduled(p) ==
    /\ creates[p] = "enqueue"
    /\ "createEnqueue" \in Faults
    /\ CreateReply(p, "500")
    /\ UNCHANGED <<tableVars, queueVars, acks, receipts>>

CreateStep(p) ==
    CreateConflict(p) \/ CreateLookup(p) \/ CreateEnqueue(p) \/ CreateNotScheduled(p)

------------------------------------------------------------------------------
(* handleAckPage *)

AckReply(a, status) == acks' = [acks EXCEPT ![a].status = status]

AckRequest(a) ==
    /\ acks[a].status = "new"
    /\ \E p \in PageIds : acks' = [acks EXCEPT ![a] = [status |-> "load", page |-> p]]
    /\ UNCHANGED <<tableVars, queueVars, creates, receipts>>

AckLoad(a) ==
    /\ acks[a].status = "load"
    /\ \E copy \in Copies :
          AckReply(a, IF acks[a].page \in DOMAIN copy THEN "ack" ELSE "404")
    /\ UNCHANGED <<tableVars, queueVars, creates, receipts>>

AckWrite(a) ==
    /\ acks[a].status = "ack"
    /\ Ackable(acks[a].page)
    /\ AckPage(acks[a].page, a)
    /\ AckReply(a, "event")
    /\ UNCHANGED <<idem, events, replica, left, queueVars, creates, receipts>>

AckConflict(a) ==
    /\ acks[a].status = "ack"
    /\ ~Ackable(acks[a].page)
    /\ AckReply(a, "reread")
    /\ UNCHANGED <<tableVars, queueVars, creates, receipts>>

\* Mutant: a conflict is a conflict.
NoSecondAck(p, copy) == FALSE

AckedAlready(p, copy) == p \in DOMAIN copy /\ copy[p].state = "acked"

AckReread(a) ==
    /\ acks[a].status = "reread"
    /\ \E copy \in Copies :
          AckReply(a, IF AckedAlready(acks[a].page, copy) THEN "200" ELSE "409")
    /\ UNCHANGED <<tableVars, queueVars, creates, receipts>>

AckEvent(a) ==
    /\ acks[a].status = "event"
    /\ AppendEvent(acks[a].page, "acked")
    /\ AckReply(a, "200")
    /\ UNCHANGED <<pages, idem, replica, left, queueVars, creates, receipts>>

AckStep(a) ==
    AckLoad(a) \/ AckWrite(a) \/ AckConflict(a) \/ AckReread(a) \/ AckEvent(a)

------------------------------------------------------------------------------
(* handleDeliveredReceipt *)

ReceiptReply(r, status) == receipts' = [receipts EXCEPT ![r].status = status]

ReceiptRequest(r) ==
    /\ receipts[r].status = "new"
    /\ \E p \in PageIds :
          receipts' = [receipts EXCEPT ![r].status = "load", ![r].page = p]
    /\ UNCHANGED <<tableVars, queueVars, creates, acks>>

\* The attempt the loaded page carries is written back by the update below.
ReceiptLoad(r) ==
    /\ receipts[r].status = "load"
    /\ \E copy \in Copies :
          IF receipts[r].page \in DOMAIN copy
          THEN receipts' = [receipts EXCEPT ![r].status = "set",
                               ![r].attempt = copy[receipts[r].page].attempt]
          ELSE ReceiptReply(r, "404")
    /\ UNCHANGED <<tableVars, queueVars, creates, acks>>

\* Mutant: a receipt is not expected before the record of its attempt.
ReceiptFromPushed == {"pushed"}

ReceiptFrom == {"created", "pushed"}

ReceiptWrite(r) ==
    /\ receipts[r].status = "set"
    /\ StateIn(receipts[r].page, ReceiptFrom)
    /\ SetPageState(receipts[r].page, "delivered", receipts[r].attempt)
    /\ ReceiptReply(r, "event")
    /\ UNCHANGED <<idem, events, replica, left, queueVars, creates, acks>>

ReceiptConflict(r) ==
    /\ receipts[r].status = "set"
    /\ ~StateIn(receipts[r].page, ReceiptFrom)
    /\ ReceiptReply(r, "204")
    /\ UNCHANGED <<tableVars, queueVars, creates, acks>>

ReceiptEvent(r) ==
    /\ receipts[r].status = "event"
    /\ AppendEvent(receipts[r].page, "delivered")
    /\ ReceiptReply(r, "204")
    /\ UNCHANGED <<pages, idem, replica, left, queueVars, creates, acks>>

ReceiptStep(r) ==
    ReceiptLoad(r) \/ ReceiptWrite(r) \/ ReceiptConflict(r) \/ ReceiptEvent(r)

------------------------------------------------------------------------------

\* A store call of the request fails, or the lambda dies: the caller sees a 500 and
\* what was written stays.
AckFails(a) ==
    /\ acks[a].status \in {"load", "ack", "event"} /\ "ackApi" \in Faults
    /\ AckReply(a, "500")
    /\ UNCHANGED <<tableVars, queueVars, creates, receipts>>

ReceiptFails(r) ==
    /\ receipts[r].status \in {"load", "set", "event"} /\ "receiptApi" \in Faults
    /\ ReceiptReply(r, "500")
    /\ UNCHANGED <<tableVars, queueVars, creates, acks>>

==============================================================================
