----------------------------- MODULE PageContract ----------------------------
(* What the two lambdas together promise about a page, whatever attempts,     *)
(* duplicates and retries go on behind it (model.go, store.go): a page is     *)
(* created once, its state moves forward only, exactly one ack wins and keeps *)
(* its note, and a page expires only after its deadline, never once acked.    *)
CONSTANTS PageIds, Notes, None

VARIABLES
    state,   \* page -> state of the page, "absent" before it is created
    note,    \* page -> the note of the ack that won
    overdue  \* the pages whose deadline has passed

vars == <<state, note, overdue>>

Active(p) == state[p] \in {"created", "pushed", "delivered"}

Init ==
    /\ state = [p \in PageIds |-> "absent"]
    /\ note = [p \in PageIds |-> None]
    /\ overdue = {}

Create(p) ==
    /\ state[p] = "absent"
    /\ state' = [state EXCEPT ![p] = "created"]
    /\ UNCHANGED <<note, overdue>>

Push(p) ==
    /\ state[p] = "created"
    /\ state' = [state EXCEPT ![p] = "pushed"]
    /\ UNCHANGED <<note, overdue>>

Deliver(p) ==
    /\ state[p] \in {"created", "pushed"}
    /\ state' = [state EXCEPT ![p] = "delivered"]
    /\ UNCHANGED <<note, overdue>>

Ack(p, n) ==
    /\ Active(p)
    /\ state' = [state EXCEPT ![p] = "acked"]
    /\ note' = [note EXCEPT ![p] = n]
    /\ UNCHANGED overdue

Expire(p) ==
    /\ Active(p)
    /\ p \in overdue
    /\ state' = [state EXCEPT ![p] = "expired"]
    /\ UNCHANGED <<note, overdue>>

\* Time passes; only a page that exists has a deadline.
Deadlines ==
    /\ \E late \in SUBSET {p \in PageIds : state[p] # "absent"} :
          overdue' = overdue \cup late
    /\ UNCHANGED <<state, note>>

Next ==
    \/ \E p \in PageIds :
          \/ Create(p) \/ Push(p) \/ Deliver(p) \/ Expire(p)
          \/ \E n \in Notes : Ack(p, n)
    \/ Deadlines

Spec == Init /\ [][Next]_vars

==============================================================================
