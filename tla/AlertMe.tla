------------------------------- MODULE AlertMe -------------------------------
(* The paging core: the API handlers that change pages, the pager, the page   *)
(* table and the nag queue they share, and the clock.                         *)
EXTENDS Pager, PagesApi

vars == <<tableVars, queueVars, pagerVars, apiVars>>

Init == TableInit /\ QueueInit /\ PagerInit /\ ApiInit

\* Time passes for the deadlines and for the delay timers of the queue alike.
Tick ==
    /\ (\E p \in DOMAIN pages : left[p] >= 0) \/ (\E m \in DOMAIN queue : queue[m].wait > 0)
    /\ CountDown
    /\ DelayTick
    /\ UNCHANGED <<pages, idem, events, replica, dlq, dups, pagerVars, apiVars>>

\* Every request is answered and the queue is drained: the system may stop here,
\* and nowhere else.
Rest ==
    /\ DOMAIN queue = {}
    /\ \A w \in Workers : inv[w].pc = "idle"
    /\ \A p \in PageIds : creates[p] \notin {"create", "enqueue", "lookup"}
    /\ UNCHANGED vars

\* The recipient's client, which may or may not do any of this.
ClientNext ==
    \/ \E a \in Ackers : AckRequest(a)
    \/ \E r \in Receivers : ReceiptRequest(r)

ApiNext ==
    \/ \E p \in PageIds : CreateNew(p) \/ CreateStep(p)
    \/ \E a \in Ackers : AckStep(a) \/ AckFails(a)
    \/ \E r \in Receivers : ReceiptStep(r) \/ ReceiptFails(r)

PagerNext ==
    \/ \E w \in Workers : Receive(w) \/ PagerStep(w) \/ Fail(w) \/ Crash(w)
    \/ \E d \in Devices : RegisterDevice(d) \/ TokenDies(d)

Next ==
    \/ PagerNext /\ UNCHANGED apiVars
    \/ (ClientNext \/ ApiNext) /\ UNCHANGED pagerVars
    \/ \E m \in MsgIds : Duplicate(m) /\ UNCHANGED <<tableVars, pagerVars, apiVars>>
    \/ \E p \in PageIds : Replicate(p) /\ UNCHANGED <<queueVars, pagerVars, apiVars>>
    \/ Tick
    \/ Rest

Spec == Init /\ [][Next]_vars

\* Lambda runs an invocation or a request to its end, SQS hands out what is visible
\* and time passes.  Nothing obliges a client to act, a call to fail or SQS to
\* duplicate.
Fairness ==
    /\ WF_vars(Tick)
    /\ \A w \in Workers :
          /\ WF_vars(Receive(w) /\ UNCHANGED apiVars)
          /\ WF_vars(PagerStep(w) /\ UNCHANGED apiVars)
    /\ \A p \in PageIds : WF_vars(CreateStep(p) /\ UNCHANGED pagerVars)
    /\ \A a \in Ackers : WF_vars(AckStep(a) /\ UNCHANGED pagerVars)
    /\ \A r \in Receivers : WF_vars(ReceiptStep(r) /\ UNCHANGED pagerVars)

FairSpec == Spec /\ Fairness

==============================================================================
