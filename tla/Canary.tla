------------------------------- MODULE Canary --------------------------------
(* The canary lambda, backend/cmd/canary/main.go, run once against the paging *)
(* core: bot A pages bot B through the API, waits for the page to be pushed,  *)
(* lets bot B acknowledge it and pings the dead-man URL.  The bots, their     *)
(* pairing and their passwords are there; the canary's calls are the requests *)
(* of PagesApi, and it sees of them what their status says.                   *)
EXTENDS AlertMe

VARIABLE canary  \* [pc, page, age]: age counts the ticks since the run began

canaryVars == <<vars, canary>>

\* goFn: a lambda is stopped after 30 s, which is LifeTime ticks.  The canary's own
\* deadline of 60 s for the poll is never reached.
LifeTime == 1

CanaryInit == Init /\ canary = [pc |-> "login", page |-> None, age |-> 0]

Ended == canary.pc \in {"alive", "failed"}

\* The canary's lambda, or that of the ack it left behind, is running.
Running ==
    \/ canary.pc # "login" /\ ~Ended
    \/ \E a \in Ackers : acks[a].status \in {"load", "ack", "reread", "event"}

Continue(pc) == canary' = [canary EXCEPT !.pc = pc]

\* What the core does meanwhile.  Nobody but the canary creates and acks pages.
CoreStep ==
    /\ Next
    /\ \A p \in PageIds : creates[p] = "create" /\ p # canary.page => creates'[p] = "create"
    /\ \A a \in Ackers : acks[a].status = "new" => acks'[a].status = "new"
    /\ IF left' = left
       THEN UNCHANGED canary
       ELSE /\ Running => canary.age < LifeTime
            /\ canary' = [canary EXCEPT !.age = IF Running THEN @ + 1 ELSE 0]

\* cognitoLogin of both bots, and POST /pages: the create request draws its page id.
PostPage ==
    /\ canary.pc = "login"
    /\ \E p \in PageIds : canary' = [canary EXCEPT !.pc = "created", !.page = p]
    /\ UNCHANGED vars

CreateAnswered ==
    /\ canary.pc = "created"
    /\ creates[canary.page] \in {"200", "201"}
    /\ Continue("poll")
    /\ UNCHANGED vars

\* Mutant: an answer is good enough.
AnyState(state) == TRUE

Advanced(state) == state \in {"pushed", "delivered"}

\* GET /pages/{id}.  A page in any other state is polled again two seconds later.
Poll ==
    /\ canary.pc = "poll"
    /\ \E copy \in Copies : canary.page \in DOMAIN copy /\ Advanced(copy[canary.page].state)
    /\ Continue("ack")
    /\ UNCHANGED vars

\* POST /pages/{id}/ack in the name of bot B
PostAck ==
    /\ canary.pc = "ack"
    /\ \E a \in Ackers : AckRequest(a) /\ acks'[a].page = canary.page
    /\ Continue("acked")
    /\ UNCHANGED pagerVars

AckAnswered ==
    /\ canary.pc = "acked"
    /\ \E a \in Ackers : acks[a].status = "200"
    /\ Continue("heartbeat")
    /\ UNCHANGED vars

\* http.Get of the dead-man URL, whatever its status.
Heartbeat ==
    /\ canary.pc = "heartbeat"
    /\ Continue("alive")
    /\ UNCHANGED vars

\* Any call fails or is answered with an error, a copy lacks the page, or the time is
\* up: the run ends without a heartbeat, and what it asked for takes its course.  A
\* run that cannot log in asks for nothing and is left out.
Fails ==
    /\ ~Ended /\ canary.pc # "login"
    /\ Continue("failed")
    /\ UNCHANGED vars

CanaryStep ==
    PostPage \/ CreateAnswered \/ Poll \/ PostAck \/ AckAnswered \/ Heartbeat \/ Fails

CanaryNext == CoreStep \/ CanaryStep

CanarySpec == CanaryInit /\ [][CanaryNext]_canaryVars

\* The run goes on while it can, and time, which stops it, does as well.
FairCanarySpec == CanarySpec /\ Fairness /\ WF_canaryVars(CanaryStep)

==============================================================================
