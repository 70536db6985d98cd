------------------------------ MODULE FcmClient ------------------------------
(* The FCM client, backend/internal/push/fcm/fcm.go: a Send posts the message *)
(* of one device, once more after a pause if FCM is busy or does not answer.  *)
(* The context of a Send is that of its invocation and is done when the       *)
(* lambda's time is up; the invocation is killed then (Pager!Crash).          *)
EXTENDS Pager

VARIABLES
    call,  \* the Send each worker is in: [pc, device, try, result]
    log    \* log[w][d]: FCM's part in each post of w's present round to device d

clientVars == <<call, log>>

NoLog  == [d \in {} |-> <<>>]
NoCall == [pc |-> "none", device |-> None, try |-> 0, result |-> "none"]

ClientInit ==
    /\ call = [w \in Workers |-> NoCall]
    /\ log = [w \in Workers |-> NoLog]

\* What becomes of a post: answered "ok"; "lost", accepted but answered with a 5xx or
\* not at all; "down", not accepted, answered with 429 or 5xx or not at all; "gone",
\* 404, 410 or UNREGISTERED; "refused", any other status.
Replies(d) == {"down", "refused"} \cup IF d \in valid THEN {"ok", "lost"} ELSE {"gone"}

Accepted(reply) == reply \in {"ok", "lost"}

\* The answers after which the loop continues.
Retried(reply) == reply \in {"lost", "down"}

\* Mutant: a failed request is no reason to return an error.
ResultUnlessAnswered(reply) ==
    CASE reply = "gone" -> "gone" [] reply = "refused" -> "failed" [] OTHER -> "sent"

Result(reply) == CASE reply = "ok" -> "sent" [] reply = "gone" -> "gone" [] OTHER -> "failed"

\* Mutant: the bound of the loop is off by one.
TriesLeftPlusOne(try) == try < 2

\* for attempt := 0; attempt < 2; attempt++
TriesLeft(try) == try < 1

BeginSend(w, d) ==
    /\ call[w].pc = "none"
    /\ call' = [call EXCEPT ![w] = [pc |-> "post", device |-> d, try |-> 0,
                                    result |-> "none"]]
    /\ UNCHANGED log

Post(w) ==
    /\ call[w].pc = "post"
    /\ \E reply \in Replies(call[w].device) :
          /\ log' = [log EXCEPT ![w][call[w].device] = Append(@, reply)]
          /\ call' = IF Retried(reply) /\ TriesLeft(call[w].try)
                     THEN [call EXCEPT ![w].pc = "backoff"]
                     ELSE [call EXCEPT ![w].pc = "returned", ![w].result = Result(reply)]

\* 200 ms and a jitter go by.
Backoff(w) ==
    /\ call[w].pc = "backoff"
    /\ call' = [call EXCEPT ![w].pc = "post", ![w].try = @ + 1]
    /\ UNCHANGED log

==============================================================================
