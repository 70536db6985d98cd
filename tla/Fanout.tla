------------------------------- MODULE Fanout --------------------------------
(* The paging core with the pushes carried out: the device loop of            *)
(* handleRecord (cmd/pager/main.go) calls the FCM client, and the steps Send  *)
(* and SendGone of Pager, which guess the outcome of a push, give way to what *)
(* the client does and what the loop makes of its result.                     *)
EXTENDS AlertMe, FcmClient

fanoutVars == <<vars, clientVars>>

FanoutInit == Init /\ ClientInit

\* A round of pushes lasts until its attempt is recorded.
Round == {"noDevices", "sender", "send", "prune", "record"}

\* ListDevices succeeds: a round begins, and every device has a clean slate.
RoundBegins(w) == inv[w].pc = "list" /\ inv'[w].pc \in {"sender", "noDevices"}

\* Everything the core does but for the pushes.
CoreStep ==
    /\ Next
    /\ \A w \in Workers : inv[w].pc = "send" => inv'[w] = inv[w]
    /\ log' = [w \in Workers |-> IF RoundBegins(w) THEN [d \in devices |-> <<>>]
                                ELSE IF inv'[w].pc \in Round THEN log[w] ELSE NoLog]
    /\ UNCHANGED call

\* sender.Send(ctx, d, notification)
CallSend(w, d) ==
    /\ inv[w].pc = "send" /\ d \in inv[w].todo
    /\ BeginSend(w, d)
    /\ UNCHANGED vars

ClientStep(w) == (Post(w) \/ Backoff(w)) /\ UNCHANGED vars

\* Mutants: the loop ends with the first push, or any failure prunes the device.
SendReturnsOnce(w) ==
    /\ call[w].pc = "returned"
    /\ inv' = IF call[w].result = "gone"
              THEN [inv EXCEPT ![w].pc = "prune", ![w].gone = call[w].device]
              ELSE [inv EXCEPT ![w].todo = {}, ![w].pc = "record"]
    /\ call' = [call EXCEPT ![w] = NoCall]
    /\ UNCHANGED <<tableVars, queueVars, sender, devices, valid, apiVars, log>>

SendReturnsAndPrunes(w) ==
    /\ call[w].pc = "returned"
    /\ inv' = IF call[w].result # "sent"
              THEN [inv EXCEPT ![w].pc = "prune", ![w].gone = call[w].device]
              ELSE [inv EXCEPT ![w].todo = @ \ {call[w].device},
                               ![w].pc = AfterSend(w, call[w].device)]
    /\ call' = [call EXCEPT ![w] = NoCall]
    /\ UNCHANGED <<tableVars, queueVars, sender, devices, valid, apiVars, log>>

\* ErrTokenGone leads to DeleteDevice; any other error is logged, and the next device
\* has its turn.
SendReturns(w) ==
    /\ call[w].pc = "returned"
    /\ inv' = IF call[w].result = "gone"
              THEN [inv EXCEPT ![w].pc = "prune", ![w].gone = call[w].device]
              ELSE [inv EXCEPT ![w].todo = @ \ {call[w].device},
                               ![w].pc = AfterSend(w, call[w].device)]
    /\ call' = [call EXCEPT ![w] = NoCall]
    /\ UNCHANGED <<tableVars, queueVars, sender, devices, valid, apiVars, log>>

\* The lambda's time is up, or it crashes, in the middle of a push.
DieSending(w) ==
    /\ inv[w].pc = "send"
    /\ Crash(w)
    /\ call' = [call EXCEPT ![w] = NoCall]
    /\ log' = [log EXCEPT ![w] = NoLog]
    /\ UNCHANGED apiVars

FanoutNext ==
    \/ CoreStep
    \/ \E w \in Workers :
          ClientStep(w) \/ SendReturns(w) \/ DieSending(w) \/ \E d \in Devices : CallSend(w, d)

FanoutSpec == FanoutInit /\ [][FanoutNext]_fanoutVars

==============================================================================
