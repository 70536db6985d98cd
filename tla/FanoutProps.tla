---------------------------- MODULE FanoutProps ------------------------------
(* What the pushes are checked for.                                           *)
EXTENDS Fanout

Calls == [pc : {"none", "post", "backoff", "returned"}, device : Devices \cup {None},
          try : {0, 1}, result : {"none", "sent", "gone", "failed"}]

\* A worker is in a Send only where the loop of handleRecord calls it, for a device
\* of its round, and no device is posted to more than twice in a round.
CallsTypeOK ==
    /\ call \in [Workers -> Calls]
    /\ \A w \in Workers :
          /\ call[w].pc # "none" => inv[w].pc = "send" /\ call[w].device \in inv[w].todo
          /\ inv[w].todo \subseteq DOMAIN log[w]
          /\ \A d \in DOMAIN log[w] : Len(log[w][d]) <= 2

AcceptedPosts(w, d) ==
    IF d \in DOMAIN log[w]
    THEN Cardinality({i \in DOMAIN log[w][d] : Accepted(log[w][d][i])}) ELSE 0

Sender == INSTANCE SendContract WITH
    Callers <- Workers,
    token   <- [w \in Workers |-> call[w].device],
    result  <- [w \in Workers |-> call[w].result],
    heard   <- [w \in Workers |-> AcceptedPosts(w, call[w].device)]

\* Send returns nil only if FCM took the push, ErrTokenGone (push.go:11-13) only if the
\* token is dead, and a phone alerts twice at most for it.
ImplementsSender == Sender!Spec

\* With the pushes carried out, the core does nothing it would not do with Pager's
\* guesses: what is shown of it there holds here.
ImplementsCore == Spec

\* When an attempt is about to be recorded, every device of its round has had its
\* turn, whatever came of the others: FCM answered, or was asked twice in vain.
RecordedMeansTried ==
    \A w \in Workers :
        inv[w].pc = "record" =>
            \A d \in DOMAIN log[w] :
                /\ log[w][d] # <<>>
                /\ Retried(log[w][d][Len(log[w][d])]) => Len(log[w][d]) = 2

==============================================================================
