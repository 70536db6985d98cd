----------------------------- MODULE CanaryProps -----------------------------
(* What the canary is checked for.                                            *)
EXTENDS Canary, AlertMeProps

\* "On success it pings the dead-man URL" (canary/main.go:1-4): a heartbeat means that
\* the pager recorded an attempt of this very page and that bot B's ack reached it.
\* (Bots have no phone: a late receipt could take the record of the attempt back.)
HeartbeatTruthful ==
    canary.pc \in {"heartbeat", "alive"} =>
        /\ canary.page \in DOMAIN pages
        /\ pages[canary.page].state = "acked"
        /\ pages[canary.page].note \in Ackers
        /\ pages[canary.page].attempt >= 0

==============================================================================
