----------------------------- MODULE NagSchedule -----------------------------
(* The retry schedule of backend/internal/nag/schedule.go.  Delays[i] is the  *)
(* wait before attempt i; attempt 0 has no preceding delay.  Time is counted  *)
(* in ticks, a tick being one unit of the SQS DelaySeconds parameter or a     *)
(* multiple of it that divides every delay of the schedule.                   *)
EXTENDS Integers, Sequences

CONSTANTS
    Delays,         \* nag.Delays, a sequence of ticks
    Expiry,         \* nag.Expiry: how long a page nags
    MaxFinalDelay,  \* maxFinalDelay: cap of the pager's final expiry tick
    Elapsed         \* Elapsed[n]: ticks from attempt 0 to attempt n at the earliest

\* Elapsed is determined by Delays.  It is a constant constrained here, and not
\* a recursive function, so that the proofs can use its two equations.
ASSUME ScheduleAssumption ==
    /\ Delays \in Seq(Nat)
    /\ Expiry \in Nat \ {0}
    /\ MaxFinalDelay \in Nat \ {0}
    /\ Elapsed \in [0..Len(Delays) -> Nat]
    /\ Elapsed[0] = 0
    /\ \A n \in 1..Len(Delays) : Elapsed[n] = Elapsed[n - 1] + Delays[n]

\* Mutant: an off-by-one that forgets the last delay.
HasDelayButLast(n) == n < Len(Delays)

\* The boolean result of NextDelay(n): is attempt n part of the schedule?
HasDelay(n) == n <= Len(Delays)

\* Mutant: attempt 1 is taken for one without a preceding delay.
NextDelayFromTwo(n) == IF n <= 1 THEN 0 ELSE Delays[n]

\* The duration NextDelay(n) returns with it.
NextDelay(n) == IF n <= 0 THEN 0 ELSE Delays[n]

\* The attempts of the whole schedule outlast the page.  30 minutes of nagging
\* against 34 minutes of delays: true of the constants of schedule.go, though
\* schedule_test.go would let the two be equal.
ScheduleCovers == Elapsed[Len(Delays)] > Expiry

==============================================================================
