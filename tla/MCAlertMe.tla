------------------------------ MODULE MCAlertMe ------------------------------
(* Instances of AlertMe for TLC.                                              *)
EXTENDS AlertMeInv, TLC

CONSTANTS p1, p2, k1

\* A schedule that outlasts a page of Expiry = 2 ticks, as nag.Delays does.
CoveringDelays  == <<1, 2>>
CoveringElapsed == (0 :> 0) @@ (1 :> 1) @@ (2 :> 3)

\* A shorter one, for a page of Expiry = 1 tick.
BriskDelays  == <<1, 1>>
BriskElapsed == (0 :> 0) @@ (1 :> 1) @@ (2 :> 2)

\* A schedule of two attempts; a page of more than 2 ticks outlives it.
ShortDelays  == <<1>>
ShortElapsed == (0 :> 0) @@ (1 :> 1)

\* nag.Delays in units of 30 s; Expiry is 60 and maxFinalDelay 30 of them.
NagDelays  == <<1, 1, 2, 4, 10, 10, 10, 10, 10, 10>>
NagElapsed == (0 :> 0) @@ (1 :> 1) @@ (2 :> 2) @@ (3 :> 4) @@ (4 :> 8) @@ (5 :> 18)
              @@ (6 :> 28) @@ (7 :> 38) @@ (8 :> 48) @@ (9 :> 58) @@ (10 :> 68)

\* Every request of the instance carries the same idempotency key.
SameKey == [p \in PageIds |-> k1]

\* Workers differ in nothing but their names.
WorkerSymmetry == Permutations(Workers)

==============================================================================
