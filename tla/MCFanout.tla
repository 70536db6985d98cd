------------------------------ MODULE MCFanout -------------------------------
(* An instance of Fanout for TLC: a schedule of one delay, and one page.      *)
EXTENDS FanoutProps, TLC

CONSTANTS p1, k1

BriskDelays  == <<1>>
BriskElapsed == (0 :> 0) @@ (1 :> 1)

KeyOfAll == [p \in PageIds |-> k1]

Symmetry == Permutations(Devices)

==============================================================================
