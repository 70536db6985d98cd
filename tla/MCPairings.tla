----------------------------- MODULE MCPairings ------------------------------
(* Instances of Pairings for TLC.                                             *)
EXTENDS PairingsProps, TLC

\* Users, codes and requests differ in nothing but their names.
NameSymmetry == Permutations(Users) \cup Permutations(Codes) \cup Permutations(Accepters)

==============================================================================
