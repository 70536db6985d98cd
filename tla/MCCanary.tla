------------------------------ MODULE MCCanary -------------------------------
(* An instance of Canary for TLC, on the schedule of nag/schedule.go.         *)
EXTENDS MCAlertMe, CanaryProps

==============================================================================
