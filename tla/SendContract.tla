---------------------------- MODULE SendContract -----------------------------
(* What push.Sender promises its caller about the push of one device, without *)
(* a word on requests and answers: when Send returns, the phone has alerted   *)
(* if Send says so, the token is dead if Send says so, and in any case the    *)
(* phone has not alerted more than twice.                                     *)
EXTENDS Integers

CONSTANTS Callers, Devices, None

VARIABLES
    token,   \* the device each caller pushes to, or None
    result,  \* what its Send returned: "none", "sent", "gone", "failed"
    heard,   \* how often the phone alerted for this call
    valid    \* tokens FCM still accepts

vars == <<token, result, heard, valid>>

Init ==
    /\ token = [c \in Callers |-> None]
    /\ result = [c \in Callers |-> "none"] /\ heard = [c \in Callers |-> 0]
    /\ valid = Devices

Begin(c, d) ==
    /\ token[c] = None
    /\ token' = [token EXCEPT ![c] = d]
    /\ UNCHANGED <<result, heard, valid>>

\* Something happens at FCM, and Send may return.
Proceed(c) ==
    /\ token[c] # None /\ result[c] = "none"
    /\ \E h \in {0, 1} :
          /\ h = 1 => token[c] \in valid
          /\ heard[c] + h <= 2
          /\ heard' = [heard EXCEPT ![c] = @ + h]
    /\ \E r \in {"none", "sent", "gone", "failed"} :
          /\ r = "sent" => heard'[c] > 0
          /\ r = "gone" => token[c] \notin valid
          /\ result' = [result EXCEPT ![c] = r]
    /\ UNCHANGED <<token, valid>>

\* The caller is done with the result, or dies in the middle of the call.
End(c) ==
    /\ token' = [token EXCEPT ![c] = None]
    /\ result' = [result EXCEPT ![c] = "none"] /\ heard' = [heard EXCEPT ![c] = 0]
    /\ UNCHANGED valid

Unregister(d) ==
    /\ valid' = valid \ {d}
    /\ UNCHANGED <<token, result, heard>>

Next ==
    \/ \E c \in Callers : Proceed(c) \/ End(c) \/ \E d \in Devices : Begin(c, d)
    \/ \E d \in Devices : Unregister(d)

Spec == Init /\ [][Next]_vars

==============================================================================
