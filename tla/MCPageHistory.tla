---------------------------- MODULE MCPageHistory ----------------------------
(* An instance of PageHistory for TLC.                                        *)
EXTENDS PageHistoryProps

CONSTANTS u1, u2

\* One user sends three pages and receives one.
SenderOf    == [p \in PageIds |-> IF p < 4 THEN u1 ELSE u2]
RecipientOf == [p \in PageIds |-> IF p < 4 THEN u2 ELSE u1]

==============================================================================
