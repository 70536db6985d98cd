---------------------------- MODULE PairingContract --------------------------
(* What invites and pairings promise, whatever requests race and fail behind  *)
(* them: an invite pairs its creator with one user, once; only a new invite   *)
(* undoes a block; and only users who are paired can page each other.         *)
CONSTANTS Users, Codes

VARIABLES
    creator,  \* invite code -> the user who drew it
    open,     \* the codes that can still be redeemed
    paired,   \* the sets {u, v} of users who are paired
    blocks,   \* <<u, v>>: u has blocked v
    paged     \* <<u, v>>: u has paged v

vars == <<creator, open, paired, blocks, paged>>

Init == creator = [c \in {} |-> 0] /\ open = {} /\ paired = {} /\ blocks = {} /\ paged = {}

Invite(c, u) ==
    /\ c \notin DOMAIN creator
    /\ creator' = [x \in DOMAIN creator \cup {c} |-> IF x = c THEN u ELSE creator[x]]
    /\ open' = open \cup {c}
    /\ UNCHANGED <<paired, blocks, paged>>

Redeem(c, u) ==
    /\ c \in open
    /\ open' = open \ {c}
    /\ paired' = paired \cup {{u, creator[c]}}
    /\ blocks' = blocks \ {<<u, creator[c]>>, <<creator[c], u>>}
    /\ UNCHANGED <<creator, paged>>

Lapse(c) ==
    /\ c \in open
    /\ open' = open \ {c}
    /\ UNCHANGED <<creator, paired, blocks, paged>>

Block(u, v) ==
    /\ {u, v} \in paired
    /\ blocks' = blocks \cup {<<u, v>>}
    /\ UNCHANGED <<creator, open, paired, paged>>

Page(u, v) ==
    /\ {u, v} \in paired
    /\ paged' = paged \cup {<<u, v>>}
    /\ UNCHANGED <<creator, open, paired, blocks>>

Next ==
    \/ \E c \in Codes : Lapse(c) \/ \E u \in Users : Invite(c, u) \/ Redeem(c, u)
    \/ \E u, v \in Users : Block(u, v) \/ Page(u, v)

Spec == Init /\ [][Next]_vars

==============================================================================
