------------------------------ MODULE Pairings -------------------------------
(* Who may page whom: invites, pairings and blocks, as the handlers of        *)
(* backend/internal/api/handlers.go and the operations of store/dynamo        *)
(* change them.  A pairing is kept in two copies, one in the partition of     *)
(* each user.  Every request is a process whose status is the call it is      *)
(* about to make, then the HTTP code of its response.  Reads are taken as     *)
(* consistent: a copy that is out of date is one read earlier, which the      *)
(* interleaving of requests covers, and one that misses an item refuses.      *)
EXTENDS Integers

CONSTANTS
    Users,
    Codes,      \* invite codes: each request for an invite draws its own
    Validity,   \* inviteValidity, in ticks
    Accepters,  \* requests to accept an invite
    Senders,    \* requests to create a page
    Nobody      \* the user of a request that was not made yet

ASSUME PairingAssumption == Validity \in Nat \ {0} /\ Nobody \notin Users \cup Codes

VARIABLES
    users,    \* the user profiles
    issued,   \* code -> creator, of every invite drawn so far
    open,     \* the invite items that are in the table
    left,     \* code -> ticks until expires_at, which is also its ttl
    pairs,    \* the pairing items: <<user, peer>> -> status of the user's copy
    accepts,  \* accept request -> [status, user, code, timely]
    sends     \* create request -> [status, from, to]

inviteVars == <<issued, open, left>>
vars == <<users, inviteVars, pairs, accepts, sends>>

\* A DynamoDB put: the item of key x becomes v.
PutItem(f, x, v) == [y \in DOMAIN f \cup {x} |-> IF y = x THEN v ELSE f[y]]

Init ==
    /\ users = {}
    /\ issued = [c \in {} |-> Nobody]
    /\ open = {}
    /\ left = [c \in Codes |-> Validity]
    /\ pairs = [p \in {} |-> "active"]
    /\ accepts = [a \in Accepters |->
                     [status |-> "new", user |-> Nobody, code |-> Nobody, timely |-> FALSE]]
    /\ sends = [s \in Senders |-> [status |-> "new", from |-> Nobody, to |-> Nobody]]

------------------------------------------------------------------------------
(* Profiles and invites *)

\* handleRegisterDevice, as far as the profile goes (ensureUser).
RegisterUser(u) ==
    /\ users' = users \cup {u}
    /\ UNCHANGED <<inviteVars, pairs, accepts, sends>>

\* handleCreateInvite: no profile is made, or asked for.
CreateInvite(c, u) ==
    /\ c \notin DOMAIN issued
    /\ issued' = PutItem(issued, c, u)
    /\ open' = open \cup {c}
    /\ UNCHANGED <<users, left, pairs, accepts, sends>>

\* The TTL sweep of DynamoDB deletes an expired invite, sooner or later.
Sweep(c) ==
    /\ c \in open
    /\ left[c] = 0
    /\ open' = open \ {c}
    /\ UNCHANGED <<users, issued, left, pairs, accepts, sends>>

Tick ==
    /\ \E c \in open : left[c] > 0
    /\ left' = [c \in Codes |-> IF c \in open /\ left[c] > 0 THEN left[c] - 1 ELSE left[c]]
    /\ UNCHANGED <<users, issued, open, pairs, accepts, sends>>

------------------------------------------------------------------------------
(* handleAcceptInvite *)

AcceptReply(a, status) == accepts' = [accepts EXCEPT ![a].status = status]

\* ensureUser is a read and, if that finds nothing, a put of the same profile.
AcceptRequest(a) ==
    /\ accepts[a].status = "new"
    /\ \E u \in Users, c \in Codes :
          /\ accepts' = [accepts EXCEPT ![a] =
                            [status |-> "load", user |-> u, code |-> c, timely |-> FALSE]]
          /\ users' = users \cup {u}
    /\ UNCHANGED <<inviteVars, pairs, sends>>

\* Mutant: an invite that is not found is taken for one that is.
AlwaysFound(c) == TRUE

\* inv.ExpiresAt.After(now), of an invite that was found
Redeemable(c) == c \in open /\ left[c] > 0

AcceptLoad(a) ==
    /\ accepts[a].status = "load"
    /\ AcceptReply(a, IF Redeemable(accepts[a].code) THEN "creator" ELSE "404")
    /\ UNCHANGED <<users, inviteVars, pairs, sends>>

\* GetUser of the creator; its ErrNotFound, wrapped, is answered like that of an
\* invite.  `now`, which the deletion compares the ttl with, is read next.
AcceptCreator(a) ==
    /\ accepts[a].status = "creator"
    /\ IF issued[accepts[a].code] \in users
       THEN accepts' = [accepts EXCEPT ![a].status = "redeem",
                                       ![a].timely = left[accepts[a].code] > 0]
       ELSE AcceptReply(a, "404")
    /\ UNCHANGED <<users, inviteVars, pairs, sends>>

\* Mutant: the deletion of the invite is not conditional.
ConsumableAlways(a) == accepts[a].timely

\* attribute_exists(PK) AND ttl > :now
Consumable(a) == accepts[a].code \in open /\ accepts[a].timely

\* Mutant: the creator's copy is left to a second write.
PutOwnCopy(u, v) == pairs' = PutItem(pairs, <<u, v>>, "active")

\* Both copies of a pairing; with oneself, one and the same item, as handlers.go:148-152
\* has it (should DynamoDB refuse the second put of an item, that is AcceptFails).
PutCopies(u, v) == pairs' = PutItem(PutItem(pairs, <<u, v>>, "active"), <<v, u>>, "active")

Redeem(a) ==
    LET u == accepts[a].user
        c == accepts[a].code
    IN  /\ accepts[a].status = "redeem"
        /\ Consumable(a)
        /\ open' = open \ {c}
        /\ PutCopies(u, issued[c])
        /\ UNCHANGED <<users, issued, left, sends>>

\* A user who accepts his own invite is told so after the fact.
AcceptRedeem(a) ==
    /\ Redeem(a)
    /\ AcceptReply(a, IF issued[accepts[a].code] = accepts[a].user THEN "400" ELSE "200")

\* The transaction commits and its answer is lost.
AcceptLost(a) == Redeem(a) /\ AcceptReply(a, "500")

\* Somebody else was faster, or the invite expired since the load.
AcceptTooLate(a) ==
    /\ accepts[a].status = "redeem"
    /\ ~Consumable(a)
    /\ AcceptReply(a, "404")
    /\ UNCHANGED <<users, inviteVars, pairs, sends>>

\* A call to the table fails, without effect.
AcceptFails(a) ==
    /\ accepts[a].status \in {"load", "creator", "redeem"}
    /\ AcceptReply(a, "500")
    /\ UNCHANGED <<users, inviteVars, pairs, sends>>

AcceptStep(a) ==
    \/ AcceptRequest(a) \/ AcceptLoad(a) \/ AcceptCreator(a)
    \/ AcceptRedeem(a) \/ AcceptLost(a) \/ AcceptTooLate(a) \/ AcceptFails(a)

------------------------------------------------------------------------------
(* handleBlockPairing, and the pairing check of handleCreatePage *)

\* BlockPairing writes the copy of the user who blocks, if there is one, and no other.
BlockPairing(u, v) ==
    /\ <<u, v>> \in DOMAIN pairs
    /\ pairs' = PutItem(pairs, <<u, v>>, "blocked")
    /\ UNCHANGED <<users, inviteVars, accepts, sends>>

SendReply(s, status) == sends' = [sends EXCEPT ![s].status = status]

SendRequest(s) ==
    /\ sends[s].status = "new"
    /\ \E u, v \in Users : sends' = [sends EXCEPT ![s] = [status |-> "check", from |-> u, to |-> v]]
    /\ UNCHANGED <<users, inviteVars, pairs, accepts>>

\* Mutant: only a blocked pairing is refused.
MayPageUnlessBlocked(u, v) == ~ (<<u, v>> \in DOMAIN pairs /\ pairs[<<u, v>>] # "active")

\* GetPairing(sender, recipient): the copy of the sender, who asks.
MayPage(u, v) == <<u, v>> \in DOMAIN pairs /\ pairs[<<u, v>>] = "active"

SendCheck(s) ==
    /\ sends[s].status = "check"
    /\ SendReply(s, IF MayPage(sends[s].from, sends[s].to) THEN "create" ELSE "403")
    /\ UNCHANGED <<users, inviteVars, pairs, accepts>>

\* CreatePage, the effect of which PagesApi models.
SendCreate(s) ==
    /\ sends[s].status = "create"
    /\ SendReply(s, "201")
    /\ UNCHANGED <<users, inviteVars, pairs, accepts>>

SendFails(s) ==
    /\ sends[s].status \in {"check", "create"}
    /\ SendReply(s, "500")
    /\ UNCHANGED <<users, inviteVars, pairs, accepts>>

SendStep(s) == SendRequest(s) \/ SendCheck(s) \/ SendCreate(s) \/ SendFails(s)

------------------------------------------------------------------------------

\* Every request is answered: nothing need happen any more.
Rest ==
    /\ \A a \in Accepters : accepts[a].status \in {"200", "400", "404", "500"}
    /\ \A s \in Senders : sends[s].status \in {"201", "403", "500"}
    /\ UNCHANGED vars

Next ==
    \/ \E u \in Users : RegisterUser(u) \/ \E c \in Codes : CreateInvite(c, u)
    \/ \E c \in Codes : Sweep(c)
    \/ Tick
    \/ \E a \in Accepters : AcceptStep(a)
    \/ \E u, v \in Users : BlockPairing(u, v)
    \/ \E s \in Senders : SendStep(s)
    \/ Rest

Spec == Init /\ [][Next]_vars

==============================================================================
