--------------------------- MODULE PairingsProps -----------------------------
(* What invites, pairings and blocks are checked for.                         *)
EXTENDS Pairings

AcceptRec ==
    [status : {"new", "load", "creator", "redeem", "200", "400", "404", "500"},
     user : Users \cup {Nobody}, code : Codes \cup {Nobody}, timely : BOOLEAN]
SendRec ==
    [status : {"new", "check", "create", "201", "403", "500"},
     from : Users \cup {Nobody}, to : Users \cup {Nobody}]

\* The items are what the handlers write, a request is about users and a code, and
\* past its load about an invite that was issued.
TypeOK ==
    /\ users \subseteq Users
    /\ DOMAIN issued \subseteq Codes /\ \A c \in DOMAIN issued : issued[c] \in Users
    /\ open \subseteq DOMAIN issued
    /\ left \in [Codes -> 0..Validity]
    /\ DOMAIN pairs \subseteq Users \X Users
    /\ \A p \in DOMAIN pairs : pairs[p] \in {"active", "blocked"}
    /\ accepts \in [Accepters -> AcceptRec]
    /\ \A a \in Accepters :
          /\ accepts[a].status # "new" => accepts[a].user \in Users /\ accepts[a].code \in Codes
          /\ accepts[a].status \in {"creator", "redeem", "200", "400"} =>
                accepts[a].code \in DOMAIN issued
    /\ sends \in [Senders -> SendRec]
    /\ \A s \in Senders : sends[s].status # "new" => sends[s].from \in Users /\ sends[s].to \in Users

\* model.go:51-52, "stored under BOTH users' partitions": no user is left with half a
\* pairing, and each has the profile his peer's copy takes the name from.
CopiesTogether ==
    \A p \in DOMAIN pairs : <<p[2], p[1]>> \in DOMAIN pairs /\ p[1] \in users

\* store.go:31-32, "consume the invite": of all requests with one code one succeeds at
\* most, the code is gone then, and both users find each other in their lists.
InviteUsedOnce ==
    \A a \in Accepters :
        accepts[a].status \in {"200", "400"} =>
            /\ accepts[a].code \notin open
            /\ <<accepts[a].user, issued[accepts[a].code]>> \in DOMAIN pairs
            /\ <<issued[accepts[a].code], accepts[a].user>> \in DOMAIN pairs
            /\ \A b \in Accepters \ {a} :
                  accepts[b].code = accepts[a].code => accepts[b].status \notin {"200", "400"}

\* The mapping that joins the two copies of a pairing.
Paired == {{p[1], p[2]} : p \in DOMAIN pairs}
Blocks == {p \in DOMAIN pairs : pairs[p] = "blocked"}
Paged  == {<<sends[s].from, sends[s].to>> : s \in {r \in Senders : sends[r].status = "201"}}

Contract == INSTANCE PairingContract WITH
    creator <- issued, paired <- Paired, blocks <- Blocks, paged <- Paged

\* Table and handlers implement the contract: an invite is redeemed once and atomically
\* whoever races for it, a block is undone by a new invite only, and a page goes to a
\* user who is paired with its sender, though check and creation are two calls.
ImplementsContract == Contract!Spec

\* PLAN-LEAN.md:84, "silently drop future pages": no request passes the pairing check
\* while its recipient blocks the sender.
BlockDropsPages ==
    [][\A s \in Senders :
          sends[s].status = "check" /\ sends'[s].status = "create" =>
             LET copy == <<sends[s].to, sends[s].from>>
             IN  copy \in DOMAIN pairs /\ pairs[copy] # "blocked"]_vars

==============================================================================
