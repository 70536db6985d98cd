--------------------------- MODULE PairingsProofs ----------------------------
(* Invites are used once, the copies of a pairing stay together, and the      *)
(* handlers implement PairingContract, for any numbers of users, codes and    *)
(* requests.                                                                  *)
EXTENDS PairingsProps, TLAPS

USE DEF vars, inviteVars

------------------------------------------------------------------------------
(* The invariant *)

\* Who is about to be paired has a profile, and who is about to page, or has paged,
\* was paired with the recipient.
RequestInv ==
    /\ \A a \in Accepters :
          /\ accepts[a].status # "new" => accepts[a].user \in users
          /\ accepts[a].status = "redeem" => issued[accepts[a].code] \in users
    /\ \A s \in Senders :
          sends[s].status \in {"create", "201"} => <<sends[s].from, sends[s].to>> \in DOMAIN pairs

IInv == TypeOK /\ CopiesTogether /\ InviteUsedOnce /\ RequestInv

\* It holds when nobody has done anything yet.
LEMMA InitInv == Init => IInv
<1> SUFFICES ASSUME Init PROVE IInv
  OBVIOUS
<1>1. TypeOK
  BY PairingAssumption DEF Init, TypeOK, AcceptRec, SendRec
<1> QED
  BY <1>1 DEF Init, IInv, CopiesTogether, InviteUsedOnce, RequestInv

------------------------------------------------------------------------------
(* The operations of the table *)

\* A redemption makes both copies active, and touches no other.
LEMMA PutCopiesIs ==
    ASSUME NEW u, NEW v, PutCopies(u, v)
    PROVE  /\ DOMAIN pairs' = DOMAIN pairs \cup {<<u, v>>, <<v, u>>}
           /\ pairs'[<<u, v>>] = "active" /\ pairs'[<<v, u>>] = "active"
           /\ \A p \in DOMAIN pairs \ {<<u, v>>, <<v, u>>} : pairs'[p] = pairs[p]
<1>1. PICK own : own = PutItem(pairs, <<u, v>>, "active")
  OBVIOUS
<1>2. /\ DOMAIN own = DOMAIN pairs \cup {<<u, v>>}
      /\ own[<<u, v>>] = "active"
      /\ \A p \in DOMAIN pairs \ {<<u, v>>} : own[p] = pairs[p]
  BY <1>1 DEF PutItem
<1>3. pairs' = PutItem(own, <<v, u>>, "active")
  BY <1>1 DEF PutCopies
<1>4. /\ DOMAIN pairs' = DOMAIN own \cup {<<v, u>>}
      /\ pairs'[<<v, u>>] = "active"
      /\ \A p \in DOMAIN own \ {<<v, u>>} : pairs'[p] = own[p]
  BY <1>3 DEF PutItem
<1> QED
  BY <1>2, <1>4

------------------------------------------------------------------------------
(* The steps, kind by kind *)

\* What an accept request does to itself: it keeps its user and its code.
LEMMA AcceptReplyIs ==
    ASSUME TypeOK, NEW a \in Accepters, NEW status, AcceptReply(a, status),
           status \in {"load", "creator", "redeem", "200", "400", "404", "500"}
    PROVE  /\ accepts' \in [Accepters -> AcceptRec]
           /\ accepts'[a].status = status
           /\ accepts'[a].user = accepts[a].user /\ accepts'[a].code = accepts[a].code
           /\ \A b \in Accepters \ {a} : accepts'[b] = accepts[b]
BY DEF TypeOK, AcceptReply, AcceptRec

\* Steps that change neither pairings nor requests: profiles, invites, time.
LEMMA InviteSteps ==
    ASSUME IInv, UNCHANGED <<pairs, accepts, sends>>,
           \/ \E u \in Users : RegisterUser(u) \/ \E c \in Codes : CreateInvite(c, u)
           \/ \E c \in Codes : Sweep(c)
           \/ Tick
           \/ UNCHANGED vars
    PROVE  /\ IInv' /\ users \subseteq users'
<1>1. CASE UNCHANGED vars
  BY <1>1 DEF IInv, TypeOK, CopiesTogether, InviteUsedOnce, RequestInv
<1>2. CASE Tick
  <2>1. left' \in [Codes -> 0..Validity]
    BY <1>2, PairingAssumption DEF Tick, IInv, TypeOK
  <2> QED
    BY <1>2, <2>1 DEF Tick, IInv, TypeOK, CopiesTogether, InviteUsedOnce, RequestInv
<1>3. ASSUME NEW u \in Users, RegisterUser(u)
      PROVE  IInv' /\ users \subseteq users'
  BY <1>3 DEF RegisterUser, IInv, TypeOK, CopiesTogether, InviteUsedOnce, RequestInv
<1>4. ASSUME NEW c \in Codes, Sweep(c)
      PROVE  IInv' /\ users \subseteq users'
  BY <1>4 DEF Sweep, IInv, TypeOK, CopiesTogether, InviteUsedOnce, RequestInv
<1>5. ASSUME NEW u \in Users, NEW c \in Codes, CreateInvite(c, u)
      PROVE  IInv' /\ users \subseteq users'
  <2>1. /\ DOMAIN issued' = DOMAIN issued \cup {c} /\ issued'[c] = u
        /\ \A x \in DOMAIN issued : issued'[x] = issued[x]
        /\ c \notin DOMAIN issued
    BY <1>5 DEF CreateInvite, PutItem
  <2>2. open' = open \cup {c} /\ UNCHANGED <<users, left>>
    BY <1>5 DEF CreateInvite
  <2>3. TypeOK'
    BY <2>1, <2>2 DEF IInv, TypeOK
  <2>4. InviteUsedOnce'
    BY <2>1, <2>2 DEF IInv, TypeOK, InviteUsedOnce
  <2>5. RequestInv'
    BY <2>1, <2>2 DEF IInv, TypeOK, RequestInv
  <2> QED
    BY <2>2, <2>3, <2>4, <2>5 DEF IInv, CopiesTogether
<1> QED
  BY <1>1, <1>2, <1>3, <1>4, <1>5 DEF Tick

\* A request that only makes up its mind.
LEMMA AcceptDecides ==
    ASSUME IInv, NEW a \in Accepters,
           AcceptLoad(a) \/ AcceptCreator(a) \/ AcceptTooLate(a) \/ AcceptFails(a)
    PROVE  /\ IInv' /\ UNCHANGED <<users, inviteVars, pairs, sends>>
<1>1. /\ UNCHANGED <<users, inviteVars, pairs, sends>>
      /\ accepts[a].status \in {"load", "creator", "redeem"}
  BY DEF AcceptLoad, AcceptCreator, AcceptTooLate, AcceptFails
<1>2. TypeOK
  BY DEF IInv
<1>3. /\ accepts' \in [Accepters -> AcceptRec]
      /\ accepts'[a].status \in {"creator", "redeem", "404", "500"}
      /\ accepts'[a].status = "creator" => accepts[a].code \in open
      /\ accepts'[a].status = "redeem" =>
            accepts[a].status = "creator" /\ issued[accepts[a].code] \in users
      /\ accepts'[a].user = accepts[a].user /\ accepts'[a].code = accepts[a].code
      /\ \A b \in Accepters \ {a} : accepts'[b] = accepts[b]
  <2>1. CASE AcceptLoad(a)
    <3> DEFINE status == IF Redeemable(accepts[a].code) THEN "creator" ELSE "404"
    <3>1. AcceptReply(a, status) /\ status \in {"creator", "404"}
          /\ (status = "creator" => accepts[a].code \in open)
      BY <2>1 DEF AcceptLoad, Redeemable
    <3> HIDE DEF status
    <3> QED
      BY <1>2, <3>1, AcceptReplyIs
  <2>2. CASE AcceptCreator(a) /\ issued[accepts[a].code] \in users
    <3> DEFINE timely == left[accepts[a].code] > 0
    <3> DEFINE decided == [accepts[a] EXCEPT !.status = "redeem", !.timely = timely]
    <3>1. accepts' = [accepts EXCEPT ![a] = decided] /\ accepts[a].status = "creator"
      BY <2>2, Zenon DEF AcceptCreator
    <3>2. timely \in BOOLEAN
      OBVIOUS
    <3> HIDE DEF timely
    <3>3. /\ decided \in AcceptRec /\ decided.status = "redeem"
          /\ decided.user = accepts[a].user /\ decided.code = accepts[a].code
      BY <1>2, <3>2 DEF TypeOK, AcceptRec
    <3> HIDE DEF decided
    <3> QED
      BY <1>2, <2>2, <3>1, <3>3 DEF TypeOK
  <2>3. CASE AcceptCreator(a) /\ issued[accepts[a].code] \notin users
    BY <1>2, <2>3, AcceptReplyIs DEF AcceptCreator
  <2>4. CASE AcceptTooLate(a) \/ AcceptFails(a)
    BY <1>2, <2>4, AcceptReplyIs DEF AcceptTooLate, AcceptFails
  <2> QED
    BY <2>1, <2>2, <2>3, <2>4
<1>4. TypeOK'
  BY <1>1, <1>2, <1>3 DEF TypeOK
<1>5. InviteUsedOnce'
  BY <1>1, <1>3 DEF IInv, InviteUsedOnce
<1>6. RequestInv'
  BY <1>1, <1>3 DEF IInv, RequestInv
<1>7. CopiesTogether'
  BY <1>1 DEF IInv, CopiesTogether
<1> QED
  BY <1>1, <1>4, <1>5, <1>6, <1>7 DEF IInv

\* A request arrives, and makes sure of its user's profile.
LEMMA AcceptArrives ==
    ASSUME IInv, NEW a \in Accepters, AcceptRequest(a)
    PROVE  IInv' /\ UNCHANGED <<inviteVars, pairs, sends>>
<1>1. PICK u \in Users, c \in Codes :
         /\ accepts' = [accepts EXCEPT ![a] =
                           [status |-> "load", user |-> u, code |-> c, timely |-> FALSE]]
         /\ users' = users \cup {u}
  BY DEF AcceptRequest
<1>2. UNCHANGED <<inviteVars, pairs, sends>>
  BY DEF AcceptRequest
<1>3. /\ accepts' \in [Accepters -> AcceptRec]
      /\ accepts'[a].status = "load" /\ accepts'[a].user = u /\ accepts'[a].code = c
      /\ \A b \in Accepters \ {a} : accepts'[b] = accepts[b]
  BY <1>1 DEF IInv, TypeOK, AcceptRec
<1>4. TypeOK'
  BY <1>1, <1>2, <1>3 DEF IInv, TypeOK
<1>5. InviteUsedOnce'
  BY <1>2, <1>3 DEF IInv, InviteUsedOnce
<1>6. RequestInv' /\ CopiesTogether'
  BY <1>1, <1>2, <1>3 DEF IInv, RequestInv, CopiesTogether
<1> QED
  BY <1>2, <1>4, <1>5, <1>6 DEF IInv

\* What a redemption does: it uses up the code, and pairs two users with profiles.
LEMMA RedeemIs ==
    ASSUME IInv, NEW a \in Accepters, Redeem(a)
    PROVE  LET u == accepts[a].user
               c == accepts[a].code
               v == issued[c]
           IN  /\ u \in Users /\ u \in users /\ v \in Users /\ v \in users
               /\ c \in Codes /\ c \in DOMAIN issued
               /\ c \in open /\ open' = open \ {c}
               /\ DOMAIN pairs' = DOMAIN pairs \cup {<<u, v>>, <<v, u>>}
               /\ pairs'[<<u, v>>] = "active" /\ pairs'[<<v, u>>] = "active"
               /\ \A p \in DOMAIN pairs \ {<<u, v>>, <<v, u>>} : pairs'[p] = pairs[p]
               /\ UNCHANGED <<users, issued, left, sends>>
<1> DEFINE u == accepts[a].user
           c == accepts[a].code
           v == issued[c]
<1>1. /\ accepts[a].status = "redeem" /\ c \in open /\ open' = open \ {c}
      /\ PutCopies(u, v) /\ UNCHANGED <<users, issued, left, sends>>
  BY DEF Redeem, Consumable
<1>2. u \in Users /\ u \in users /\ v \in Users /\ v \in users /\ c \in Codes /\ c \in DOMAIN issued
  BY <1>1 DEF IInv, TypeOK, RequestInv
<1> HIDE DEF u, v
<1>3. /\ DOMAIN pairs' = DOMAIN pairs \cup {<<u, v>>, <<v, u>>}
      /\ pairs'[<<u, v>>] = "active" /\ pairs'[<<v, u>>] = "active"
      /\ \A p \in DOMAIN pairs \ {<<u, v>>, <<v, u>>} : pairs'[p] = pairs[p]
  BY <1>1, PutCopiesIs
<1> QED
  BY <1>1, <1>2, <1>3 DEF u, v

\* A redemption, whether its answer arrives or not.
LEMMA RedeemInv ==
    ASSUME IInv, NEW a \in Accepters, AcceptRedeem(a) \/ AcceptLost(a)
    PROVE  IInv'
<1> DEFINE u == accepts[a].user
           c == accepts[a].code
           v == issued[c]
<1>1. Redeem(a) /\ accepts[a].status = "redeem"
  BY DEF AcceptRedeem, AcceptLost, Redeem
<1>2. /\ u \in Users /\ u \in users /\ v \in Users /\ v \in users
      /\ c \in Codes /\ c \in DOMAIN issued
      /\ c \in open /\ open' = open \ {c}
      /\ DOMAIN pairs' = DOMAIN pairs \cup {<<u, v>>, <<v, u>>}
      /\ pairs'[<<u, v>>] = "active" /\ pairs'[<<v, u>>] = "active"
      /\ \A p \in DOMAIN pairs \ {<<u, v>>, <<v, u>>} : pairs'[p] = pairs[p]
      /\ UNCHANGED <<users, issued, left, sends>>
  BY <1>1, RedeemIs
<1>3. /\ accepts' \in [Accepters -> AcceptRec]
      /\ accepts'[a].status \in {"200", "400", "500"}
      /\ accepts'[a].user = u /\ accepts'[a].code = c
      /\ \A b \in Accepters \ {a} : accepts'[b] = accepts[b]
  <2> DEFINE answer == IF v = u THEN "400" ELSE "200"
  <2>1. AcceptReply(a, answer) \/ AcceptReply(a, "500")
    BY DEF AcceptRedeem, AcceptLost
  <2>2. answer \in {"400", "200"}
    OBVIOUS
  <2> HIDE DEF answer
  <2> QED
    BY <2>1, <2>2, AcceptReplyIs DEF IInv
<1> HIDE DEF u, v
<1>4. TypeOK'
  BY <1>2, <1>3 DEF IInv, TypeOK
<1>5. CopiesTogether'
  <2>1. ASSUME NEW p \in DOMAIN pairs'
        PROVE  <<p[2], p[1]>> \in DOMAIN pairs' /\ p[1] \in users
    BY <1>2, <2>1 DEF IInv, CopiesTogether
  <2> QED
    BY <1>2, <2>1 DEF CopiesTogether
<1>6. \A b \in Accepters \ {a} : accepts[b].code = c => accepts[b].status \notin {"200", "400"}
  BY <1>2 DEF IInv, InviteUsedOnce
<1>7. InviteUsedOnce'
  BY <1>2, <1>3, <1>6 DEF IInv, InviteUsedOnce, v
<1>8. RequestInv'
  BY <1>1, <1>2, <1>3 DEF IInv, RequestInv
<1> QED
  BY <1>4, <1>5, <1>7, <1>8 DEF IInv

\* A block changes the status of one copy.
LEMMA BlockInv ==
    ASSUME IInv, NEW u \in Users, NEW v \in Users, BlockPairing(u, v)
    PROVE  /\ IInv' /\ DOMAIN pairs' = DOMAIN pairs
           /\ <<u, v>> \in DOMAIN pairs /\ pairs'[<<u, v>>] = "blocked"
           /\ \A p \in DOMAIN pairs \ {<<u, v>>} : pairs'[p] = pairs[p]
<1>1. /\ <<u, v>> \in DOMAIN pairs
      /\ pairs' = PutItem(pairs, <<u, v>>, "blocked")
      /\ UNCHANGED <<users, inviteVars, accepts, sends>>
  BY DEF BlockPairing
<1>2. /\ DOMAIN pairs' = DOMAIN pairs
      /\ pairs'[<<u, v>>] = "blocked"
      /\ \A p \in DOMAIN pairs \ {<<u, v>>} : pairs'[p] = pairs[p]
  BY <1>1 DEF PutItem
<1>3. TypeOK'
  BY <1>1, <1>2 DEF IInv, TypeOK
<1>4. CopiesTogether' /\ InviteUsedOnce' /\ RequestInv'
  BY <1>1, <1>2 DEF IInv, CopiesTogether, InviteUsedOnce, RequestInv
<1> QED
  BY <1>1, <1>2, <1>3, <1>4 DEF IInv

\* A page goes to a user who is paired with its sender.
LEMMA SendInv ==
    ASSUME IInv, NEW s \in Senders, SendStep(s)
    PROVE  /\ IInv' /\ UNCHANGED <<users, inviteVars, pairs, accepts>>
           /\ \A r \in Senders \ {s} : sends'[r] = sends[r]
           /\ \/ sends[s].status # "201" /\ sends'[s].status # "201"
              \/ /\ sends[s].status = "create" /\ sends'[s].status = "201"
                 /\ sends'[s].from = sends[s].from /\ sends'[s].to = sends[s].to
<1>1. UNCHANGED <<users, inviteVars, pairs, accepts>>
  BY DEF SendStep, SendRequest, SendCheck, SendCreate, SendFails
<1>2. sends \in [Senders -> SendRec]
  BY DEF IInv, TypeOK
<1>3. /\ sends' \in [Senders -> SendRec]
      /\ \A r \in Senders \ {s} : sends'[r] = sends[r]
      /\ sends'[s].from \in Users /\ sends'[s].to \in Users
      /\ sends'[s].status \in {"create", "201"} =>
            <<sends'[s].from, sends'[s].to>> \in DOMAIN pairs
      /\ \/ sends[s].status # "201" /\ sends'[s].status # "201"
         \/ /\ sends[s].status = "create" /\ sends'[s].status = "201"
            /\ sends'[s].from = sends[s].from /\ sends'[s].to = sends[s].to
  <2>1. CASE SendRequest(s)
    BY <1>2, <2>1 DEF SendRequest, SendRec
  <2>2. CASE ~SendRequest(s)
    <3>1. PICK status \in {"create", "201", "403", "500"} :
             /\ SendReply(s, status)
             /\ status = "create" => MayPage(sends[s].from, sends[s].to)
             /\ status = "201" => sends[s].status = "create"
             /\ sends[s].status \in {"check", "create"}
      BY <2>2 DEF SendStep, SendCheck, SendCreate, SendFails
    <3>2. /\ sends' \in [Senders -> SendRec] /\ sends'[s].status = status
          /\ sends'[s].from = sends[s].from /\ sends'[s].to = sends[s].to
          /\ \A r \in Senders \ {s} : sends'[r] = sends[r]
      BY <1>2, <3>1 DEF SendReply, SendRec
    <3>3. sends[s].from \in Users /\ sends[s].to \in Users
      BY <3>1 DEF IInv, TypeOK
    <3> QED
      BY <3>1, <3>2, <3>3 DEF MayPage, IInv, RequestInv
  <2> QED
    BY <2>1, <2>2
<1>4. TypeOK'
  BY <1>1, <1>3 DEF IInv, TypeOK
<1>5. CopiesTogether' /\ InviteUsedOnce' /\ RequestInv'
  BY <1>1, <1>3 DEF IInv, CopiesTogether, InviteUsedOnce, RequestInv
<1> QED
  BY <1>1, <1>3, <1>4, <1>5 DEF IInv

------------------------------------------------------------------------------
(* The invariant is inductive *)

\* Each kind of step preserves it.
LEMMA InvStep == IInv /\ [Next]_vars => IInv'
<1> SUFFICES ASSUME IInv, [Next]_vars PROVE IInv'
  OBVIOUS
<1>1. CASE \/ \E u \in Users : RegisterUser(u) \/ \E c \in Codes : CreateInvite(c, u)
           \/ \E c \in Codes : Sweep(c)
           \/ Tick \/ Rest \/ UNCHANGED vars
  BY <1>1, InviteSteps DEF RegisterUser, CreateInvite, Sweep, Tick, Rest
<1>2. ASSUME NEW a \in Accepters, AcceptStep(a)
      PROVE  IInv'
  BY <1>2, AcceptArrives, AcceptDecides, RedeemInv DEF AcceptStep
<1> QED
  BY <1>1, <1>2, BlockInv, SendInv DEF Next

\* IInv holds of every reachable state.
THEOREM IInvHolds == Spec => []IInv
BY InitInv, InvStep, PTL DEF Spec

\* The rows are what the handlers write, and a request past its load names an invite that
\* was issued (TypeOK).
THEOREM PairingsTypeCorrect == Spec => []TypeOK
<1>1. IInv => TypeOK
  BY DEF IInv
<1> QED
  BY <1>1, IInvHolds, PTL

\* No code is redeemed by two requests, and whoever is told of a pairing has it, on
\* both sides (InviteUsedOnce).
THEOREM InviteUsedOnceHolds == Spec => []InviteUsedOnce
<1>1. IInv => InviteUsedOnce
  BY DEF IInv
<1> QED
  BY <1>1, IInvHolds, PTL

\* No user is ever left with half a pairing, or paired with one who has no profile
\* (CopiesTogether).
THEOREM CopiesTogetherHolds == Spec => []CopiesTogether
<1>1. IInv => CopiesTogether
  BY DEF IInv
<1> QED
  BY <1>1, IInvHolds, PTL

------------------------------------------------------------------------------
(* The steps implement the contract *)

\* A redemption is one step of the contract.
LEMMA RedeemContract ==
    ASSUME IInv, NEW a \in Accepters, Redeem(a)
    PROVE  Contract!Next
<1> DEFINE u == accepts[a].user
           c == accepts[a].code
           v == issued[c]
<1>1. /\ u \in Users /\ v \in Users /\ c \in Codes
      /\ c \in open /\ open' = open \ {c}
      /\ DOMAIN pairs' = DOMAIN pairs \cup {<<u, v>>, <<v, u>>}
      /\ pairs'[<<u, v>>] = "active" /\ pairs'[<<v, u>>] = "active"
      /\ \A p \in DOMAIN pairs \ {<<u, v>>, <<v, u>>} : pairs'[p] = pairs[p]
      /\ UNCHANGED <<users, issued, left, sends>>
  BY RedeemIs
<1> HIDE DEF u, c
<1>2. Paired' = Paired \cup {{u, v}}
  <2> HIDE DEF v
  <2>1. ASSUME NEW p \in DOMAIN pairs' PROVE {p[1], p[2]} \in Paired \cup {{u, v}}
    BY <1>1, <2>1 DEF Paired
  <2>2. ASSUME NEW p \in DOMAIN pairs PROVE {p[1], p[2]} \in Paired'
    BY <1>1, <2>2 DEF Paired
  <2>3. {u, v} \in Paired'
    <3>1. <<u, v>> \in DOMAIN pairs' /\ {u, v} = {<<u, v>>[1], <<u, v>>[2]}
      BY <1>1
    <3> QED
      BY <3>1 DEF Paired
  <2>4. Paired' \subseteq Paired \cup {{u, v}}
    BY <2>1 DEF Paired
  <2>5. Paired \subseteq Paired'
    BY <2>2 DEF Paired
  <2> QED
    BY <2>3, <2>4, <2>5
<1>3. Blocks' = Blocks \ {<<u, v>>, <<v, u>>}
  <2> HIDE DEF v
  <2> QED
    BY <1>1 DEF Blocks
<1>4. Paged' = Paged
  BY <1>1 DEF Paged
<1>5. Contract!Redeem(c, u)
  BY <1>1, <1>2, <1>3, <1>4 DEF Contract!Redeem, v
<1> QED
  BY <1>1, <1>5 DEF Contract!Next

\* So is a block.
LEMMA BlockContract ==
    ASSUME IInv, NEW u \in Users, NEW v \in Users, BlockPairing(u, v)
    PROVE  Contract!Next
<1>1. /\ DOMAIN pairs' = DOMAIN pairs
      /\ <<u, v>> \in DOMAIN pairs /\ pairs'[<<u, v>>] = "blocked"
      /\ \A p \in DOMAIN pairs \ {<<u, v>>} : pairs'[p] = pairs[p]
  BY BlockInv
<1>2. UNCHANGED <<issued, open, sends>>
  BY DEF BlockPairing
<1>3. {u, v} \in Paired
  <2>1. {u, v} = {<<u, v>>[1], <<u, v>>[2]}
    OBVIOUS
  <2> QED
    BY <1>1, <2>1 DEF Paired
<1>4. Paired' = Paired /\ Paged' = Paged
  BY <1>1, <1>2 DEF Paired, Paged
<1>5. Blocks' = Blocks \cup {<<u, v>>}
  BY <1>1 DEF Blocks
<1>6. Contract!Block(u, v)
  BY <1>2, <1>3, <1>4, <1>5 DEF Contract!Block
<1> QED
  BY <1>6 DEF Contract!Next

\* The creation of a page is a step of the contract; what goes before is none.
LEMMA SendContract ==
    ASSUME IInv, NEW s \in Senders, SendStep(s)
    PROVE  [Contract!Next]_(Contract!vars)
<1> USE DEF Contract!vars
<1>1. /\ UNCHANGED <<issued, open, pairs>>
      /\ \A r \in Senders \ {s} : sends'[r] = sends[r]
  BY SendInv
<1>2. Paired' = Paired /\ Blocks' = Blocks
  BY <1>1 DEF Paired, Blocks
<1>3. CASE sends[s].status # "201" /\ sends'[s].status # "201"
  <2>1. Paged' = Paged
    BY <1>1, <1>3 DEF Paged
  <2> QED
    BY <1>1, <1>2, <2>1
<1>4. CASE /\ sends[s].status = "create" /\ sends'[s].status = "201"
           /\ sends'[s].from = sends[s].from /\ sends'[s].to = sends[s].to
  <2> DEFINE u == sends[s].from
             v == sends[s].to
  <2>1. <<u, v>> \in DOMAIN pairs /\ u \in Users /\ v \in Users
    BY <1>4 DEF IInv, RequestInv, TypeOK
  <2>2. Paged' = Paged \cup {<<u, v>>}
    BY <1>1, <1>4 DEF Paged
  <2> HIDE DEF u, v
  <2>3. {u, v} \in Paired
    <3>1. {u, v} = {<<u, v>>[1], <<u, v>>[2]}
      OBVIOUS
    <3> QED
      BY <2>1, <3>1 DEF Paired
  <2>4. Contract!Page(u, v)
    BY <1>1, <1>2, <2>2, <2>3 DEF Contract!Page
  <2> QED
    BY <2>1, <2>4 DEF Contract!Next
<1> QED
  BY <1>3, <1>4, SendInv

\* Every step is a step of the contract, or a stutter.
LEMMA ContractStep ==
    ASSUME IInv, [Next]_vars
    PROVE  [Contract!Next]_(Contract!vars)
<1> USE DEF Contract!vars
<1>1. ASSUME NEW c \in Codes, NEW u \in Users, CreateInvite(c, u)
      PROVE  [Contract!Next]_(Contract!vars)
  <2>1. Contract!Invite(c, u)
    BY <1>1 DEF CreateInvite, PutItem, Contract!Invite, Paired, Blocks, Paged
  <2> QED
    BY <2>1 DEF Contract!Next
<1>2. ASSUME NEW c \in Codes, Sweep(c)
      PROVE  [Contract!Next]_(Contract!vars)
  <2>1. Contract!Lapse(c)
    BY <1>2 DEF Sweep, Contract!Lapse, Paired, Blocks, Paged
  <2> QED
    BY <2>1 DEF Contract!Next
<1>3. ASSUME NEW a \in Accepters, AcceptStep(a)
      PROVE  [Contract!Next]_(Contract!vars)
  <2>1. CASE Redeem(a)
    BY <2>1, RedeemContract
  <2>2. CASE ~Redeem(a)
    <3>1. UNCHANGED <<issued, open, pairs, sends>>
      BY <1>3, <2>2, AcceptArrives, AcceptDecides DEF AcceptStep, AcceptRedeem, AcceptLost
    <3> QED
      BY <3>1 DEF Paired, Blocks, Paged
  <2> QED
    BY <2>1, <2>2
<1>4. CASE \/ \E u \in Users : RegisterUser(u)
           \/ Tick \/ Rest \/ UNCHANGED vars
  <2>1. UNCHANGED <<issued, open, pairs, sends>>
    BY <1>4 DEF RegisterUser, Tick, Rest
  <2> QED
    BY <2>1 DEF Paired, Blocks, Paged
<1> QED
  BY <1>1, <1>2, <1>3, <1>4, BlockContract, SendContract DEF Next

\* Table and handlers implement the pairing contract (ImplementsContract): an invite is
\* redeemed once and atomically, a block is undone by a new invite only, and a page
\* goes to a user who is paired with its sender.
THEOREM PairingsImplementContract == Spec => ImplementsContract
<1>1. Init => Contract!Init
  BY DEF Init, Contract!Init, Paired, Blocks, Paged
<1>2. IInv /\ [Next]_vars => [Contract!Next]_(Contract!vars)
  BY ContractStep
<1> QED
  BY <1>1, <1>2, IInvHolds, PTL DEF Spec, ImplementsContract, Contract!Spec

==============================================================================
