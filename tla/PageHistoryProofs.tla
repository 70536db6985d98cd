-------------------------- MODULE PageHistoryProofs --------------------------
(* What a listing or a timeline shows, for any number of pages, readers and   *)
(* users, and for any limit: both index queries, made at two moments, the     *)
(* merge of their answers and the cut after it.                               *)
EXTENDS PageHistoryProps, FiniteSetTheorems, SequenceTheorems, TLAPS

USE DEF vars, tableVars

------------------------------------------------------------------------------
(* Seconds *)

\* A later instant is in no earlier second.
LEMMA SecondMonotone ==
    ASSUME NEW s \in Int, NEW t \in Int
    PROVE  /\ Second(s) \in Int
           /\ s <= t => Second(s) <= Second(t)
<1>1. TicksPerSecond \in Nat \ {0}
  BY HistoryAssumption
<1> DEFINE k == TicksPerSecond
<1>2. /\ Second(s) \in Int /\ Second(t) \in Int
      /\ s = (k * Second(s)) + (s % k) /\ 0 <= s % k /\ s % k < k /\ s % k \in Int
      /\ t = (k * Second(t)) + (t % k) /\ 0 <= t % k /\ t % k < k /\ t % k \in Int
  BY <1>1 DEF Second
<1> HIDE DEF k
<1>3. ASSUME NEW a \in Int, NEW b \in Int, a + 1 <= b
      PROVE  k * a + k <= k * b
  BY <1>1, <1>3 DEF k
<1>4. Second(t) + 1 <= Second(s) => k * Second(t) + k <= k * Second(s)
  BY <1>2, <1>3
<1> DEFINE ks == k * Second(s)
           kt == k * Second(t)
<1>5. ks \in Int /\ kt \in Int /\ k \in Int
  BY <1>1, <1>2 DEF k
<1>6. ~(Second(t) + 1 <= Second(s)) => Second(s) <= Second(t)
  BY <1>2
<1>7. /\ s = ks + (s % k) /\ t = kt + (t % k)
      /\ Second(t) + 1 <= Second(s) => kt + k <= ks
  BY <1>2, <1>4
<1> HIDE DEF ks, kt
<1> QED
  BY <1>2, <1>5, <1>6, <1>7

------------------------------------------------------------------------------
(* The invariant *)

\* What the table, its indexes and the clock are.
Tables ==
    /\ now \in 0..MaxTime
    /\ created \in [PageIds -> Times \cup {None}]
    /\ pages \subseteq PageIds /\ inbox \subseteq pages /\ sent \subseteq pages
    /\ \A p \in pages : created[p] # None
    /\ IsFiniteSet(inbox) /\ IsFiniteSet(sent)

\* The pages of a request's answer.
Pages(rd) == {rd.pages[i] : i \in 1..Len(rd.pages)}

ReadRec ==
    [status : {"new", "inbox", "sent", "200", "viewed", "404", "500"},
     user : Users \cup {None}, since : Int \cup {None},
     found : SUBSET PageIds, due : SUBSET PageIds,
     pages : Seq(PageIds), timeline : Seq([at : Int, type : {"created", "push_attempt"}])]

\* What a request may know.
Known(rd) ==
    /\ rd \in ReadRec
    /\ rd.since \in Times \cup {None}
    /\ rd.found \subseteq inbox
    /\ rd.due \subseteq inbox \cup sent
    /\ Pages(rd) \subseteq inbox \cup sent
    /\ rd.timeline \in Seq([at : Times, type : {"created", "push_attempt"}])

\* A query's answer lacks a page that was asked for only if it is full, of pages that
\* are in that page's second or in later ones.
Covers(found, asked) ==
    \A p \in asked \ found :
        /\ Cardinality(found) = Limit
        /\ \A q \in found : Second(created[p]) <= Second(created[q])

\* Until the second query, what is due is still in the caller's partitions, and what
\* the first query found covers the pages of the inbox that are due.
InboxDue(rd) == {p \in rd.due : Recipient[p] = rd.user /\ KeyAfter(p, rd.since)}

Asking(rd) ==
    /\ rd.status \in {"inbox", "sent"} =>
           rd.due \subseteq InboxOf(rd.user) \cup SentOf(rd.user)
    /\ rd.status = "sent" =>
           /\ \A p \in rd.found : Recipient[p] = rd.user /\ KeyAfter(p, rd.since)
           /\ Covers(rd.found, InboxDue(rd))

\* ListingSound, ListingComplete and TimelineInOrder, of one request.
Sound(rd) ==
    rd.status = "200" =>
        /\ Len(rd.pages) <= Limit /\ Cardinality(Pages(rd)) = Len(rd.pages)
        /\ \A i \in 1..Len(rd.pages) :
              /\ rd.user \in {Sender[rd.pages[i]], Recipient[rd.pages[i]]}
              /\ rd.since # None =>
                     Second(created[rd.pages[i]]) >= Second(rd.since)
        /\ \A i \in 1..Len(rd.pages) - 1 : created[rd.pages[i]] >= created[rd.pages[i + 1]]

Complete(rd) ==
    rd.status = "200" =>
        \A p \in rd.due \ Pages(rd) :
            InWindow(p, rd.user, rd.since) =>
                /\ Len(rd.pages) = Limit
                /\ \A q \in Pages(rd) : Second(created[q]) >= Second(created[p])

InOrder(rd) ==
    \A i, j \in 1..Len(rd.timeline) :
        i < j => Second(rd.timeline[i].at) <= Second(rd.timeline[j].at)

ReadInv(rd) == Known(rd) /\ Asking(rd) /\ Sound(rd) /\ Complete(rd) /\ InOrder(rd)

IInv ==
    /\ Tables
    /\ reads \in [Readers -> ReadRec]
    /\ \A r \in Readers : ReadInv(reads[r])

\* IInv is the runs' invariants and more.
LEMMA IInvImplies == IInv => TypeOK /\ ListingSound /\ ListingComplete /\ TimelineInOrder
<1> SUFFICES ASSUME IInv PROVE TypeOK /\ ListingSound /\ ListingComplete /\ TimelineInOrder
  OBVIOUS
<1>1. TypeOK
  BY DEF IInv, Tables, ReadInv, Known, Pages, ReadRec, TypeOK, Listed
<1>2. ListingSound
  BY DEF IInv, ReadInv, Sound, Pages, ListingSound, Listed
<1>3. ListingComplete
  BY DEF IInv, ReadInv, Complete, Pages, ListingComplete, Listed
<1>4. TimelineInOrder
  BY DEF IInv, ReadInv, InOrder, TimelineInOrder
<1> QED
  BY <1>1, <1>2, <1>3, <1>4

\* A page an index holds has its time.
LEMMA IndexedAt ==
    ASSUME Tables, NEW p \in inbox \cup sent
    PROVE  p \in PageIds /\ p \in pages /\ created[p] \in 0..now /\ created[p] \in Int
BY DEF Tables, Times

\* IInv holds at first.
LEMMA InitInv == Init => IInv
<1> SUFFICES ASSUME Init PROVE IInv
  OBVIOUS
<1>1. Tables
  BY HistoryAssumption, FS_EmptySet DEF Init, Tables, Times
<1>2. <<>> \in Seq(PageIds) /\ Len(<<>>) = 0
      /\ \A S : <<>> \in Seq(S)
  OBVIOUS
<1>3. /\ NewRead \in ReadRec /\ NewRead.status = "new" /\ NewRead.since = None
      /\ NewRead.found = {} /\ NewRead.due = {} /\ NewRead.pages = <<>>
      /\ NewRead.timeline = <<>>
  BY DEF NewRead, ReadRec
<1>4. Pages(NewRead) = {}
  BY <1>2, <1>3 DEF Pages
<1>5. ReadInv(NewRead)
  BY <1>2, <1>3, <1>4 DEF ReadInv, Known, Asking, Sound, Complete, InOrder
<1> QED
  BY <1>1, <1>3, <1>5 DEF IInv, Init


------------------------------------------------------------------------------
(* The table grows under the requests *)

\* What every step leaves: no page is forgotten, and none changes its time.
Grows ==
    /\ now <= now'
    /\ pages \subseteq pages' /\ inbox \subseteq inbox' /\ sent \subseteq sent'
    /\ \A p \in pages : created'[p] = created[p]

TableStep ==
    \/ Tick
    \/ \E p \in PageIds : CreatePage(p) \/ IndexInbox(p) \/ IndexSent(p)

\* A step of the table or of an index keeps them what they are.
LEMMA TableSteps ==
    ASSUME Tables, TableStep
    PROVE  Tables' /\ Grows /\ reads' = reads
<1>1. now \in Int /\ 0 <= now /\ now <= MaxTime /\ MaxTime \in Int /\ None \notin Int
  BY HistoryAssumption DEF Tables
<1>2. CASE Tick
  BY <1>1, <1>2 DEF Tables, Tick, Grows, Times
<1>3. ASSUME NEW p \in PageIds, CreatePage(p)
      PROVE  Tables' /\ Grows /\ reads' = reads
  <2>1. PICK at \in 0..now : created' = [created EXCEPT ![p] = at]
    BY <1>3 DEF CreatePage
  <2> QED
    BY <1>1, <1>3, <2>1 DEF Tables, CreatePage, Grows, Times
<1>4. ASSUME NEW p \in PageIds, IndexInbox(p)
      PROVE  Tables' /\ Grows /\ reads' = reads
  BY <1>1, <1>4, FS_AddElement DEF Tables, IndexInbox, Grows, Times
<1>5. ASSUME NEW p \in PageIds, IndexSent(p)
      PROVE  Tables' /\ Grows /\ reads' = reads
  BY <1>1, <1>5, FS_AddElement DEF Tables, IndexSent, Grows, Times
<1> QED
  BY <1>2, <1>3, <1>4, <1>5 DEF TableStep

\* What a request knows and what it is answered stays true as the table grows: an index
\* only gains pages, and a page's time is never written again.
LEMMA ReadKept ==
    ASSUME Tables, Tables', Grows, NEW rd, ReadInv(rd)
    PROVE  ReadInv(rd)'
<1>1. /\ rd \in ReadRec /\ rd.since \in Times \cup {None}
      /\ rd.found \subseteq inbox /\ rd.due \subseteq inbox \cup sent
      /\ Pages(rd) \subseteq inbox \cup sent
  BY DEF ReadInv, Known
<1>2. Times \subseteq Times'
  BY DEF Grows, Times, Tables
<1>3. \A p \in inbox \cup sent : created'[p] = created[p]
  BY DEF Grows, Tables
<1>4. Known(rd)'
  <2>1. rd.timeline \in Seq([at : Times', type : {"created", "push_attempt"}])
    <3> DEFINE S == [at : Times, type : {"created", "push_attempt"}]
               T == [at : Times', type : {"created", "push_attempt"}]
    <3>1. S \subseteq T
      BY <1>2
    <3>2. rd.timeline \in Seq(S)
      BY DEF ReadInv, Known
    <3> HIDE DEF S, T
    <3>3. rd.timeline \in Seq(T)
      BY <3>1, <3>2, SeqMonotonic
    <3> QED
      BY <3>3 DEF T
  <2> QED
    BY <1>1, <1>2, <2>1 DEF Known, Pages, Grows
<1>5. \A p \in inbox \cup sent : KeyAfter(p, rd.since)' <=> KeyAfter(p, rd.since)
  BY <1>3 DEF KeyAfter, Second
<1>6. InboxDue(rd)' = InboxDue(rd)
  BY <1>1, <1>5 DEF InboxDue
<1>7. Covers(rd.found, InboxDue(rd)) => Covers(rd.found, InboxDue(rd))'
  BY <1>1, <1>3, <1>6 DEF Covers, InboxDue, Second
<1>8. Asking(rd)'
  <2>1. Asking(rd)
    BY DEF ReadInv
  <2>2. InboxOf(rd.user) \subseteq InboxOf(rd.user)' /\ SentOf(rd.user) \subseteq SentOf(rd.user)'
    BY DEF InboxOf, SentOf, Grows
  <2> QED
    BY <1>1, <1>5, <1>7, <2>1, <2>2 DEF Asking
<1>9. \A i \in 1..Len(rd.pages) : rd.pages[i] \in inbox \cup sent
  BY <1>1 DEF Pages
<1>10. Sound(rd)'
  <2>1. Sound(rd)
    BY DEF ReadInv
  <2>2. \A i \in 1..Len(rd.pages) - 1 : i \in 1..Len(rd.pages) /\ i + 1 \in 1..Len(rd.pages)
    <3>1. Len(rd.pages) \in Nat
      BY <1>1 DEF ReadRec
    <3> QED
      BY <3>1
  <2> QED
    BY <1>3, <1>9, <2>1, <2>2 DEF Sound, Pages, Second
<1>11. Complete(rd)'
  <2>1. Complete(rd)
    BY DEF ReadInv
  <2>2. \A p \in rd.due : InWindow(p, rd.user, rd.since)' <=> InWindow(p, rd.user, rd.since)
    BY <1>1, <1>3 DEF InWindow
  <2> QED
    BY <1>1, <1>3, <2>1, <2>2 DEF Complete, Pages, Second
<1>12. InOrder(rd)'
  BY DEF ReadInv, InOrder, Second
<1> QED
  BY <1>4, <1>8, <1>10, <1>11, <1>12 DEF ReadInv


------------------------------------------------------------------------------
(* What one request does *)

\* It is enough that the request that takes the step keeps the invariant.
LEMMA OneRead ==
    ASSUME IInv, NEW r \in Readers, NEW rd, ReadInv(rd),
           UNCHANGED <<now, tableVars>>, reads' = [reads EXCEPT ![r] = rd]
    PROVE  IInv'
<1>1. Tables' /\ Grows
  BY DEF IInv, Tables, Grows, Times
<1>2. ASSUME NEW x, ReadInv(x) PROVE ReadInv(x)'
  BY <1>1, <1>2, ReadKept DEF IInv
<1>3. rd \in ReadRec
  BY DEF ReadInv, Known
<1>4. reads' \in [Readers -> ReadRec]
  BY <1>3 DEF IInv
<1>5. ASSUME NEW q \in Readers PROVE ReadInv(reads[q])'
  <2>1. PICK x : x = reads'[q]
    OBVIOUS
  <2>2. ReadInv(x)
    BY <2>1 DEF IInv
  <2>3. ReadInv(x)'
    BY <1>2, <2>2
  <2> QED
    BY <2>1, <2>3 DEF ReadInv, Known, Asking, Sound, Complete, InOrder, InboxDue, Pages
<1> QED
  BY <1>1, <1>4, <1>5 DEF IInv

\* The request comes in: everything the indexes hold for the caller is due.
LEMMA ListRequestInv ==
    ASSUME IInv, NEW r \in Readers, ListRequest(r)
    PROVE  IInv'
<1>1. PICK u \in Users, since \in {None} \cup 0..now :
         reads' = [reads EXCEPT ![r].status = "inbox", ![r].user = u, ![r].since = since,
                                ![r].due = InboxOf(u) \cup SentOf(u)]
  BY DEF ListRequest
<1> DEFINE old == reads[r]
           due == InboxOf(u) \cup SentOf(u)
           rd  == [old EXCEPT !.status = "inbox", !.user = u, !.since = since, !.due = due]
<1>2. old \in ReadRec /\ ReadInv(old) /\ old.status = "new"
  BY DEF IInv, ListRequest
<1>3. due \subseteq inbox \cup sent /\ due \subseteq PageIds
  BY DEF InboxOf, SentOf, IInv, Tables
<1>4. since \in Times \cup {None} /\ since \in Int \cup {None}
  BY DEF IInv, Tables, Times
<1>5. reads' = [reads EXCEPT ![r] = rd]
  BY <1>1
<1> HIDE DEF old, due
<1>6. /\ rd \in ReadRec /\ rd.status = "inbox" /\ rd.user = u /\ rd.since = since
      /\ rd.due = due /\ rd.found = old.found /\ rd.pages = old.pages
      /\ rd.timeline = old.timeline
  BY <1>2, <1>3, <1>4 DEF ReadRec
<1> HIDE DEF rd
<1>7. Known(rd)
  BY <1>2, <1>3, <1>4, <1>6 DEF ReadInv, Known, Pages
<1>8. Asking(rd) /\ Sound(rd) /\ Complete(rd) /\ InOrder(rd)
  BY <1>2, <1>6 DEF ReadInv, Asking, Sound, Complete, InOrder, due
<1>9. ReadInv(rd)
  BY <1>7, <1>8 DEF ReadInv
<1> QED
  BY <1>5, <1>9, OneRead DEF ListRequest

\* A query returns the last keys of what it asked for, so it covers it.
LEMMA NewestCovers ==
    ASSUME Tables, NEW all, all \subseteq inbox \cup sent, NEW found, NewestOf(found, all),
           NEW asked, asked \subseteq all
    PROVE  Covers(found, asked)
<1> SUFFICES ASSUME NEW p \in asked \ found
             PROVE  /\ Cardinality(found) = Limit
                    /\ \A q \in found : Second(created[p]) <= Second(created[q])
  BY DEF Covers
<1>1. Cardinality(found) = Limit
  BY DEF NewestOf
<1>2. ASSUME NEW q \in found PROVE Second(created[p]) <= Second(created[q])
  <2>1. KeyBefore(p, q) /\ p \in inbox \cup sent /\ q \in inbox \cup sent
    BY DEF NewestOf
  <2>2. Second(created[p]) \in Int /\ Second(created[q]) \in Int
    BY <2>1, IndexedAt, SecondMonotone
  <2> QED
    BY <2>1, <2>2 DEF KeyBefore
<1> QED
  BY <1>1, <1>2

\* The first query.
LEMMA QueryInboxInv ==
    ASSUME IInv, NEW r \in Readers, QueryInbox(r)
    PROVE  IInv'
<1> DEFINE old == reads[r]
           all == {p \in InboxOf(old.user) : KeyAfter(p, old.since)}
<1>1. PICK found \in SUBSET InboxOf(old.user) :
         /\ NewestOf(found, all)
         /\ reads' = [reads EXCEPT ![r].status = "sent", ![r].found = found]
  BY DEF QueryInbox
<1> DEFINE rd == [old EXCEPT !.status = "sent", !.found = found]
<1>2. old \in ReadRec /\ ReadInv(old) /\ old.status = "inbox"
  BY DEF IInv, QueryInbox
<1>3. found \subseteq all /\ found \subseteq inbox /\ found \subseteq PageIds
      /\ all \subseteq inbox \cup sent
  BY <1>1 DEF NewestOf, InboxOf, IInv, Tables
<1>4. reads' = [reads EXCEPT ![r] = rd]
  BY <1>1
<1>5. InboxDue(old) \subseteq all
  <2>1. old.due \subseteq InboxOf(old.user) \cup SentOf(old.user)
    BY <1>2 DEF ReadInv, Asking
  <2>2. \A p \in PageIds : Sender[p] # Recipient[p]
    BY HistoryAssumption
  <2>3. old.due \subseteq PageIds
    BY <1>2 DEF ReadRec
  <2> QED
    BY <2>1, <2>2, <2>3 DEF InboxDue, InboxOf, SentOf
<1>6. Covers(found, InboxDue(old))
  BY <1>1, <1>3, <1>5, NewestCovers DEF IInv
<1>7. \A p \in found : Recipient[p] = old.user /\ KeyAfter(p, old.since)
  BY <1>3 DEF InboxOf
<1> HIDE DEF old, all
<1>8. /\ rd \in ReadRec /\ rd.status = "sent" /\ rd.user = old.user /\ rd.since = old.since
      /\ rd.due = old.due /\ rd.found = found /\ rd.pages = old.pages
      /\ rd.timeline = old.timeline
  BY <1>2, <1>3 DEF ReadRec
<1> HIDE DEF rd
<1>9. Known(rd)
  BY <1>2, <1>3, <1>8 DEF ReadInv, Known, Pages
<1>10. InboxDue(rd) = InboxDue(old)
  BY <1>8 DEF InboxDue
<1>11. Asking(rd)
  BY <1>2, <1>6, <1>7, <1>8, <1>10 DEF ReadInv, Asking
<1>12. Sound(rd) /\ Complete(rd) /\ InOrder(rd)
  BY <1>2, <1>8 DEF ReadInv, Sound, Complete, InOrder
<1> QED
  BY <1>4, <1>9, <1>11, <1>12, OneRead DEF QueryInbox, ReadInv


\* The cut of the merged pages, whatever their order.
CutOf(listed, merged) ==
    /\ listed \subseteq merged
    /\ Cardinality(listed) <= Limit
    /\ listed # merged => Cardinality(listed) = Limit
    /\ \A m \in merged \ listed, q \in listed : created[q] >= created[m]

\* The cut loses only pages that a full list makes up for: what covers a part of the
\* merge still does after the cut.
LEMMA CutCovers ==
    ASSUME Tables, NEW merged, merged \subseteq inbox \cup sent, IsFiniteSet(merged),
           NEW listed, CutOf(listed, merged),
           NEW found, found \subseteq merged,
           NEW asked, asked \subseteq inbox \cup sent, Covers(found, asked)
    PROVE  Covers(listed, asked)
<1> SUFFICES ASSUME NEW p \in asked, p \notin listed
             PROVE  /\ Cardinality(listed) = Limit
                    /\ \A q \in listed : Second(created[p]) <= Second(created[q])
  BY DEF Covers
<1>1. /\ listed \subseteq merged /\ Cardinality(listed) <= Limit
      /\ listed # merged => Cardinality(listed) = Limit
  BY DEF CutOf
<1>2. Limit \in Nat /\ IsFiniteSet(listed)
  BY <1>1, FS_Subset, HistoryAssumption
<1>3. \A m \in merged \cup {p} : created[m] \in Int /\ Second(created[m]) \in Int
  BY IndexedAt, SecondMonotone
<1>4. ASSUME NEW m \in merged \ listed
      PROVE  /\ Cardinality(listed) = Limit
             /\ \A q \in listed : Second(created[m]) <= Second(created[q])
  <2>1. Cardinality(listed) = Limit
    BY <1>1
  <2>2. ASSUME NEW q \in listed PROVE Second(created[m]) <= Second(created[q])
    <3>1. created[q] >= created[m]
      BY DEF CutOf
    <3>2. created[q] \in Int /\ created[m] \in Int
      BY <1>1, <1>3
    <3>3. created[m] <= created[q]
      BY <3>1, <3>2
    <3> QED
      BY <3>2, <3>3, SecondMonotone
  <2> QED
    BY <2>1, <2>2
<1>5. CASE p \in merged
  BY <1>4, <1>5
<1>6. CASE p \notin merged
  <2>1. /\ Cardinality(found) = Limit
        /\ \A q \in found : Second(created[p]) <= Second(created[q])
    BY <1>6 DEF Covers
  <2>2. CASE found \subseteq listed
    <3>1. /\ Cardinality(listed) \in Nat
          /\ Cardinality(found) <= Cardinality(listed)
          /\ Cardinality(listed) = Cardinality(found) => listed = found
      BY <1>2, <2>2, FS_Subset, FS_CardinalityType
    <3>2. Cardinality(listed) = Limit
      BY <1>1, <1>2, <2>1, <3>1
    <3>3. listed = found
      BY <2>1, <3>1, <3>2
    <3> QED
      BY <2>1, <3>2, <3>3
  <2>3. CASE ~(found \subseteq listed)
    <3>1. PICK m \in found : m \notin listed
      BY <2>3
    <3>2. /\ Cardinality(listed) = Limit
          /\ \A q \in listed : Second(created[m]) <= Second(created[q])
      BY <1>4, <3>1
    <3>3. Second(created[p]) <= Second(created[m])
      BY <2>1, <3>1
    <3>4. ASSUME NEW q \in listed PROVE Second(created[p]) <= Second(created[q])
      <4>1. /\ Second(created[p]) \in Int /\ Second(created[m]) \in Int
            /\ Second(created[q]) \in Int
        BY <1>1, <1>3, <3>1
      <4> QED
        BY <3>2, <3>3, <4>1
    <3> QED
      BY <3>2, <3>4
  <2> QED
    BY <2>2, <2>3
<1> QED
  BY <1>5, <1>6

\* The second query, the merge and the cut.
LEMMA QuerySentInv ==
    ASSUME IInv, NEW r \in Readers, QuerySent(r)
    PROVE  IInv'
<1> DEFINE old == reads[r]
           all == {p \in SentOf(old.user) : KeyAfter(p, old.since)}
<1>1. PICK found \in SUBSET SentOf(old.user) :
         /\ NewestOf(found, all)
         /\ LET merged == old.found \cup found
            IN  \E n \in 0..Cardinality(merged) : \E list \in [1..n -> merged] :
                   /\ Listing(list, merged)
                   /\ reads' = [reads EXCEPT ![r].status = "200", ![r].found = {},
                                             ![r].pages = list]
  BY DEF QuerySent
<1> DEFINE merged == old.found \cup found
<1>2. /\ old \in ReadRec /\ ReadInv(old) /\ old.status = "sent"
      /\ Known(old) /\ Asking(old) /\ Tables
  BY DEF IInv, QuerySent, ReadInv
<1>3. /\ found \subseteq all /\ found \subseteq sent /\ old.found \subseteq inbox
      /\ all \subseteq inbox \cup sent /\ merged \subseteq inbox \cup sent
      /\ merged \subseteq PageIds
  BY <1>1, <1>2 DEF NewestOf, SentOf, Known, Tables
<1>4. IsFiniteSet(merged) /\ Cardinality(merged) \in Nat
  <2>1. IsFiniteSet(found) /\ IsFiniteSet(old.found)
    BY <1>2, <1>3, FS_Subset DEF Tables
  <2>2. IsFiniteSet(merged)
    BY <2>1, FS_Union
  <2> QED
    BY <2>2, FS_CardinalityType
<1>5. PICK n \in 0..Cardinality(merged) : \E list \in [1..n -> merged] :
         /\ Listing(list, merged)
         /\ reads' = [reads EXCEPT ![r].status = "200", ![r].found = {}, ![r].pages = list]
  BY <1>1
<1>6. PICK list \in [1..n -> merged] :
         /\ Listing(list, merged)
         /\ reads' = [reads EXCEPT ![r].status = "200", ![r].found = {}, ![r].pages = list]
  BY <1>5
<1> DEFINE rd == [old EXCEPT !.status = "200", !.found = {}, !.pages = list]
<1>7. n \in Nat /\ list \in Seq(PageIds) /\ Len(list) = n
  <2>1. n \in Nat /\ list \in [1..n -> PageIds]
    BY <1>3, <1>4, <1>6
  <2>2. list \in Seq(PageIds)
    BY <2>1, SeqDef
  <2>3. Len(list) \in Nat /\ DOMAIN list = 1..Len(list)
    BY <2>2, LenProperties
  <2> QED
    BY <2>1, <2>2, <2>3
<1>8. reads' = [reads EXCEPT ![r] = rd]
  BY <1>6
<1>9. /\ Covers(old.found, InboxDue(old))
      /\ \A p \in old.found : Recipient[p] = old.user /\ KeyAfter(p, old.since)
  BY <1>2 DEF Asking
<1>10. \A p \in merged : /\ old.user \in {Sender[p], Recipient[p]} /\ KeyAfter(p, old.since)
  BY <1>3, <1>9 DEF SentOf
<1> DEFINE sentDue == {p \in old.due : Sender[p] = old.user /\ KeyAfter(p, old.since)}
<1>11. sentDue \subseteq all
  <2>1. \A p \in PageIds : Sender[p] # Recipient[p]
    BY HistoryAssumption
  <2>2. old.due \subseteq PageIds
    BY <1>2 DEF ReadRec
  <2>3. ASSUME NEW p \in sentDue PROVE p \in SentOf(old.user)
    <3>1. p \in InboxOf(old.user) \cup SentOf(old.user)
      BY <1>2 DEF Asking
    <3> QED
      BY <2>1, <2>2, <3>1 DEF InboxOf, SentOf
  <2> QED
    BY <2>3
<1>12. Covers(found, sentDue)
  BY <1>1, <1>2, <1>3, <1>11, NewestCovers
<1>13. rd = [old EXCEPT !.status = "200", !.found = {}, !.pages = list]
  OBVIOUS
<1> HIDE DEF old, all, rd
<1>14. /\ rd \in ReadRec /\ rd.status = "200" /\ rd.user = old.user /\ rd.since = old.since
       /\ rd.due = old.due /\ rd.found = {} /\ rd.pages = list
       /\ rd.timeline = old.timeline
  BY <1>2, <1>7, <1>13 DEF ReadRec
<1>15. Pages(rd) = {list[i] : i \in 1..Len(list)} /\ Pages(rd) \subseteq merged
  BY <1>6, <1>14 DEF Pages, Listing
<1>16. CutOf(Pages(rd), merged) /\ Cardinality(Pages(rd)) = Len(list)
  BY <1>6, <1>15 DEF Listing, CutOf
<1>17. Covers(Pages(rd), InboxDue(old)) /\ Covers(Pages(rd), sentDue)
  <2>1. old.found \subseteq merged /\ found \subseteq merged
    OBVIOUS
  <2>2. InboxDue(old) \subseteq inbox \cup sent /\ sentDue \subseteq inbox \cup sent
    BY <1>2 DEF InboxDue, Known
  <2>3. Tables /\ merged \subseteq inbox \cup sent
    BY <1>2, <1>3
  <2> HIDE DEF merged, sentDue
  <2>4. Covers(Pages(rd), InboxDue(old))
    BY <1>4, <1>9, <1>16, <2>1, <2>2, <2>3, CutCovers
  <2>5. Covers(Pages(rd), sentDue)
    BY <1>4, <1>12, <1>16, <2>1, <2>2, <2>3, CutCovers
  <2> QED
    BY <2>4, <2>5
<1>18. Known(rd)
  BY <1>2, <1>3, <1>14, <1>15 DEF Known
<1>19. Sound(rd)
  <2>1. /\ Cardinality(Pages(rd)) = Len(list) /\ Len(list) <= Limit
        /\ \A i, j \in 1..Len(list) : i < j => created[list[i]] >= created[list[j]]
    BY <1>6, <1>15 DEF Listing
  <2>2. \A i \in 1..Len(list) :
           /\ rd.user \in {Sender[list[i]], Recipient[list[i]]}
           /\ rd.since # None => Second(created[list[i]]) >= Second(rd.since)
    BY <1>10, <1>14, <1>15 DEF KeyAfter
  <2>3. \A i \in 1..Len(list) - 1 : created[list[i]] >= created[list[i + 1]]
    <3>1. \A i \in 1..Len(list) - 1 : i \in 1..Len(list) /\ i + 1 \in 1..Len(list) /\ i < i + 1
      BY <1>7
    <3> QED
      BY <2>1, <3>1
  <2> QED
    BY <1>14, <2>1, <2>2, <2>3 DEF Sound
<1>20. Complete(rd)
  <2> SUFFICES ASSUME NEW p \in old.due \ Pages(rd), InWindow(p, old.user, old.since)
               PROVE  /\ Len(list) = Limit
                      /\ \A q \in Pages(rd) : Second(created[q]) >= Second(created[p])
    BY <1>14 DEF Complete
  <2>1. p \in inbox \cup sent
    BY <1>2 DEF Known
  <2>2. KeyAfter(p, old.since)
    <3>1. created[p] \in Int
      BY <1>2, <2>1, IndexedAt
    <3>2. CASE old.since # None
      <4>1. old.since \in Int /\ created[p] > old.since
        BY <1>2, <3>2 DEF InWindow, ReadRec
      <4>2. Second(old.since) <= Second(created[p])
        BY <3>1, <4>1, SecondMonotone
      <4>3. Second(old.since) \in Int /\ Second(created[p]) \in Int
        BY <3>1, <4>1, SecondMonotone
      <4> QED
        BY <4>2, <4>3 DEF KeyAfter
    <3> QED
      BY <3>2 DEF KeyAfter
  <2>3. p \in InboxDue(old) \cup sentDue
    BY <2>2 DEF InWindow, InboxDue
  <2>4. Cardinality(Pages(rd)) = Limit
    BY <1>17, <2>3 DEF Covers
  <2>5. \A q \in Pages(rd) : Second(created[p]) <= Second(created[q])
    BY <1>17, <2>3 DEF Covers
  <2>6. ASSUME NEW q \in Pages(rd) PROVE Second(created[q]) >= Second(created[p])
    <3>1. q \in inbox \cup sent
      BY <1>3, <1>15
    <3>2. Second(created[q]) \in Int /\ Second(created[p]) \in Int
      BY <1>2, <2>1, <3>1, IndexedAt, SecondMonotone
    <3> QED
      BY <2>5, <3>2
  <2> QED
    BY <1>16, <2>4, <2>6
<1>21. Asking(rd) /\ InOrder(rd)
  BY <1>2, <1>14 DEF ReadInv, Asking, InOrder
<1> QED
  BY <1>8, <1>18, <1>19, <1>20, <1>21, OneRead DEF QuerySent, ReadInv


\* A query that fails leaves an answer that says nothing.
LEMMA ReadFailsInv ==
    ASSUME IInv, NEW r \in Readers, ReadFails(r)
    PROVE  IInv'
<1> DEFINE rd == [NewRead EXCEPT !.status = "500"]
<1>1. <<>> \in Seq(PageIds) /\ Len(<<>>) = 0 /\ \A S : <<>> \in Seq(S)
  OBVIOUS
<1>2. /\ rd \in ReadRec /\ rd.status = "500" /\ rd.since = None
      /\ rd.found = {} /\ rd.due = {} /\ rd.pages = <<>> /\ rd.timeline = <<>>
  <2>1. /\ NewRead \in ReadRec /\ NewRead.since = None /\ NewRead.found = {}
        /\ NewRead.due = {} /\ NewRead.pages = <<>> /\ NewRead.timeline = <<>>
    BY DEF NewRead, ReadRec
  <2> QED
    BY <2>1 DEF ReadRec
<1>3. reads' = [reads EXCEPT ![r] = rd]
  BY DEF ReadFails
<1> HIDE DEF rd
<1>4. ReadInv(rd)
  BY <1>1, <1>2 DEF ReadInv, Known, Asking, Sound, Complete, InOrder, Pages
<1> QED
  BY <1>3, <1>4, OneRead DEF ReadFails

\* The events of a page are finitely many, of times that have come.
LEMMA EventsOfPage ==
    ASSUME Tables, NEW p \in pages, NEW es \in Events(p)
    PROVE  /\ es \subseteq [at : Times, type : {"created", "push_attempt"}]
           /\ Cardinality(es) \in Nat
<1>1. PICK appended \in SUBSET [at : created[p]..now, type : {"push_attempt"}] :
         es = {[at |-> created[p], type |-> "created"]} \cup appended
  BY DEF Events
<1>2. p \in PageIds /\ created[p] \in 0..now /\ now \in Int
  BY DEF Tables, Times
<1>3. created[p]..now \subseteq Times
  BY <1>2 DEF Times
<1>4. es \subseteq [at : Times, type : {"created", "push_attempt"}]
  BY <1>1, <1>2, <1>3 DEF Times
<1>5. IsFiniteSet(appended)
  <2> DEFINE f == [e \in appended |-> e.at]
  <2>1. IsFiniteSet(created[p]..now)
    BY <1>2, FS_Interval
  <2>2. f \in [appended -> created[p]..now]
    OBVIOUS
  <2>3. \A e, g \in appended : f[e] = f[g] => e = g
    <3> SUFFICES ASSUME NEW e \in appended, NEW g \in appended, e.at = g.at PROVE e = g
      OBVIOUS
    <3>1. /\ e \in [at : created[p]..now, type : {"push_attempt"}]
          /\ g \in [at : created[p]..now, type : {"push_attempt"}]
      BY <1>1
    <3> QED
      BY <3>1
  <2>4. f \in Injection(appended, created[p]..now)
    BY <2>2, <2>3 DEF Injection, IsInjective
  <2> QED
    BY <2>1, <2>4, FS_Injection
<1>6. IsFiniteSet({[at |-> created[p], type |-> "created"]})
  BY FS_Singleton
<1>7. IsFiniteSet(es)
  BY <1>1, <1>5, <1>6, FS_Union
<1> QED
  BY <1>4, <1>7, FS_CardinalityType

\* An event whose key comes first is not of a later second.
LEMMA KeyOrder ==
    ASSUME NEW e, NEW f, e.at \in Int, f.at \in Int, EventKeyBefore(e, f)
    PROVE  Second(e.at) <= Second(f.at)
<1>1. Second(e.at) \in Int /\ Second(f.at) \in Int
  BY SecondMonotone
<1>2. Second(e.at) < Second(f.at) \/ Second(e.at) = Second(f.at)
  BY Zenon DEF EventKeyBefore
<1> QED
  BY <1>1, <1>2

\* A page is looked at: its timeline, in the order of the keys.
LEMMA ViewPageInv ==
    ASSUME IInv, NEW r \in Readers, ViewPage(r)
    PROVE  IInv'
<1> DEFINE old == reads[r]
<1>1. old \in ReadRec /\ ReadInv(old) /\ old.status = "new" /\ Tables
  BY DEF IInv, ViewPage
<1>2. CASE reads' = [reads EXCEPT ![r].status = "404"]
  <2> DEFINE rd == [old EXCEPT !.status = "404"]
  <2>1. reads' = [reads EXCEPT ![r] = rd]
    BY <1>2
  <2>2. rd = [old EXCEPT !.status = "404"]
    OBVIOUS
  <2> HIDE DEF old, rd
  <2>3. /\ rd \in ReadRec /\ rd.status = "404" /\ rd.user = old.user /\ rd.since = old.since
        /\ rd.due = old.due /\ rd.found = old.found /\ rd.pages = old.pages
        /\ rd.timeline = old.timeline
    BY <1>1, <2>2 DEF ReadRec
  <2>4. ReadInv(rd)
    BY <1>1, <2>3 DEF ReadInv, Known, Asking, Sound, Complete, InOrder, Pages
  <2> QED
    BY <2>1, <2>4, OneRead DEF ViewPage
<1>3. ASSUME NEW p \in pages, NEW es \in Events(p), NEW list \in [1..Cardinality(es) -> es],
             \A i, j \in DOMAIN list : i < j => EventKeyBefore(list[i], list[j]),
             reads' = [reads EXCEPT ![r].status = "viewed", ![r].timeline = list]
      PROVE  IInv'
  <2> DEFINE Timed == [at : Times, type : {"created", "push_attempt"}]
             rd == [old EXCEPT !.status = "viewed", !.timeline = list]
  <2>1. reads' = [reads EXCEPT ![r] = rd]
    BY <1>3
  <2>2. rd = [old EXCEPT !.status = "viewed", !.timeline = list]
    OBVIOUS
  <2>3. es \subseteq Timed /\ Cardinality(es) \in Nat
    BY <1>1, EventsOfPage
  <2>4. Times \subseteq Int
    BY <1>1 DEF Tables, Times
  <2> HIDE DEF old, rd, Timed
  <2>5. list \in Seq(Timed) /\ DOMAIN list = 1..Len(list)
    <3>1. list \in [1..Cardinality(es) -> Timed]
      BY <2>3
    <3>2. list \in Seq(Timed)
      BY <2>3, <3>1, SeqDef
    <3> QED
      BY <3>2, LenProperties
  <2>6. list \in Seq([at : Int, type : {"created", "push_attempt"}])
    <3> DEFINE T == [at : Int, type : {"created", "push_attempt"}]
    <3>1. Timed \subseteq T
      BY <2>4 DEF Timed
    <3> HIDE DEF T
    <3>2. list \in Seq(T)
      BY <2>5, <3>1, SeqMonotonic
    <3> QED
      BY <3>2 DEF T
  <2>7. /\ rd \in ReadRec /\ rd.status = "viewed" /\ rd.user = old.user
        /\ rd.since = old.since /\ rd.due = old.due /\ rd.found = old.found
        /\ rd.pages = old.pages /\ rd.timeline = list
    BY <1>1, <2>2, <2>6 DEF ReadRec
  <2>8. InOrder(rd)
    <3> SUFFICES ASSUME NEW i \in 1..Len(list), NEW j \in 1..Len(list), i < j
                 PROVE  Second(list[i].at) <= Second(list[j].at)
      BY <2>7 DEF InOrder
    <3>1. list[i] \in Timed /\ list[j] \in Timed
      BY <2>5, ElementOfSeq
    <3>2. list[i].at \in Int /\ list[j].at \in Int
      BY <2>4, <3>1 DEF Timed
    <3>3. EventKeyBefore(list[i], list[j])
      BY <1>3, <2>5
    <3> QED
      BY <3>2, <3>3, KeyOrder
  <2>9. Known(rd)
    BY <1>1, <2>5, <2>7 DEF ReadInv, Known, Pages, Timed
  <2>10. Asking(rd) /\ Sound(rd) /\ Complete(rd)
    BY <2>7 DEF Asking, Sound, Complete
  <2> QED
    BY <2>1, <2>8, <2>9, <2>10, OneRead DEF ViewPage, ReadInv
<1> QED
  BY <1>2, <1>3 DEF ViewPage

------------------------------------------------------------------------------
(* The theorems *)

\* Every step preserves the invariant.
LEMMA InvStep == IInv /\ [Next]_vars => IInv'
<1> SUFFICES ASSUME IInv, [Next]_vars PROVE IInv'
  OBVIOUS
<1>1. CASE TableStep \/ UNCHANGED vars
  <2>1. Tables' /\ Grows /\ reads' = reads
    <3>1. CASE TableStep
      BY <3>1, TableSteps DEF IInv
    <3>2. CASE UNCHANGED vars
      BY <3>2 DEF IInv, Tables, Grows, Times
    <3> QED
      BY <1>1, <3>1, <3>2
  <2>2. ASSUME NEW q \in Readers PROVE ReadInv(reads[q])'
    <3>1. PICK x : x = reads[q]
      OBVIOUS
    <3>2. ReadInv(x)'
      BY <2>1, <3>1, ReadKept DEF IInv
    <3> QED
      BY <2>1, <3>1, <3>2
         DEF ReadInv, Known, Asking, Sound, Complete, InOrder, InboxDue, Pages
  <2> QED
    BY <2>1, <2>2 DEF IInv
<1>2. CASE \E r \in Readers : ListRequest(r) \/ QueryInbox(r) \/ QuerySent(r)
                              \/ ReadFails(r) \/ ViewPage(r)
  BY <1>2, ListRequestInv, QueryInboxInv, QuerySentInv, ReadFailsInv, ViewPageInv
<1> QED
  BY <1>1, <1>2 DEF Next, TableStep

\* IInv holds of every reachable state.
THEOREM IInvHolds == Spec => []IInv
BY InitInv, InvStep, PTL DEF Spec

\* Pages are stamped, and requests know only what the indexes hold (TypeOK).
THEOREM HistoryTypeCorrect == Spec => []TypeOK
BY IInvHolds, IInvImplies, PTL

\* A listing is the caller's own pages, each once, newest first, within the window and
\* the limit (ListingSound).
THEOREM ListingSoundHolds == Spec => []ListingSound
BY IInvHolds, IInvImplies, PTL

\* Two index queries at two moments, their merge and the cut lose no page of the window
\* that was indexed when the request came, unless the list is full of pages of its second
\* or later ones (ListingComplete).
THEOREM ListingCompleteHolds == Spec => []ListingComplete
BY IInvHolds, IInvImplies, PTL

\* The keys of the events, which drop trailing zeros of the fraction, never put a later
\* second first (TimelineInOrder).
THEOREM TimelineInOrderHolds == Spec => []TimelineInOrder
BY IInvHolds, IInvImplies, PTL

==============================================================================
