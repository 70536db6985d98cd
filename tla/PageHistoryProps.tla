-------------------------- MODULE PageHistoryProps ---------------------------
(* What reading pages back is checked for.                                    *)
EXTENDS PageHistory

Times == 0..now
Listed(r) == {reads[r].pages[i] : i \in 1..Len(reads[r].pages)}

\* Every page that was written carries a time that has come, and what a request has
\* found or answered is pages the indexes know.
TypeOK ==
    /\ now \in 0..MaxTime
    /\ created \in [PageIds -> Times \cup {None}]
    /\ pages \subseteq PageIds /\ inbox \subseteq pages /\ sent \subseteq pages
    /\ \A p \in pages : created[p] # None
    /\ \A r \in Readers :
          /\ reads[r].status \in {"new", "inbox", "sent", "200", "viewed", "404", "500"}
          /\ reads[r].user \in Users \cup {None} /\ reads[r].since \in Times \cup {None}
          /\ reads[r].found \subseteq inbox
          /\ Listed(r) \subseteq inbox \cup sent
          /\ reads[r].timeline \in Seq([at : Times, type : {"created", "push_attempt"}])

\* What store.ListPagesFor promises, and the ListPagesFor of fake/store.go does:
\* the user's own pages, created after `since`.
InWindow(p, u, since) ==
    /\ Sender[p] = u \/ Recipient[p] = u
    /\ since = None \/ created[p] > since

\* "Newest-first" (store.go:54-55): a list holds the caller's own pages, each once, in
\* order, none from before the second of `since`, and no more than the limit.
ListingSound ==
    \A r \in Readers : reads[r].status = "200" =>
        LET list == reads[r].pages
        IN  /\ Len(list) <= Limit /\ Cardinality(Listed(r)) = Len(list)
            /\ \A i \in 1..Len(list) :
                  /\ reads[r].user \in {Sender[list[i]], Recipient[list[i]]}
                  /\ reads[r].since # None =>
                         Second(created[list[i]]) >= Second(reads[r].since)
            /\ \A i \in 1..Len(list) - 1 : created[list[i]] >= created[list[i + 1]]

\* Two index queries of Limit keys each, at two moments, are merged and cut: a page
\* of the window that was indexed when the request came is missing only from a full
\* list, and only for pages of its second or later ones.
ListingComplete ==
    \A r \in Readers : reads[r].status = "200" =>
        \A p \in reads[r].due \ Listed(r) :
            InWindow(p, reads[r].user, reads[r].since) =>
                /\ Len(reads[r].pages) = Limit
                /\ \A q \in Listed(r) : Second(created[q]) >= Second(created[p])

\* "So ordering stays consistent" (keys_test.go:33-34): whatever RFC3339Nano does to
\* fractions, and in whatever order handlers wrote, a timeline never goes back by
\* a second.
TimelineInOrder ==
    \A r \in Readers :
        \A i, j \in 1..Len(reads[r].timeline) :
            i < j => Second(reads[r].timeline[i].at) <= Second(reads[r].timeline[j].at)

==============================================================================
