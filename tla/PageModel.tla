------------------------------ MODULE PageModel ------------------------------
(* The life cycle of a page: the PageState constants of                       *)
(* backend/internal/model/model.go and the predicates the handlers use.       *)
------------------------------------------------------------------------------

\* Nothing in the code ever moves a page to "seen" or "cancelled"; the states
\* are kept because the conditions of the store and of the pager name them.
PageState ==
    {"created", "pushed", "delivered", "seen", "acked", "expired", "cancelled"}

\* PageState.Active: should the nag loop keep pushing?
ActiveStates == {"created", "pushed", "delivered", "seen"}

Active(state) == state \in ActiveStates

\* The states no update moves a page out of.
Terminal(state) == state \in PageState \ ActiveStates

==============================================================================
