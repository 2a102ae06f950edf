-------------------------------- MODULE Frontend --------------------------------
(***************************************************************************)
(* A tab of the browser client, logged in: it is on a page with its forms  *)
(* (Browsing), on a list kept in the URL (ListView), or at the till        *)
(* (Till).  It is on one of them at a time, and their parts meet nowhere   *)
(* else, so a behaviour stays where it starts; the session under all of    *)
(* them is module Session's.                                               *)
(***************************************************************************)
EXTENDS Browsing, ListView, Till

VARIABLE on  \* "page", "list" or "till"

vars == <<on, browsing, listing, tilling>>

Init ==
  /\ on \in {"page", "list", "till"}
  /\ BrowsingInit /\ ListInit /\ TillInit
  /\ on = "page" \/ (role = "OWNER" /\ here = "audit" /\ cache.seen = 1)
  /\ on = "list" \/ view = "catalog"

Next ==
  \/ on = "page" /\ BrowsingNext /\ UNCHANGED <<on, listing, tilling>>
  \/ on = "list" /\ ListNext /\ UNCHANGED <<on, browsing, tilling>>
  \/ on = "till" /\ TillNext /\ UNCHANGED <<on, browsing, listing>>

\* Requests end, by an answer or an error, and what awaits them goes on;
\* nothing is assumed of the user.
Fairness ==
  /\ WF_vars(on = "page" /\ CacheStep /\ UNCHANGED <<on, listing, tilling>>)
  /\ WF_vars(on = "page" /\ FormStep /\ UNCHANGED <<on, listing, tilling>>)
  /\ WF_vars(on = "till" /\ SaleStep /\ UNCHANGED <<on, browsing, listing>>)

Spec == Init /\ [][Next]_vars /\ Fairness

-----------------------------------------------------------------------------
\* Every variable has its type.
TypeOK == BrowsingTypeOK /\ ListTypeOK /\ TillTypeOK

\* However often it is submitted, a form posts one row and a cart one sale, and
\* one more for each answer that was lost and each receipt that could not be
\* attached (onSubmit() and submit() of the pages; none of them has a key by
\* which the server would know a request it has answered).
OneRowPerForm == FormPostsOnce /\ TillPostsOnce

\* What is submitted comes to an end: the form closes or leads on, or is there
\* again with an error.  No refresh is awaited for ever, also when it fails.
Pending == Submitting \/ till \in {"submitting", "recorded", "refreshing"}
EverySubmissionSettles == Pending ~> ~Pending
================================================================================
