-------------------------------- MODULE Browsing --------------------------------
(***************************************************************************)
(* A tab on one page of module Screens: its queries in the cache of        *)
(* TanStack Query, and its forms, which write to the server and then see   *)
(* to it that the page shows what was written.                             *)
(*                                                                         *)
(* The queries of a page do not touch each other, so one of them is        *)
(* watched, any one, and the others only make a refresh take longer.       *)
(* Contents are versions: the number of writes of this tab they show.      *)
(* Others' writes are left out; a row posted is counted.  A dialog that is *)
(* dismissed while its request is under way is not opened again before     *)
(* that has ended.                                                         *)
(***************************************************************************)
EXTENDS Screens, Naturals

CONSTANT MaxVersion  \* bound: the server's data goes through versions 1..MaxVersion

ASSUME MaxVersionAssumption == MaxVersion \in Nat \ {0}

VARIABLES
  role,     \* of the user who is logged in
  here,     \* the page, a name in Pages
  watched,  \* the watched query
  cache,    \* what the cache holds of it
  version,  \* of the server's data
  form      \* the form or button in use

browsing == <<role, here, watched, cache, version, form>>

NoForm == [op |-> Form, phase |-> "closed", own |-> 0, rows |-> 0, excused |-> 0,
           awaits |-> FALSE]

\* hasPermission: can()
Can(perms) == perms \subseteq Grants[role]
Enabled(query) == Can(query.if) /\ query.unless \cap Grants[role] = {}
MountedOn(page) ==
  \E q \in Pages[page].queries : q.key = watched.key /\ q.mounted /\ Enabled(q)

\* Nothing cached; a fetch under way (asked: the version it is sure to see);
\* doubt: a fetch failed, or what was under way may bring something older.
Nothing   == [seen |-> 0, asked |-> 0, doubt |-> FALSE]
Fetched(c) == [c EXCEPT !.asked = version, !.doubt = FALSE]

\* Any query of the page that is enabled, cached before or not.
BrowsingInit ==
  /\ role \in DOMAIN Grants
  /\ version = 1
  /\ here \in {p \in DOMAIN Pages : Can(Pages[p].door)}
  /\ watched \in {q \in Pages[here].queries : Enabled(q)}
  /\ LET shown  == [seen : {0, 1}, asked : {1}, doubt : {FALSE}]
         cached == [Nothing EXCEPT !.seen = 1]
     IN  cache \in IF ~watched.mounted THEN {Nothing, cached}
                   ELSE shown \cup (IF watched.minute THEN {cached} ELSE {})
  /\ form = NoForm

-----------------------------------------------------------------------------
(* The cache. *)

\* The connection comes back, or the page is shown again.
Refetch ==
  /\ MountedOn(here) /\ cache.asked = 0
  /\ cache' = [cache EXCEPT !.asked = version]
  /\ UNCHANGED <<role, here, watched, version, form>>

\* The answer was made at any time since it was asked for.
Arrive ==
  /\ cache.asked # 0
  /\ \E v \in cache.asked .. version : 
       cache' = [seen |-> v, asked |-> 0, doubt |-> cache.doubt /\ cache.asked < version]
  /\ form' = [form EXCEPT !.awaits = FALSE]
  /\ UNCHANGED <<role, here, watched, version>>

\* A fetch that fails ends the wait for it all the same.
Fail ==
  /\ cache.asked # 0
  /\ cache' = [cache EXCEPT !.asked = 0, !.doubt = TRUE]
  /\ form' = [form EXCEPT !.awaits = FALSE]
  /\ UNCHANGED <<role, here, watched, version>>

\* setQueryData() with an answer of version v: a fetch under way is not cancelled.
SetData(c, keys, v) ==
  IF watched.key \notin keys THEN c
  ELSE [c EXCEPT !.seen = v, !.doubt = c.asked # 0]

\* invalidateQueries(): a mounted query is asked again, which cancels a fetch
\* under way, but its very first fetch is joined; another is stale from now on.
Refreshed(keys) == \E prefix \in keys : IsPrefix(prefix, watched.key)
Invalidate(c, keys) ==
  IF ~Refreshed(keys) THEN c
  ELSE IF ~MountedOn(here) THEN Nothing
  ELSE IF c.asked # 0 /\ c.seen = 0 THEN [c EXCEPT !.doubt = c.asked < version]
  ELSE Fetched(c)

-----------------------------------------------------------------------------
(* The forms. *)

Offered(op) ==
  op \in Pages[here].ops /\ Can(op.may) /\ (watched.key = Pages[here].of => cache.seen # 0)

Open(op) ==
  /\ form.phase \in {"closed", "settled"} /\ Offered(op)
  /\ form' = [NoForm EXCEPT !.op = op, !.phase = "editing"]
  /\ UNCHANGED <<role, here, watched, cache, version>>

Close ==
  /\ form.phase = "editing"
  /\ form' = NoForm
  /\ UNCHANGED <<role, here, watched, cache, version>>

Affordable == version + (IF form.op.second = "none" THEN 1 ELSE 2) <= MaxVersion

\* Mutant: the button stays enabled.
SubmitAtWill ==
  /\ form.phase \in {"editing", "sent", "served"} /\ Affordable
  /\ form' = [form EXCEPT !.phase = "sent"]
  /\ UNCHANGED <<role, here, watched, cache, version>>

\* The button is disabled while the form is submitting.  RemoveReceipt,
\* RemoveCategory and readOne stay enabled, and post no row: a second click on
\* them is left out.
Submit ==
  /\ form.phase = "editing" /\ Affordable
  /\ form' = [form EXCEPT !.phase = "sent"]
  /\ UNCHANGED <<role, here, watched, cache, version>>

\* The server carries out the request, or its follow-up.
ServeForm ==
  /\ form.phase \in {"sent", "attaching"}
  /\ version' = version + 1
  /\ form' = IF form.phase = "attaching" THEN [form EXCEPT !.phase = "attached"]
             ELSE [form EXCEPT !.phase = "served", !.rows = @ + (IF form.op.creates THEN 1 ELSE 0)]
  /\ UNCHANGED <<role, here, watched, cache>>

\* It is refused or lost, or its answer is: the form shows the error and is
\* there to be submitted again.
Refuse ==
  /\ form.phase \in {"sent", "served"}
  /\ form' = [form EXCEPT !.phase = "editing", !.excused = @ + (IF form.phase = "served" THEN 1 ELSE 0)]
  /\ cache' = IF form.op.anyway THEN Invalidate(cache, form.op.refreshes) ELSE cache
  /\ UNCHANGED <<role, here, watched, version>>

\* Then the page is made to show it, and given an answer of version v.
Finish(op, phase, v) ==
  LET set == SetData(cache, op.sets, v) IN
  /\ cache' = Invalidate(set, op.refreshes)
  /\ form' = [form EXCEPT !.op = op, !.own = version, !.phase = phase,
                          !.awaits = op.waits /\ MountedOn(here) /\ Refreshed(op.refreshes)]
  /\ UNCHANGED <<role, here, watched, version>>

\* The answer: there may be a follow-up; only purchases always have it.
Answer ==
  /\ form.phase = "served"
  /\ \/ /\ form.op.second \in {"none", "receipt", "image"}
        /\ Finish(form.op, "refreshing", version)
     \/ /\ form.op.second # "none"
        /\ form' = [form EXCEPT !.phase = "attaching"]
        /\ UNCHANGED <<role, here, watched, cache, version>>
AnswerSecond == form.phase = "attached" /\ Finish(form.op, "refreshing", version)

\* The follow-up fails, or its answer is lost.  A purchase is shown as the draft
\* it was when it was saved; an image is done without; an expense stays open, and
\* submitting it again posts it again.
FirstAnswer == IF form.phase = "attached" THEN version - 1 ELSE version
FailSecond ==
  /\ form.phase \in {"attaching", "attached"}
  /\ \/ /\ form.op.second = "receive"
        /\ Finish(SaveDraft(form.op.creates), "refreshing", FirstAnswer)
     \/ form.op.second = "image" /\ Finish(form.op, "refreshing", version)
     \/ form.op.second = "receipt" /\ Finish(form.op, "returning", version)

\* When the refresh is over the form closes, or leads to another page, whose
\* queries are asked.
Settle ==
  /\ form.phase \in {"refreshing", "returning"} /\ ~form.awaits
  /\ form' = IF form.phase = "returning" THEN [form EXCEPT !.phase = "editing", !.excused = @ + 1]
             ELSE [form EXCEPT !.phase = "settled"]
  /\ IF form.phase = "refreshing" /\ form.op.to # "stay"
     THEN /\ here' = form.op.to
          /\ cache' = IF MountedOn(form.op.to) /\ cache.asked = 0 THEN Fetched(cache) ELSE cache
     ELSE UNCHANGED <<here, cache>>
  /\ UNCHANGED <<role, watched, version>>

CacheStep == Arrive \/ Fail
FormStep  == ServeForm \/ Refuse \/ Answer \/ AnswerSecond \/ FailSecond \/ Settle
BrowsingNext ==
  \/ Refetch \/ CacheStep \/ FormStep \/ Close \/ Submit
  \/ \E op \in Pages[here].ops : Open(op)

-----------------------------------------------------------------------------
\* Every variable has its type.
BrowsingTypeOK ==
  /\ role \in DOMAIN Grants /\ here \in DOMAIN Pages
  /\ version \in 1 .. MaxVersion
  /\ cache \in [seen : 0 .. version, asked : 0 .. version, doubt : BOOLEAN]
  /\ form.phase \in {"closed", "editing", "sent", "served", "attaching", "attached",
                     "refreshing", "returning", "settled"}
  /\ form.own \in 0 .. version /\ form.rows <= version /\ form.excused <= version

\* Nothing a seeded role is shown leads to a refusal for want of a permission:
\* no query a page asks, no button it offers, no link it has, and no figure
\* the server would leave out (can() against required_permissions).
NothingIsRefused ==
  /\ \A q \in Pages[here].queries : Enabled(q) => Can(q.needs)
  /\ \A op \in Pages[here].ops : Can(op.may) => Can(op.needs)
  /\ \A link \in Pages[here].links \cup Sidebar : Can(link.if) => Can(Pages[link.to].door)
  /\ \A f \in Pages[here].figures : Can(f.if) => Can(f.needs)

\* Once a form has closed, what is on the page (or will be taken from the cache
\* without asking) shows what it wrote, unless the fetch that was to bring it
\* failed, was the page's first and under way, or overtook the answer; a
\* button that does not wait, and a page just opened, may still be asking.
OwnWritesAreShown ==
  form.phase = "settled" /\ watched.reads \cap form.op.writes # {}
    /\ (MountedOn(here) \/ watched.minute)
  => \/ cache.seen >= form.own
     \/ cache.doubt
     \/ cache.seen = 0 /\ ~MountedOn(here)
     \/ cache.asked >= form.own /\ (~form.op.waits \/ form.op.to # "stay")

\* However often a form is submitted, it posts one row, and one more for each
\* answer that was lost and each receipt that could not be attached.
FormPostsOnce == form.rows <= 1 + form.excused

\* A form that is submitted ends in the page, closed, or with an error.
Submitting == form.phase \notin {"closed", "editing", "settled"}
==============================================================================
