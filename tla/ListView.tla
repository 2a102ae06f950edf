-------------------------------- MODULE ListView --------------------------------
(***************************************************************************)
(* A list of the client: its tab, search and page kept in the URL          *)
(* (useListParams()), the search box that reports what is typed after a    *)
(* pause (SearchInput), and the rows on show (DataList over useQuery()).   *)
(* The router renders a navigation some time after it was asked for, as a  *)
(* transition; until then everything is computed from the URL rendered,    *)
(* and a later navigation takes the place of one not rendered yet.         *)
(*                                                                         *)
(* The other filters of a list behave as its tab does where that clears    *)
(* nothing.  A query that fails keeps what it had.                         *)
(***************************************************************************)
EXTENDS Naturals

VARIABLES
  view,    \* which list
  url,     \* the URL rendered
  going,   \* the navigation under way, or NoUrl
  draft,   \* what the search box holds
  timer,   \* it has a timeout running
  rows,    \* of: the answer last loaded since the list was mounted, and
           \* current: whether that is the answer to the query rendered
  overtaken  \* history: the last navigation led back to the very URL rendered

listing == <<view, url, going, draft, timer, rows, overtaken>>

(***************************************************************************)
(* The lists with tabs: whether a change of tab clears the search, mounts  *)
(* the search box anew and mounts the list anew, and whether any rows it   *)
(* had stand in for those that load (placeholderData), or those of the     *)
(* same tab only.                                                          *)
(***************************************************************************)
List(clears, box, list, any, searches) ==
  [clears |-> clears, box |-> box, list |-> list, any |-> any, searches |-> searches]

\* Mutant: the tabs of the catalog share one list.
ListsUnkeyed ==
  [catalog   |-> List(TRUE, FALSE, FALSE, TRUE, TRUE),
   inventory |-> List(FALSE, FALSE, TRUE, TRUE, TRUE),
   expiring  |-> List(FALSE, FALSE, FALSE, TRUE, TRUE),
   reports   |-> List(FALSE, FALSE, FALSE, FALSE, FALSE)]

Lists ==
  [catalog   |-> List(TRUE, TRUE, TRUE, TRUE, TRUE),
   inventory |-> List(FALSE, FALSE, TRUE, TRUE, TRUE),
   expiring  |-> List(FALSE, FALSE, FALSE, TRUE, TRUE),
   reports   |-> List(FALSE, FALSE, FALSE, FALSE, FALSE)]

\* Tabs 1 and 2.  On tab n people search for n, or for nothing (0).  A page
\* other than the first (0) is named by the tab and the search it was asked on.
Tabs    == {1, 2}
Word    == Tabs \cup {0}
First   == <<0, 0>>
Second(u) == <<u.tab, u.search + 1>>
Url     == [tab : Tabs, search : Word, page : (Tabs \X (1 .. 3)) \cup {First}]
NoUrl   == [tab |-> 0, search |-> 0, page |-> First]
NoRows  == [of |-> NoUrl, current |-> FALSE]

\* Mutant: the page is kept.
SetSearchOnly(u, word) == [u EXCEPT !.search = word]

\* setMany(): any change but of the page goes back to the first.
SetSearch(u, word) == [u EXCEPT !.search = word, !.page = First]
SetTab(u, t) ==
  [tab |-> t, search |-> IF Lists[view].clears THEN 0 ELSE u.search, page |-> First]
SetPage(u, p) == [u EXCEPT !.page = p]

\* The key of the list's query and what its request asks for.
KeyOf(u) == <<u.tab, u.page, u.search>>
AskOf(u) == [tab |-> u.tab, search |-> u.search, page |-> u.page]

ListInit ==
  /\ view \in DOMAIN Lists
  /\ url = [tab |-> 1, search |-> 0, page |-> First]
  /\ going = NoUrl /\ draft = 0 /\ timer = FALSE /\ rows = NoRows /\ overtaken = FALSE

-----------------------------------------------------------------------------
\* Keys in the search box: the effect starts the timeout again.
Type(word) ==
  /\ Lists[view].searches /\ word # draft
  /\ draft' = word
  /\ timer' = (word # url.search)
  /\ overtaken' = FALSE
  /\ UNCHANGED <<view, url, going, rows>>

\* 300 ms later: onChange(draft).
Pause ==
  /\ timer
  /\ going' = SetSearch(url, draft)
  /\ timer' = FALSE
  /\ UNCHANGED <<view, url, draft, rows, overtaken>>

\* A tab, and the buttons of the pager.
ChooseTab(t) ==
  /\ t # url.tab
  /\ going' = SetTab(url, t)
  /\ UNCHANGED <<view, url, draft, timer, rows, overtaken>>
Turn ==
  /\ rows.current
  /\ going' = SetPage(url, IF url.page = First THEN Second(url) ELSE First)
  /\ UNCHANGED <<view, url, draft, timer, rows, overtaken>>

\* A page that can be in the history of the list.
Visited(u) ==
  /\ u.page \in {First, Second(u)}
  /\ u.search \in (IF Lists[view].clears THEN {u.tab} ELSE Tabs) \cup {0}
  /\ Lists[view].searches \/ u.search = 0
Back ==
  /\ \E u \in Url : Visited(u) /\ going' = u
  /\ UNCHANGED <<view, url, draft, timer, rows, overtaken>>

\* Mutant: the box keeps its draft when the search changes.
FollowNot ==
  IF going.search # url.search THEN draft' = draft /\ timer' = FALSE
  ELSE draft' = draft /\ timer' = (draft # going.search)

\* A box that stays follows a search that has changed; otherwise its effect runs
\* again, as onChange is a new function.
Follow ==
  IF going.search # url.search \/ (going.tab # url.tab /\ Lists[view].box)
  THEN draft' = going.search /\ timer' = FALSE
  ELSE draft' = draft /\ timer' = (draft # going.search)
\* The navigation is rendered.  One to the very URL rendered changes nothing in
\* the box, whatever it took the place of.
Render ==
  /\ going # NoUrl
  /\ url' = going /\ going' = NoUrl
  /\ overtaken' = (going = url)
  /\ IF going = url THEN UNCHANGED <<draft, timer>> ELSE Follow
  /\ rows' = IF going.tab # url.tab /\ Lists[view].list THEN NoRows
             ELSE [rows EXCEPT !.current = @ /\ KeyOf(going) = KeyOf(url)]
  /\ UNCHANGED view

Load ==
  /\ ~rows.current
  /\ rows' = [of |-> AskOf(url), current |-> TRUE]
  /\ UNCHANGED <<view, url, going, draft, timer, overtaken>>

\* DataList: the rows of the query, or those that stand in for them.
StandsIn == Lists[view].any \/ rows.of.tab = url.tab
Shown    == IF rows.current \/ StandsIn THEN rows.of ELSE NoUrl

ListNext ==
  \/ Pause \/ Turn \/ Back \/ Render \/ Load
  \/ \E t \in Tabs : ChooseTab(t)
  \/ \E word \in {0, url.tab} : Type(word)

-----------------------------------------------------------------------------
\* Every variable has its type.
ListTypeOK ==
  /\ view \in DOMAIN Lists /\ url \in Url /\ going \in Url \cup {NoUrl}
  /\ draft \in Word /\ {timer, overtaken} \subseteq BOOLEAN /\ rows.of \in Url \cup {NoUrl}

\* Rows that are not marked as stand-ins answer the query of the URL, and even
\* stand-ins are of its tab: "never show one report's data as another's"
\* (pages/reports.tsx), nor a brand's rows among the suppliers, where a click
\* would edit it.  (One expiry view may stand in for the other: both list
\* batches.)
ShownRowsAreAsked ==
  /\ rows.current => rows.of = AskOf(url)
  /\ Shown # NoUrl /\ view # "expiring" => Shown.tab = url.tab

\* However typing, tabs, pages and the back button overlap with navigations
\* under way, a page number belongs to the tab and search it was asked on, and
\* in the catalog so does a search to its tab.
UrlFitsItsTab ==
  /\ url.page \in {First, Second(url)}
  /\ Lists[view].clears => url.search \in {0, url.tab}

\* What stands in the search box is searched for already, or will be: its
\* timeout runs or a navigation is about to settle the matter.  It is lost only if
\* its navigation was overtaken by one back to the very URL on show.
DraftIsHeard == draft # url.search => timer \/ going # NoUrl \/ overtaken
==============================================================================
