----------------------------- MODULE FrontendProofs -----------------------------
(***************************************************************************)
(* Proofs about module Frontend.  For any page, role and form: what a form *)
(* wrote comes to be seen, and nobody is led to a refusal.  What is posted *)
(* is counted by what was submitted, for any number of writes and losses.  *)
(* For any products, prices and cash, a sale is of the amounts the cart    *)
(* showed.  For any sequence of keys, pauses, tabs, pages and navigations, *)
(* what holds of the URL rendered holds of the one under way, and of what  *)
(* the search box may still report.                                        *)
(***************************************************************************)
EXTENDS Frontend, DataLemmas

(***************************************************************************)
(* The list.                                                               *)
(***************************************************************************)
Fits(u) ==
  /\ u.page \in {First, Second(u)}
  /\ Lists[view].clears => u.search \in {0, u.tab}

Typed ==
  /\ view \in DOMAIN Lists /\ url \in Url /\ going \in Url \cup {NoUrl}
  /\ draft \in Word /\ timer \in BOOLEAN /\ overtaken \in BOOLEAN
  /\ rows \in [of : Url \cup {NoUrl}, current : BOOLEAN]

ListInv ==
  /\ Typed
  /\ Fits(url) /\ (going # NoUrl => Fits(going))
  /\ Lists[view].clears => draft \in {0, url.tab}
  /\ DraftIsHeard
  /\ ShownRowsAreAsked

-----------------------------------------------------------------------------
\* What is common to the lists: one that clears the search has a new search box
\* with each tab; one that lets any rows stand in is mounted anew, or shows
\* batches either way.
LEMMA EachList ==
  ASSUME NEW v \in DOMAIN Lists
  PROVE  /\ Lists[v].clears => Lists[v].box
         /\ Lists[v].any /\ v # "expiring" => Lists[v].list
         /\ Lists[v].clears \in BOOLEAN /\ Lists[v].box \in BOOLEAN
         /\ Lists[v].list \in BOOLEAN /\ Lists[v].any \in BOOLEAN
  <1>1. v \in {"catalog", "inventory", "expiring", "reports"}
    BY DEF Lists
  <1>2. CASE v = "catalog"
    BY <1>2 DEF Lists, List
  <1>3. CASE v = "inventory"
    BY <1>3 DEF Lists, List
  <1>4. CASE v = "expiring"
    BY <1>4 DEF Lists, List
  <1>5. CASE v = "reports"
    BY <1>5 DEF Lists, List
  <1> QED
    BY <1>1, <1>2, <1>3, <1>4, <1>5

\* A URL is never the absence of one, and every way to make one makes one.
LEMMA Urls ==
  /\ NoUrl \notin Url
  /\ \A u \in Url : u = [tab |-> u.tab, search |-> u.search, page |-> u.page]
                    /\ u.tab \in Tabs /\ u.search \in Word
  /\ \A u \in Url : Second(u) \in Tabs \X (1 .. 3) /\ Second(u) # First
  BY DEF Url, NoUrl, Tabs, Word, First, Second

LEMMA InitListInv == ListInit => ListInv
  <1> SUFFICES ASSUME ListInit PROVE ListInv
    OBVIOUS
  <1>1. url \in Url /\ rows \in [of : Url \cup {NoUrl}, current : BOOLEAN] /\ rows.of = NoUrl
    BY DEF ListInit, Url, Tabs, Word, First, NoRows
  <1>2. Typed /\ Fits(url)
    BY <1>1 DEF ListInit, Typed, Fits, Word, First
  <1>3. DraftIsHeard /\ ShownRowsAreAsked
    BY <1>1 DEF ListInit, DraftIsHeard, ShownRowsAreAsked, Shown, NoRows, NoUrl
  <1> QED
    BY <1>2, <1>3 DEF ListInit, ListInv

\* A step that only asks for a navigation to a URL that fits.
LEMMA GoingTo ==
  ASSUME ListInv, NEW u \in Url, Fits(u), going' = u, timer' \in BOOLEAN,
         UNCHANGED <<view, url, draft, rows, overtaken>>
  PROVE  ListInv'
  <1>1. Typed' /\ Fits(url)' /\ Fits(going)' /\ (Lists[view].clears => draft \in {0, url.tab})'
    BY DEF ListInv, Typed, Fits
  <1>2. DraftIsHeard'
    BY Urls DEF DraftIsHeard
  <1>3. ShownRowsAreAsked'
    BY DEF ListInv, ShownRowsAreAsked, Shown, StandsIn, AskOf
  <1> QED
    BY <1>1, <1>2, <1>3 DEF ListInv

LEMMA TypeInv ==
  ASSUME ListInv, NEW word \in {0, url.tab}, Type(word)
  PROVE  ListInv'
  <1>1. word \in Word /\ UNCHANGED <<view, url, going, rows>>
    BY Urls DEF ListInv, Typed, Type, Word
  <1>2. Typed' /\ Fits(url)' /\ (going # NoUrl => Fits(going))'
    BY <1>1 DEF ListInv, Typed, Fits, Type
  <1>3. DraftIsHeard' /\ (Lists[view].clears => draft \in {0, url.tab})'
    BY <1>1 DEF DraftIsHeard, Type
  <1>4. ShownRowsAreAsked'
    BY <1>1 DEF ListInv, ShownRowsAreAsked, Shown, StandsIn, AskOf
  <1> QED
    BY <1>2, <1>3, <1>4 DEF ListInv

LEMMA RenderInv ==
  ASSUME ListInv, Render
  PROVE  ListInv'
  <1>1. going \in Url /\ url' = going /\ going' = NoUrl /\ view' = view /\ view \in DOMAIN Lists
    BY DEF ListInv, Typed, Render
  <1>2. Fits(url)' /\ timer' \in BOOLEAN /\ overtaken' \in BOOLEAN
    BY <1>1 DEF ListInv, Typed, Fits, Render, Follow
  <1>3. draft' \in Word /\ DraftIsHeard' /\ (Lists[view].clears => draft \in {0, url.tab})'
    <2>0. CASE going = url
      BY <1>1, <2>0 DEF Render, DraftIsHeard, ListInv, Typed
    <2>1. CASE going.search # url.search \/ (going.tab # url.tab /\ Lists[view].box)
      BY <1>1, <2>1, Urls DEF Render, Follow, DraftIsHeard, ListInv, Fits
    <2>2. CASE going # url /\ ~(going.search # url.search \/ (going.tab # url.tab /\ Lists[view].box))
      BY <1>1, <2>2, EachList DEF Render, Follow, DraftIsHeard, ListInv, Typed
    <2> QED
      BY <2>0, <2>1, <2>2
  <1>4. CASE going.tab # url.tab /\ Lists[view].list
    <2>1. rows' = NoRows
      BY <1>4 DEF Render
    <2>2. ShownRowsAreAsked' /\ rows' \in [of : Url \cup {NoUrl}, current : BOOLEAN]
      BY <2>1 DEF ShownRowsAreAsked, Shown, NoRows
    <2> QED
      BY <1>1, <1>2, <1>3, <2>2 DEF ListInv, Typed
  <1>5. CASE ~(going.tab # url.tab /\ Lists[view].list)
    <2>1. rows' = [of |-> rows.of, current |-> rows.current /\ KeyOf(going) = KeyOf(url)]
      BY <1>5 DEF Render, ListInv, Typed
    <2>2. KeyOf(going) = KeyOf(url) => going = url
      BY <1>1, Urls DEF KeyOf, ListInv, Typed
    <2>3. rows'.of = rows.of /\ (rows'.current => rows.current /\ going = url)
      BY <2>1, <2>2
    <2>4. (rows.current => rows.of = AskOf(url))'
      BY <1>1, <2>3 DEF ListInv, ShownRowsAreAsked, AskOf
    <2>5. ASSUME Shown' # NoUrl, view # "expiring"
          PROVE  Shown'.tab = url'.tab
      <3>1. CASE rows'.current
        BY <1>1, <2>3, <2>4, <3>1 DEF Shown, AskOf
      <3>2. CASE ~rows'.current
        <4>1. Shown' = rows.of /\ (Lists[view].any \/ rows.of.tab = going.tab)
          BY <1>1, <2>3, <2>5, <3>2 DEF Shown, StandsIn
        <4>2. CASE Lists[view].any
          <5>1. going.tab = url.tab
            BY <1>1, <1>5, <2>5, <4>2, EachList
          <5>2. Shown = rows.of
            BY <4>2 DEF Shown, StandsIn
          <5> QED
            BY <1>1, <2>5, <4>1, <5>1, <5>2 DEF ListInv, ShownRowsAreAsked
        <4> QED
          BY <1>1, <4>1, <4>2
      <3> QED
        BY <3>1, <3>2
    <2>6. ShownRowsAreAsked' /\ rows' \in [of : Url \cup {NoUrl}, current : BOOLEAN]
      BY <1>1, <2>1, <2>4, <2>5 DEF ShownRowsAreAsked, ListInv, Typed
    <2> QED
      BY <1>1, <1>2, <1>3, <2>6 DEF ListInv, Typed
  <1> QED
    BY <1>4, <1>5

LEMMA LoadInv ==
  ASSUME ListInv, Load
  PROVE  ListInv'
  <1>1. AskOf(url) \in Url /\ AskOf(url).tab = url.tab
    BY Urls DEF AskOf, ListInv, Typed
  <1>2. rows' = [of |-> AskOf(url), current |-> TRUE] /\ UNCHANGED <<view, url, going, draft, timer, overtaken>>
    BY DEF Load
  <1>3. ShownRowsAreAsked'
    BY <1>1, <1>2 DEF ShownRowsAreAsked, Shown, AskOf
  <1> QED
    BY <1>1, <1>2, <1>3 DEF ListInv, Typed, Fits, DraftIsHeard

\* One step per way to change the URL; the rest are lemmas of their own.
LEMMA ListStepInv ==
  ASSUME ListInv, ListNext
  PROVE  ListInv'
  <1> USE DEF ListInv, Typed
  <1>1. CASE Pause
    <2>1. SetSearch(url, draft) \in Url /\ Fits(SetSearch(url, draft))
      BY Urls DEF SetSearch, Fits, Url, First
    <2> QED
      BY <1>1, <2>1, GoingTo DEF Pause
  <1>2. CASE Turn
    <2>1. ASSUME NEW p \in {First, Second(url)}
          PROVE  SetPage(url, p) \in Url /\ Fits(SetPage(url, p))
      BY Urls DEF SetPage, Fits, Url, First, Second
    <2> QED
      BY <1>2, <2>1, GoingTo DEF Turn
  <1>3. CASE Back
    <2>1. PICK u \in Url : Visited(u) /\ going' = u
      BY <1>3 DEF Back
    <2>2. Fits(u)
      BY <2>1 DEF Visited, Fits
    <2> QED
      BY <1>3, <2>1, <2>2, GoingTo DEF Back
  <1>4. ASSUME NEW t \in Tabs, ChooseTab(t)
        PROVE  ListInv'
    <2>1. SetTab(url, t) \in Url /\ Fits(SetTab(url, t))
      BY Urls DEF SetTab, Fits, Url, First, Word
    <2> QED
      BY <1>4, <2>1, GoingTo DEF ChooseTab
  <1> QED
    BY <1>1, <1>2, <1>3, <1>4, TypeInv, RenderInv, LoadInv DEF ListNext

-----------------------------------------------------------------------------
(***************************************************************************)
(* The pages: how the key of a query tells what it shows, what every form  *)
(* sees to, and where its links lead.                                      *)
(***************************************************************************)
\* The first part of the key of a query that shows some data.
ShownAs(data, name) ==
  \/ data = name /\ data # "stock"
  \/ data = "sales"     /\ name \in {"sale", "customers"}
  \/ data = "expenses"  /\ name = "sales"
  \/ data = "purchases" /\ name = "purchase"
  \/ data = "products"  /\ name \in {"product", "inventory"}
  \/ data = "stock"     /\ name \in {"products", "product", "batches", "movements", "inventory"}
  \/ data = "settings"  /\ name = "inventory"

\* The keys that are of one part only.
Single == {"sale", "purchase", "product", "settings"}

\* The first part of a key tells what its query shows; the totals of the day,
\* which show the expenses too, are found by the whole of theirs.
KeyIsNamed(q) ==
  /\ q.key = <<q.key[1]>> \/ q.key = <<q.key[1], q.key[2]>>
  /\ \A data \in q.reads : ShownAs(data, q.key[1])
  /\ q.key[1] \in Single => q.key = <<q.key[1]>>
  /\ "expenses" \in q.reads /\ q.key[1] = "sales" => q.key = <<"sales", "summary">>
  /\ q.minute => q.key[1] \notin {"inventory", "product"}

Reports == {"sales", "profit", "expenses", "stock-valuation", "expiry"}

\* Every page is one of these.
LEMMA EachPage ==
  ASSUME NEW p \in DOMAIN Pages
  PROVE  \/ Pages[p] \in {DashboardPage, NotificationsPage, PosPage, SalesPage, SaleDetailPage,
                         CustomersPage, PurchasesPage, PurchaseDetailPage,
                         PurchaseFormPage(<<>>), PurchaseFormPage(<<"purchase">>), ExpensesPage,
                         ProductsPage, ProductDetailPage, ProductFormPage(<<>>),
                         ProductFormPage(<<"product">>), InventoryPage, RefManager("categories"),
                         StaffPage, SettingsPage, AuditPage}
         \/ \E report \in Reports : Pages[p] = ReportsPage(report)
  BY DEF Pages, Reports

\* A query of a drop-down, field by field.
LEMMA Options ==
  ASSUME NEW kind
  PROVE  RefOptions(kind) =
           [key |-> <<kind, "options">>, if |-> {}, unless |-> {}, needs |-> {"catalog.view"},
            reads |-> {kind}, minute |-> TRUE, mounted |-> TRUE]
  <1> DEFINE k == <<kind, "options">>
             n == {"catalog.view"}
             r == {kind}
  <1>1. RefOptions(kind) = Minute(Query(k, n, r))
    BY DEF RefOptions
  <1> HIDE DEF k, n, r
  <1>2. RefOptions(kind) = [key |-> k, if |-> {}, unless |-> {}, needs |-> n,
                            reads |-> r, minute |-> TRUE, mounted |-> TRUE]
    BY <1>1 DEF Minute, Query
  <1> QED
    BY <1>2 DEF k, n, r

\* So it is with every query of every page.
LEMMA QueriesAreNamed ==
  ASSUME NEW p \in DOMAIN Pages, NEW q \in Pages[p].queries
  PROVE  KeyIsNamed(q)
  <1>1. ASSUME NEW it \in DashboardPage.queries PROVE KeyIsNamed(it)
    <2>1. \/ /\ it.key = <<"sales", "summary">> /\ it.reads = {"sales", "expenses"}
             /\ it.minute = FALSE
          \/ it.key = <<"sales", "my-summary">> /\ it.reads = {"sales"} /\ it.minute = FALSE
          \/ /\ it.key = <<"inventory", "summary">> /\ it.reads = {"stock", "products", "settings"}
             /\ it.minute = FALSE
      BY DEF DashboardPage, Page, Query, If, Unless
    <2> QED
      BY <2>1 DEF KeyIsNamed, ShownAs, Single
  <1>2. \A it \in NotificationsPage.queries : KeyIsNamed(it)
    BY DEF NotificationsPage, NotificationBell, Page, Query, KeyIsNamed, ShownAs, Single
  <1>3. \A it \in PosPage.queries : KeyIsNamed(it)
    BY DEF PosPage, Aside, Page, Query, KeyIsNamed, ShownAs, Single
  <1>4. \A it \in SalesPage.queries : KeyIsNamed(it)
    BY DEF SalesPage, Page, Query, KeyIsNamed, ShownAs, Single
  <1>5. \A it \in SaleDetailPage.queries : KeyIsNamed(it)
    BY DEF SaleDetailPage, Page, Query, KeyIsNamed, ShownAs, Single
  <1>6. \A it \in CustomersPage.queries : KeyIsNamed(it)
    BY DEF CustomersPage, Page, Query, KeyIsNamed, ShownAs, Single
  <1>7. ASSUME NEW it \in PurchasesPage.queries PROVE KeyIsNamed(it)
    <2>1. \/ it.key = <<"purchases", "list">> /\ it.reads = {"purchases"}
          \/ it.key = <<"suppliers", "options">> /\ it.reads = {"suppliers"}
      BY Options DEF PurchasesPage, Page, Query, If
    <2> QED
      BY <2>1 DEF KeyIsNamed, ShownAs, Single
  <1>8. \A it \in PurchaseDetailPage.queries : KeyIsNamed(it)
    BY DEF PurchaseDetailPage, Page, Query, KeyIsNamed, ShownAs, Single
  <1>9. \A it \in PurchaseFormPage(<<>>).queries : KeyIsNamed(it)
    BY DEF PurchaseFormPage, RefOptions, Minute, Aside, Page, Query, KeyIsNamed, ShownAs, Single
  <1>10. \A it \in PurchaseFormPage(<<"purchase">>).queries : KeyIsNamed(it)
    BY DEF PurchaseFormPage, RefOptions, Minute, Aside, Page, Query, KeyIsNamed, ShownAs, Single
  <1>11. \A it \in ExpensesPage.queries : KeyIsNamed(it)
    BY DEF ExpensesPage, ExpenseCategories, Minute, Page, Query, KeyIsNamed, ShownAs, Single
  <1>12. \A it \in ProductsPage.queries : KeyIsNamed(it)
    BY DEF ProductsPage, References, RefOptions, Minute, Page, Query, KeyIsNamed, ShownAs, Single
  <1>13. \A it \in ProductDetailPage.queries : KeyIsNamed(it)
    BY DEF ProductDetailPage, If, Page, Query, KeyIsNamed, ShownAs, Single
  <1>14. \A it \in ProductFormPage(<<>>).queries : KeyIsNamed(it)
    BY DEF ProductFormPage, References, RefOptions, Minute, Page, Query, KeyIsNamed, ShownAs, Single
  <1>15. \A it \in ProductFormPage(<<"product">>).queries : KeyIsNamed(it)
    BY DEF ProductFormPage, References, RefOptions, Minute, Page, Query, KeyIsNamed, ShownAs, Single
  <1>16. \A it \in InventoryPage.queries : KeyIsNamed(it)
    BY DEF InventoryPage, Page, Query, KeyIsNamed, ShownAs, Single
  <1>17. ASSUME NEW it \in RefManager("categories").queries PROVE KeyIsNamed(it)
    <2>1. /\ it.key \in {<<"categories", "list">>, <<"categories", "options">>}
          /\ it.reads = {"categories"}
      BY Options DEF RefManager, Page, Query, Aside
    <2> QED
      BY <2>1 DEF KeyIsNamed, ShownAs, Single
  <1>18. ASSUME NEW report \in Reports, NEW it \in ReportsPage(report).queries PROVE KeyIsNamed(it)
    BY DEF ReportsPage, Page, Query, KeyIsNamed, ShownAs, Single
  <1>19. \A it \in StaffPage.queries : KeyIsNamed(it)
    BY DEF StaffPage, Roles, Minute, Page, Query, KeyIsNamed, ShownAs, Single
  <1>20. \A it \in SettingsPage.queries : KeyIsNamed(it)
    BY DEF SettingsPage, If, Page, Query, KeyIsNamed, ShownAs, Single
  <1>21. \A it \in AuditPage.queries : KeyIsNamed(it)
    BY DEF AuditPage, Page, Query, KeyIsNamed, ShownAs, Single
  <1> QED
    BY EachPage, <1>1, <1>2, <1>3, <1>4, <1>5, <1>6, <1>7, <1>8, <1>9, <1>10, <1>11, <1>12,
       <1>13, <1>14, <1>15, <1>16, <1>17, <1>18, <1>19, <1>20, <1>21

-----------------------------------------------------------------------------
\* The keys a page has mounted, and the page an operation ends on.
MountedKeys(p) == {it.key : it \in {q \in Pages[p].queries : q.mounted}}
Leads(op, p)   == IF op.to = "stay" THEN p ELSE op.to

\* The operation sees to it that the query is set or asked again.
Covers(op, key)  == key \in op.sets \/ \E prefix \in op.refreshes : IsPrefix(prefix, key)
Touches(op, q)   == q.reads \cap op.writes # {}
OnView(op, p, q) == q.minute \/ q.key \in MountedKeys(Leads(op, p))

CoversView(p, op) ==
  \A q : KeyIsNamed(q) /\ Touches(op, q) /\ OnView(op, p, q) => Covers(op, q.key)

\* It asks again for whatever shows what it writes, but these.
AsksAllBut(op, unseen) ==
  \A data \in op.writes : \A name : ShownAs(data, name) /\ name \notin unseen =>
    <<name>> \in op.refreshes \/ (name \in Single /\ <<name>> \in op.sets)

NotOn(p, unseen) == \A key \in MountedKeys(p) : key[1] \notin unseen

\* A key is covered by its first part, or as it stands.
LEMMA CoveredByName ==
  ASSUME NEW q, KeyIsNamed(q), NEW op,
         \/ q.key \in op.refreshes
         \/ <<q.key[1]>> \in op.sets /\ q.key[1] \in Single
         \/ <<q.key[1]>> \in op.refreshes
  PROVE  Covers(op, q.key)
  <1>1. IsPrefix(<<q.key[1]>>, q.key) /\ IsPrefix(q.key, q.key)
    BY DEF KeyIsNamed, IsPrefix
  <1>2. q.key[1] \in Single => q.key = <<q.key[1]>>
    BY DEF KeyIsNamed
  <1> QED
    BY <1>1, <1>2 DEF Covers

\* It is enough to ask for what can be seen.
LEMMA CoversShown ==
  ASSUME NEW p, NEW op, NEW unseen \in SUBSET {"inventory", "product"},
         NotOn(Leads(op, p), unseen), AsksAllBut(op, unseen)
  PROVE  CoversView(p, op)
  <1> SUFFICES ASSUME NEW q, KeyIsNamed(q), Touches(op, q), OnView(op, p, q)
               PROVE  Covers(op, q.key)
    BY DEF CoversView
  <1>1. q.key[1] \notin unseen
    BY DEF OnView, KeyIsNamed, NotOn
  <1>2. PICK data \in op.writes : ShownAs(data, q.key[1])
    BY DEF KeyIsNamed, Touches
  <1>3. <<q.key[1]>> \in op.refreshes \/ (q.key[1] \in Single /\ <<q.key[1]>> \in op.sets)
    BY <1>1, <1>2 DEF AsksAllBut
  <1> QED
    BY <1>3, CoveredByName

LEMMA CoversAll ==
  ASSUME NEW p, NEW op, AsksAllBut(op, {})
  PROVE  CoversView(p, op)
  BY CoversShown DEF NotOn

\* The product pages do not show the alerts of the inventory, which they do not
\* refresh; nor does what follows on deleting a product show it again.
LEMMA ProductKeys ==
  /\ NotOn("product", {"inventory"}) /\ NotOn("settings", {"inventory"})
  /\ NotOn("products", {"inventory", "product"})
  <1>1. /\ Pages["product"] = ProductDetailPage /\ Pages["products"] = ProductsPage
        /\ Pages["settings"] = SettingsPage
    BY DEF Pages
  <1>2. \A q \in ProductDetailPage.queries : q.key[1] \in {"product", "batches", "movements"}
    BY DEF ProductDetailPage, Page, Query, If
  <1>3. \A q \in ProductsPage.queries : q.key[1] \notin {"inventory", "product"}
    BY DEF ProductsPage, Page, References, RefOptions, Minute, Query
  <1>4. \A q \in SettingsPage.queries : q.key[1] = "settings"
    BY DEF SettingsPage, Page, Query, If
  <1> QED
    BY <1>1, <1>2, <1>3, <1>4 DEF MountedKeys, NotOn

-----------------------------------------------------------------------------
\* What there is to an operation besides: whether it waits, where it leads, and
\* the draft that is left of a purchase that was not received.
OpIsSound(p, op) ==
  /\ CoversView(p, op)
  /\ op.waits \in BOOLEAN /\ op.to \in {"stay"} \cup DOMAIN Pages
  /\ op.second = "receive" => SaveDraft(op.creates) \in Pages[p].ops

\* The keys that sales, purchases and movements of stock change.
LEMMA StockCovered ==
  ASSUME NEW op, op.writes \subseteq {"sales", "stock", "customers", "purchases", "products"},
         "sales" \in op.writes \/ "customers" \in op.writes =>
           /\ <<"sales">> \in op.refreshes /\ <<"customers">> \in op.refreshes
           /\ <<"sale">> \in op.sets \cup op.refreshes,
         "purchases" \in op.writes =>
           <<"purchases">> \in op.refreshes /\ <<"purchase">> \in op.sets,
         "stock" \in op.writes \/ "products" \in op.writes => StockKeys \subseteq op.refreshes
  PROVE  AsksAllBut(op, {})
  <1> SUFFICES ASSUME NEW data \in op.writes, NEW name, ShownAs(data, name)
               PROVE  <<name>> \in op.refreshes \/ (name \in Single /\ <<name>> \in op.sets)
    BY DEF AsksAllBut
  <1>1. CASE data = "sales" \/ data = "customers"
    <2>1. name \in {"sales", "sale", "customers"}
      BY <1>1 DEF ShownAs
    <2> QED
      BY <1>1, <2>1 DEF Single
  <1>2. CASE data = "purchases"
    <2>1. name \in {"purchases", "purchase"}
      BY <1>2 DEF ShownAs
    <2> QED
      BY <1>2, <2>1 DEF Single
  <1>3. CASE data = "stock" \/ data = "products"
    <2>1. name \in {"products", "product", "batches", "movements", "inventory"}
      BY <1>3 DEF ShownAs
    <2>2. <<name>> \in StockKeys
      BY <2>1 DEF StockKeys
    <2> QED
      BY <1>3, <2>2
  <1> QED
    BY <1>1, <1>2, <1>3

\* An operation on rows that only their own lists show.
Plain == {"customers", "notifications", "categories", "expense-categories", "staff"}
LEMMA PlainCovered ==
  ASSUME NEW op, NEW kind \in Plain, op.writes = {kind}, op.refreshes = {<<kind>>}
  PROVE  AsksAllBut(op, {})
  BY DEF AsksAllBut, ShownAs, Plain

\* The forms, page by page.
LEMMA SalesOps ==
  /\ \A op \in PosPage.ops : OpIsSound("pos", op)
  /\ \A op \in SaleDetailPage.ops : OpIsSound("sale", op)
  <1>0. "sale" \in DOMAIN Pages
    BY DEF Pages
  <1>1. OpIsSound("pos", CompleteSale)
    <2>1. /\ CompleteSale.writes = {"sales", "stock", "customers"}
          /\ CompleteSale.sets = {<<"sale">>}
          /\ CompleteSale.refreshes = StockKeys \cup {<<"sales">>, <<"customers">>}
          /\ CompleteSale.waits = TRUE /\ CompleteSale.to = "sale" /\ CompleteSale.second = "none"
      BY DEF CompleteSale, Form
    <2>2. AsksAllBut(CompleteSale, {})
      BY <2>1, StockCovered
    <2> QED
      BY <1>0, <2>1, <2>2, CoversAll DEF OpIsSound
  <1>2. OpIsSound("sale", RecordPayment)
    <2>1. /\ RecordPayment.writes = {"sales"}
          /\ RecordPayment.refreshes = {<<"sale">>, <<"sales">>, <<"customers">>}
          /\ RecordPayment.waits = TRUE /\ RecordPayment.to = "stay"
          /\ RecordPayment.second = "none"
      BY DEF RecordPayment, Form
    <2>2. AsksAllBut(RecordPayment, {})
      BY <2>1, StockCovered
    <2> QED
      BY <2>1, <2>2, CoversAll DEF OpIsSound
  <1>3. OpIsSound("sale", VoidSale)
    <2>1. /\ VoidSale.writes = {"sales", "stock"}
          /\ VoidSale.refreshes = StockKeys \cup {<<"sale">>, <<"sales">>, <<"customers">>}
          /\ VoidSale.waits = TRUE /\ VoidSale.to = "stay" /\ VoidSale.second = "none"
      BY DEF VoidSale, Form
    <2>2. AsksAllBut(VoidSale, {})
      BY <2>1, StockCovered
    <2> QED
      BY <2>1, <2>2, CoversAll DEF OpIsSound
  <1>4. PosPage.ops = {CompleteSale} /\ SaleDetailPage.ops = {RecordPayment, VoidSale}
    BY DEF PosPage, SaleDetailPage, Page
  <1> QED
    BY <1>1, <1>2, <1>3, <1>4

LEMMA PurchaseOps ==
  /\ \A op \in PurchaseDetailPage.ops : OpIsSound("purchase", op)
  /\ \A op \in PurchaseFormPage(<<>>).ops : OpIsSound("newPurchase", op)
  /\ \A op \in PurchaseFormPage(<<"purchase">>).ops : OpIsSound("editPurchase", op)
  <1>0. /\ "purchase" \in DOMAIN Pages
        /\ Pages["newPurchase"] = PurchaseFormPage(<<>>)
        /\ Pages["editPurchase"] = PurchaseFormPage(<<"purchase">>)
    BY DEF Pages
  <1>1. OpIsSound("purchase", ReceivePurchase)
    <2>1. /\ ReceivePurchase.writes = {"purchases", "stock", "products"}
          /\ ReceivePurchase.refreshes = StockKeys \cup {<<"purchases">>}
          /\ ReceivePurchase.sets = {<<"purchase">>} /\ ReceivePurchase.waits = TRUE
          /\ ReceivePurchase.to = "stay" /\ ReceivePurchase.second = "none"
      BY DEF ReceivePurchase, Form
    <2>2. AsksAllBut(ReceivePurchase, {})
      BY <2>1, StockCovered
    <2> QED
      BY <2>1, <2>2, CoversAll DEF OpIsSound
  <1>2. OpIsSound("purchase", CancelPurchase)
    <2>1. /\ CancelPurchase.writes = {"purchases"} /\ CancelPurchase.refreshes = {<<"purchases">>}
          /\ CancelPurchase.sets = {<<"purchase">>} /\ CancelPurchase.waits = TRUE
          /\ CancelPurchase.to = "stay" /\ CancelPurchase.second = "none"
      BY DEF CancelPurchase, Form
    <2>2. AsksAllBut(CancelPurchase, {})
      BY <2>1, StockCovered
    <2> QED
      BY <2>1, <2>2, CoversAll DEF OpIsSound
  <1>3. ASSUME NEW new \in BOOLEAN, NEW p, SaveDraft(new) \in Pages[p].ops
        PROVE  OpIsSound(p, SaveDraft(new)) /\ OpIsSound(p, SaveAndReceive(new))
    <2> DEFINE one == SaveDraft(new)
               two == SaveAndReceive(new)
    <2>1. /\ one.writes = {"purchases"} /\ one.refreshes = {<<"purchases">>}
          /\ one.sets = {<<"purchase">>} /\ one.waits = TRUE
          /\ one.to = "purchase" /\ one.second = "none" /\ one.creates = new
      BY DEF SaveDraft, Form
    <2>2. /\ two.writes = {"purchases", "stock", "products"}
          /\ two.refreshes = StockKeys \cup {<<"purchases">>}
          /\ two.sets = {<<"purchase">>} /\ two.waits = TRUE
          /\ two.to = "purchase" /\ two.second = "receive" /\ two.creates = new
      BY DEF SaveDraft, SaveAndReceive, Form
    <2> HIDE DEF one, two
    <2>3. AsksAllBut(one, {})
      BY <2>1, StockCovered
    <2>4. AsksAllBut(two, {})
      BY <2>2, StockCovered
    <2>5. OpIsSound(p, one)
      BY <1>0, <2>1, <2>3, CoversAll DEF OpIsSound
    <2>6. OpIsSound(p, two)
      BY <1>0, <1>3, <2>2, <2>4, CoversAll DEF OpIsSound
    <2> QED
      BY <2>5, <2>6 DEF one, two
  <1>4. /\ PurchaseDetailPage.ops = {ReceivePurchase, CancelPurchase}
        /\ PurchaseFormPage(<<>>).ops = {SaveDraft(<<>> = <<>>), SaveAndReceive(<<>> = <<>>)}
        /\ PurchaseFormPage(<<"purchase">>).ops =
             {SaveDraft(<<"purchase">> = <<>>), SaveAndReceive(<<"purchase">> = <<>>)}
    BY DEF PurchaseDetailPage, PurchaseFormPage, Page
  <1>5. ASSUME NEW new \in BOOLEAN, NEW p, Pages[p].ops = {SaveDraft(new), SaveAndReceive(new)}
        PROVE  \A op \in Pages[p].ops : OpIsSound(p, op)
    BY <1>3, <1>5
  <1> QED
    BY <1>0, <1>1, <1>2, <1>4, <1>5

LEMMA ExpenseOps ==
  \A op \in ExpensesPage.ops : OpIsSound("expenses", op)
  <1>1. ASSUME NEW op \in {AddCategory, RemoveCategory} PROVE OpIsSound("expenses", op)
    <2>1. /\ op.writes = {"expense-categories"} /\ op.refreshes = {<<"expense-categories">>}
          /\ op.waits = TRUE /\ op.to = "stay" /\ op.second = "none"
      BY <1>1 DEF AddCategory, RemoveCategory, Form
    <2>2. AsksAllBut(op, {})
      BY <2>1, PlainCovered DEF Plain
    <2> QED
      BY <2>1, <2>2, CoversAll DEF OpIsSound
  <1>2. ASSUME NEW op \in {SaveExpense(TRUE), SaveExpense(FALSE), RemoveReceipt, DeleteExpense}
        PROVE  OpIsSound("expenses", op)
    <2>1. /\ op.writes = {"expenses"} /\ op.refreshes = {<<"expenses">>, <<"sales", "summary">>}
          /\ op.waits = TRUE /\ op.to = "stay" /\ op.second \in {"none", "receipt"}
      BY <1>2 DEF SaveExpense, RemoveReceipt, DeleteExpense, Form
    <2>2. ASSUME NEW q, KeyIsNamed(q), Touches(op, q) PROVE Covers(op, q.key)
      <3>1. "expenses" \in q.reads
        BY <2>1, <2>2 DEF Touches
      <3>2. ShownAs("expenses", q.key[1])
        BY <2>2, <3>1 DEF KeyIsNamed
      <3>3. q.key[1] \in {"expenses", "sales"}
        BY <3>2 DEF ShownAs
      <3>4. q.key[1] = "sales" => q.key = <<"sales", "summary">>
        BY <2>2, <3>1 DEF KeyIsNamed
      <3> QED
        BY <2>1, <2>2, <3>3, <3>4, CoveredByName
    <2> QED
      BY <2>1, <2>2 DEF OpIsSound, CoversView
  <1>3. ExpensesPage.ops = {SaveExpense(TRUE), SaveExpense(FALSE), RemoveReceipt, DeleteExpense,
                            AddCategory, RemoveCategory}
    BY DEF ExpensesPage, Page
  <1> QED
    BY <1>1, <1>2, <1>3

LEMMA ProductOps ==
  /\ \A op \in ProductDetailPage.ops : OpIsSound("product", op)
  /\ \A product, p : \A op \in ProductFormPage(product).ops : OpIsSound(p, op)
  /\ \A op \in SettingsPage.ops : OpIsSound("settings", op)
  <1>0. {"product", "products"} \subseteq DOMAIN Pages
    BY DEF Pages
  <1>1. OpIsSound("product", SetActive)
    <2> DEFINE op == SetActive
    <2>1. /\ op.writes = {"products"} /\ op.sets = {<<"product">>}
          /\ op.refreshes = {<<"products">>}
          /\ op.waits = FALSE /\ op.to = "stay" /\ op.second = "none"
      BY DEF SetActive, Form
    <2> HIDE DEF op
    <2>2. NotOn(Leads(op, "product"), {"inventory"})
      BY <2>1, ProductKeys DEF Leads
    <2>3. AsksAllBut(op, {"inventory"})
      BY <2>1 DEF AsksAllBut, ShownAs, Single
    <2>4. CoversView("product", op)
      BY <2>2, <2>3, CoversShown
    <2>5. OpIsSound("product", op)
      BY <2>1, <2>4 DEF OpIsSound
    <2> QED
      BY <2>5 DEF op
  <1>2. OpIsSound("product", DeleteProduct)
    <2> DEFINE op == DeleteProduct
    <2>1. /\ op.writes = {"products"} /\ op.refreshes = {<<"products">>}
          /\ op.waits = TRUE /\ op.to = "products" /\ op.second = "none"
      BY DEF DeleteProduct, Form
    <2> HIDE DEF op
    <2>2. NotOn(Leads(op, "product"), {"inventory", "product"})
      BY <2>1, ProductKeys DEF Leads
    <2>3. AsksAllBut(op, {"inventory", "product"})
      BY <2>1 DEF AsksAllBut, ShownAs
    <2>4. CoversView("product", op)
      BY <2>2, <2>3, CoversShown
    <2>5. OpIsSound("product", op)
      BY <1>0, <2>1, <2>4 DEF OpIsSound
    <2> QED
      BY <2>5 DEF op
  <1>3. OpIsSound("product", AdjustStock)
    <2>1. /\ AdjustStock.writes = {"stock"} /\ AdjustStock.refreshes = StockKeys
          /\ AdjustStock.waits = TRUE /\ AdjustStock.to = "stay" /\ AdjustStock.second = "none"
      BY DEF AdjustStock, Form
    <2>2. AsksAllBut(AdjustStock, {})
      BY <2>1, StockCovered
    <2> QED
      BY <2>1, <2>2, CoversAll DEF OpIsSound
  <1>4. ASSUME NEW product, NEW p, NEW op \in ProductFormPage(product).ops
        PROVE  OpIsSound(p, op)
    <2>1. op = SaveProduct(product = <<>>)
      BY <1>4 DEF ProductFormPage, Page
    <2>2. /\ op.writes = {"products"} /\ op.refreshes = {<<"products">>, <<"product">>}
          /\ op.waits = TRUE /\ op.to = "product" /\ op.second = "image"
      BY <2>1 DEF SaveProduct, Form
    <2>3. NotOn(Leads(op, p), {"inventory"})
      BY <2>2, ProductKeys DEF Leads
    <2>4. AsksAllBut(op, {"inventory"})
      BY <2>2 DEF AsksAllBut, ShownAs
    <2>5. CoversView(p, op)
      BY <2>3, <2>4, CoversShown
    <2> QED
      BY <1>0, <2>2, <2>5 DEF OpIsSound
  <1>5. OpIsSound("settings", SaveSettings)
    <2>1. /\ SaveSettings.writes = {"settings"} /\ SaveSettings.sets = {<<"settings">>}
          /\ SaveSettings.waits = TRUE /\ SaveSettings.to = "stay" /\ SaveSettings.second = "none"
      BY DEF SaveSettings, Form
    <2>2. NotOn(Leads(SaveSettings, "settings"), {"inventory"})
      BY <2>1, ProductKeys DEF Leads
    <2>3. AsksAllBut(SaveSettings, {"inventory"})
      BY <2>1 DEF AsksAllBut, ShownAs, Single
    <2>4. CoversView("settings", SaveSettings)
      BY <2>2, <2>3, CoversShown
    <2> QED
      BY <2>1, <2>4 DEF OpIsSound
  <1>6. /\ ProductDetailPage.ops = {SetActive, DeleteProduct, AdjustStock}
        /\ SettingsPage.ops = {SaveSettings}
    BY DEF ProductDetailPage, SettingsPage, Page
  <1> QED
    BY <1>1, <1>2, <1>3, <1>4, <1>5, <1>6

LEMMA OtherOps ==
  /\ \A op \in CustomersPage.ops : OpIsSound("customers", op)
  /\ \A op \in NotificationsPage.ops : OpIsSound("notifications", op)
  /\ \A op \in RefManager("categories").ops : OpIsSound("catalog", op)
  /\ \A report, p : \A op \in ReportsPage(report).ops : OpIsSound(p, op)
  /\ \A op \in StaffPage.ops : OpIsSound("staff", op)
  <1>1. ASSUME NEW p, NEW op, NEW kind \in Plain, op.writes = {kind}, op.refreshes = {<<kind>>},
               op.waits \in BOOLEAN, op.to = "stay", op.second = "none"
        PROVE  OpIsSound(p, op)
    <2>1. AsksAllBut(op, {})
      BY <1>1, PlainCovered
    <2> QED
      BY <1>1, <2>1, CoversAll DEF OpIsSound
  <1>2. ASSUME NEW op \in CustomersPage.ops PROVE OpIsSound("customers", op)
    <2>1. /\ op.writes = {"customers"} /\ op.refreshes = {<<"customers">>}
          /\ op.waits = TRUE /\ op.to = "stay" /\ op.second = "none"
      BY <1>2 DEF CustomersPage, Page, AddCustomer, Form
    <2> QED
      BY <1>1, <2>1 DEF Plain
  <1>3. ASSUME NEW op \in NotificationsPage.ops PROVE OpIsSound("notifications", op)
    <2>1. /\ op.writes = {"notifications"} /\ op.refreshes = {<<"notifications">>}
          /\ op.waits = TRUE /\ op.to = "stay" /\ op.second = "none"
      BY <1>3 DEF NotificationsPage, Page, Form
    <2> QED
      BY <1>1, <2>1 DEF Plain
  <1>4. ASSUME NEW op \in RefManager("categories").ops PROVE OpIsSound("catalog", op)
    <2>1. /\ op.writes = {"categories"} /\ op.refreshes = {<<"categories">>}
          /\ op.waits = TRUE /\ op.to = "stay" /\ op.second = "none"
      BY <1>4 DEF RefManager, Page, SaveReference, DeleteReference, Form
    <2> QED
      BY <1>1, <2>1 DEF Plain
  <1>5. ASSUME NEW report, NEW p, NEW op \in ReportsPage(report).ops PROVE OpIsSound(p, op)
    <2>1. op.writes = {} /\ op.waits = TRUE /\ op.to = "stay" /\ op.second = "none"
      BY <1>5 DEF ReportsPage, Page, DownloadReport, Form
    <2>2. AsksAllBut(op, {})
      BY <2>1 DEF AsksAllBut
    <2> QED
      BY <2>1, <2>2, CoversAll DEF OpIsSound
  <1>6. ASSUME NEW op \in StaffPage.ops PROVE OpIsSound("staff", op)
    <2>1. /\ op.writes = {"staff"} /\ op.refreshes = {<<"staff">>}
          /\ op.waits = TRUE /\ op.to = "stay" /\ op.second = "none"
      BY <1>6 DEF StaffPage, Page, AddStaff, ManageStaff, Form
    <2> QED
      BY <1>1, <2>1 DEF Plain
  <1> QED
    BY <1>2, <1>3, <1>4, <1>5, <1>6

LEMMA OpsAreSound ==
  ASSUME NEW p \in DOMAIN Pages, NEW op \in Pages[p].ops
  PROVE  OpIsSound(p, op)
  <1>1. /\ Pages["pos"] = PosPage /\ Pages["sale"] = SaleDetailPage
        /\ Pages["customers"] = CustomersPage /\ Pages["notifications"] = NotificationsPage
        /\ Pages["purchase"] = PurchaseDetailPage
        /\ Pages["newPurchase"] = PurchaseFormPage(<<>>)
        /\ Pages["editPurchase"] = PurchaseFormPage(<<"purchase">>)
        /\ Pages["expenses"] = ExpensesPage /\ Pages["product"] = ProductDetailPage
        /\ Pages["newProduct"] = ProductFormPage(<<>>)
        /\ Pages["editProduct"] = ProductFormPage(<<"product">>)
        /\ Pages["settings"] = SettingsPage /\ Pages["catalog"] = RefManager("categories")
        /\ Pages["staff"] = StaffPage
    BY DEF Pages
  <1>2. p \in {"salesReport", "profitReport", "expenseReport", "valuation", "expiryReport"}
          => \E report : Pages[p] = ReportsPage(report)
    BY DEF Pages
  <1>3. p \in {"home", "sales", "purchases", "products", "inventory", "audit"} => Pages[p].ops = {}
    <2>1. /\ Pages["home"] = DashboardPage /\ Pages["sales"] = SalesPage
          /\ Pages["purchases"] = PurchasesPage /\ Pages["products"] = ProductsPage
          /\ Pages["inventory"] = InventoryPage /\ Pages["audit"] = AuditPage
      BY DEF Pages
    <2>2. DashboardPage.ops = {}
      BY DEF DashboardPage, Page
    <2>3. SalesPage.ops = {} /\ PurchasesPage.ops = {}
      BY DEF SalesPage, PurchasesPage, Page
    <2>4. ProductsPage.ops = {} /\ InventoryPage.ops = {} /\ AuditPage.ops = {}
      BY DEF ProductsPage, InventoryPage, AuditPage, Page
    <2> QED
      BY <2>1, <2>2, <2>3, <2>4
  <1>4. DOMAIN Pages = {"home", "notifications", "pos", "sales", "sale", "customers", "purchases",
                        "purchase", "newPurchase", "editPurchase", "expenses", "products",
                        "product", "newProduct", "editProduct", "inventory", "catalog",
                        "salesReport", "profitReport", "expenseReport", "valuation",
                        "expiryReport", "staff", "settings", "audit"}
    BY DEF Pages
  <1> QED
    BY <1>1, <1>2, <1>3, <1>4, SalesOps, PurchaseOps, ExpenseOps, ProductOps, OtherOps
-----------------------------------------------------------------------------
\* What a user has who has some permissions: those of a seller, and to see the
\* purchases if he manages them.
Given(perms) == perms \cup SELLER \cup {x \in {"purchases.view"} : "purchases.manage" \in perms}

LEMMA Granted ==
  ASSUME NEW r \in DOMAIN Grants, NEW perms \in SUBSET Grants[r]
  PROVE  Given(perms) \subseteq Grants[r]
  <1>1. r \in {"OWNER", "ADMIN", "SELLER", "CASHIER"}
    BY DEF Grants
  <1>2. CASE r = "SELLER"
    <2>1. Grants[r] = SELLER /\ "purchases.manage" \notin SELLER
      BY <1>2 DEF Grants, SELLER
    <2> QED
      BY <2>1 DEF Given
  <1>3. CASE r # "SELLER"
    <2>1. Grants[r] \in {CASHIER, ADMIN, OWNER}
      BY <1>1, <1>3 DEF Grants
    <2>2. SELLER \subseteq Grants[r] /\ "purchases.view" \in Grants[r]
      BY <2>1 DEF OWNER, ADMIN, CASHIER
    <2> QED
      BY <2>2 DEF Given
  <1> QED
    BY <1>2, <1>3

\* Where a page's links, forms and queries lead is open to whom it offers them.
QueriesOpen(page) == \A q \in page.queries : q.needs \subseteq Given(page.door \cup q.if)
OpsOpen(page) ==
  \A op \in page.ops :
    /\ op.needs \subseteq Given(page.door \cup op.may)
    /\ op.to # "stay" => Pages[op.to].door \subseteq Given(page.door)
LinksOpen(page) ==
  \A link \in page.links : Pages[link.to].door \subseteq Given(page.door \cup link.if)
FiguresOpen(page) == \A f \in page.figures : f.needs \subseteq Given(page.door \cup f.if)

\* Who is shown a way to each page that is linked to.
LEMMA Doors ==
  /\ Pages["home"].door = {} /\ Pages["notifications"].door = {}
  /\ Pages["pos"].door = {"sales.create"}
  /\ Pages["sale"].door = {"sales.view"} /\ Pages["sales"].door = {"sales.view"}
  /\ Pages["customers"].door = {"sales.view"}
  /\ Pages["purchase"].door = {"purchases.view"} /\ Pages["purchases"].door = {"purchases.view"}
  /\ Pages["newPurchase"].door = {"purchases.manage"}
  /\ Pages["editPurchase"].door = {"purchases.manage"}
  /\ Pages["expenses"].door = {"expenses.view"}
  /\ Pages["product"].door = {"catalog.view"} /\ Pages["products"].door = {"catalog.view"}
  /\ Pages["newProduct"].door = {"catalog.manage"} /\ Pages["editProduct"].door = {"catalog.manage"}
  /\ Pages["inventory"].door = {"inventory.view"} /\ Pages["catalog"].door = {"catalog.view"}
  /\ Pages["staff"].door = {"staff.manage"} /\ Pages["settings"].door = {"settings.view"}
  /\ Pages["audit"].door = {"audit.view"} /\ Pages["salesReport"].door = {"reports.view"}
  <1>1. /\ Pages["home"] = DashboardPage /\ Pages["notifications"] = NotificationsPage
        /\ Pages["pos"] = PosPage /\ Pages["sale"] = SaleDetailPage /\ Pages["sales"] = SalesPage
        /\ Pages["customers"] = CustomersPage /\ Pages["purchase"] = PurchaseDetailPage
        /\ Pages["purchases"] = PurchasesPage /\ Pages["newPurchase"] = PurchaseFormPage(<<>>)
        /\ Pages["editPurchase"] = PurchaseFormPage(<<"purchase">>)
        /\ Pages["expenses"] = ExpensesPage /\ Pages["product"] = ProductDetailPage
        /\ Pages["products"] = ProductsPage /\ Pages["newProduct"] = ProductFormPage(<<>>)
        /\ Pages["editProduct"] = ProductFormPage(<<"product">>)
        /\ Pages["inventory"] = InventoryPage /\ Pages["catalog"] = RefManager("categories")
        /\ Pages["staff"] = StaffPage /\ Pages["settings"] = SettingsPage
        /\ Pages["audit"] = AuditPage /\ Pages["salesReport"] = ReportsPage("sales")
    BY DEF Pages
  <1>2. DashboardPage.door = {} /\ NotificationsPage.door = {} /\ PosPage.door = {"sales.create"}
    BY DEF DashboardPage, NotificationsPage, PosPage, Page
  <1>3. /\ SaleDetailPage.door = {"sales.view"} /\ SalesPage.door = {"sales.view"}
        /\ CustomersPage.door = {"sales.view"}
    BY DEF SaleDetailPage, SalesPage, CustomersPage, Page
  <1>4. PurchaseDetailPage.door = {"purchases.view"} /\ PurchasesPage.door = {"purchases.view"}
    BY DEF PurchaseDetailPage, PurchasesPage, Page
  <1>5. \A purchase : PurchaseFormPage(purchase).door = {"purchases.manage"}
    BY DEF PurchaseFormPage, Page
  <1>6. \A product : ProductFormPage(product).door = {"catalog.manage"}
    BY DEF ProductFormPage, Page
  <1>7. ExpensesPage.door = {"expenses.view"} /\ InventoryPage.door = {"inventory.view"}
    BY DEF ExpensesPage, InventoryPage, Page
  <1>8. ProductDetailPage.door = {"catalog.view"} /\ ProductsPage.door = {"catalog.view"}
    BY DEF ProductDetailPage, ProductsPage, Page
  <1>9. StaffPage.door = {"staff.manage"} /\ SettingsPage.door = {"settings.view"}
    BY DEF StaffPage, SettingsPage, Page
  <1>10. AuditPage.door = {"audit.view"} /\ RefManager("categories").door = {"catalog.view"}
    BY DEF AuditPage, RefManager, Page
  <1>11. ReportsPage("sales").door = {"reports.view"}
    BY DEF ReportsPage, About, FinanceReports, ExpenseReports, Page
  <1> QED
    BY <1>1, <1>2, <1>3, <1>4, <1>5, <1>6, <1>7, <1>8, <1>9, <1>10, <1>11

\* What needs no more than who is shown it has.
ForTheShown(op) == op.needs \subseteq op.may /\ op.to = "stay"

LEMMA OpsForTheShown ==
  /\ ForTheShown(RecordPayment) /\ ForTheShown(VoidSale) /\ ForTheShown(AddCustomer)
  /\ ForTheShown(ReceivePurchase) /\ ForTheShown(CancelPurchase)
  /\ \A new \in BOOLEAN : ForTheShown(SaveExpense(new))
  /\ ForTheShown(RemoveReceipt) /\ ForTheShown(DeleteExpense)
  /\ ForTheShown(AddCategory) /\ ForTheShown(RemoveCategory)
  /\ ForTheShown(SetActive) /\ ForTheShown(AdjustStock)
  /\ \A new \in BOOLEAN : ForTheShown(SaveReference("categories", new))
  /\ ForTheShown(DeleteReference("categories")) /\ ForTheShown(SaveSettings)
  <1> USE DEF ForTheShown, Form
  <1>1. ForTheShown(RecordPayment)
    BY DEF RecordPayment
  <1>2. ForTheShown(VoidSale)
    BY DEF VoidSale
  <1>3. ForTheShown(AddCustomer)
    BY DEF AddCustomer
  <1>4. ForTheShown(ReceivePurchase)
    BY DEF ReceivePurchase
  <1>5. ForTheShown(CancelPurchase)
    BY DEF CancelPurchase
  <1>6. ASSUME NEW new \in BOOLEAN PROVE ForTheShown(SaveExpense(new))
    BY DEF SaveExpense
  <1>7. ForTheShown(RemoveReceipt)
    BY DEF RemoveReceipt, SaveExpense
  <1>8. ForTheShown(DeleteExpense)
    BY DEF DeleteExpense, SaveExpense
  <1>9. ForTheShown(AddCategory)
    BY DEF AddCategory
  <1>10. ForTheShown(RemoveCategory)
    BY DEF RemoveCategory, AddCategory
  <1>11. ForTheShown(SetActive)
    BY DEF SetActive
  <1>12. ForTheShown(AdjustStock)
    BY DEF AdjustStock
  <1>13. ASSUME NEW new \in BOOLEAN PROVE ForTheShown(SaveReference("categories", new))
    BY DEF SaveReference
  <1>14. ForTheShown(DeleteReference("categories"))
    BY DEF DeleteReference, SaveReference
  <1>15. ForTheShown(SaveSettings)
    BY DEF SaveSettings
  <1> HIDE DEF ForTheShown, Form
  <1> QED
    BY <1>1, <1>2, <1>3, <1>4, <1>5, <1>6, <1>7, <1>8, <1>9, <1>10, <1>11, <1>12, <1>13, <1>14,
       <1>15

LEMMA ShownOpsOpen ==
  ASSUME NEW page, \A op \in page.ops : ForTheShown(op)
  PROVE  OpsOpen(page)
  BY DEF ForTheShown, OpsOpen, Given

PageIsOpen(page) ==
  QueriesOpen(page) /\ OpsOpen(page) /\ LinksOpen(page) /\ FiguresOpen(page)

\* All of them are open, page by page.
LEMMA PagesAreOpen ==
  ASSUME NEW p \in DOMAIN Pages
  PROVE  PageIsOpen(Pages[p])
  <1>1. PageIsOpen(DashboardPage)
    <2>1. QueriesOpen(DashboardPage)
      <3>1. \A q \in DashboardPage.queries :
              \/ q.if = {"sales.view_all"} /\ q.needs = {"sales.view", "sales.view_all"}
              \/ q.if = {"sales.view"} /\ q.needs = {"sales.view"}
              \/ q.if = {"inventory.view"} /\ q.needs = {"inventory.view"}
        BY DEF DashboardPage, Page, Query, If, Unless
      <3> QED
        BY <3>1 DEF QueriesOpen, Given, SELLER
    <2>2. OpsOpen(DashboardPage)
      BY DEF OpsOpen, DashboardPage, Page
    <2>3. LinksOpen(DashboardPage)
      BY Doors DEF LinksOpen, DashboardPage, Link, Page, Given, SELLER
    <2>4. FiguresOpen(DashboardPage)
      BY DEF FiguresOpen, DashboardPage, Figure, Page, Given
    <2> QED
      BY <2>1, <2>2, <2>3, <2>4 DEF PageIsOpen
  <1>2. PageIsOpen(NotificationsPage)
    <2>1. QueriesOpen(NotificationsPage)
      BY DEF QueriesOpen, NotificationsPage, NotificationBell, Page, Query, Given, SELLER
    <2>2. OpsOpen(NotificationsPage)
      <3>1. ASSUME NEW op \in NotificationsPage.ops
            PROVE  op.needs \subseteq NotificationsPage.door \cup op.may /\ op.to = "stay"
        BY <3>1 DEF NotificationsPage, Form, Page
      <3> QED
        BY <3>1 DEF OpsOpen, Given
    <2>3. LinksOpen(NotificationsPage)
      BY Doors DEF LinksOpen, NotificationsPage, Link, Page, Given, SELLER
    <2>4. FiguresOpen(NotificationsPage)
      BY DEF FiguresOpen, NotificationsPage, Page
    <2> QED
      BY <2>1, <2>2, <2>3, <2>4 DEF PageIsOpen
  <1>3. PageIsOpen(PosPage)
    <2>1. QueriesOpen(PosPage)
      BY DEF QueriesOpen, PosPage, Aside, Page, Query, Given, SELLER
    <2>2. OpsOpen(PosPage)
      <3>1. ASSUME NEW op \in PosPage.ops
            PROVE  op.needs \subseteq PosPage.door /\ op.to = "sale"
        BY <3>1 DEF PosPage, CompleteSale, Form, Page
      <3>2. Pages["sale"].door \subseteq Given(PosPage.door)
        BY Doors DEF PosPage, Page, Given, SELLER
      <3> QED
        BY <3>1, <3>2 DEF OpsOpen, Given
    <2>3. LinksOpen(PosPage)
      BY Doors DEF LinksOpen, PosPage, Link, Page, Given, SELLER
    <2>4. FiguresOpen(PosPage)
      BY DEF FiguresOpen, PosPage, Page
    <2> QED
      BY <2>1, <2>2, <2>3, <2>4 DEF PageIsOpen
  <1>4. PageIsOpen(SalesPage)
    <2>1. QueriesOpen(SalesPage)
      BY DEF QueriesOpen, SalesPage, Page, Query, Given, SELLER
    <2>2. OpsOpen(SalesPage)
      BY DEF OpsOpen, SalesPage, Page
    <2>3. LinksOpen(SalesPage)
      BY Doors DEF LinksOpen, SalesPage, Link, Page, Given, SELLER
    <2>4. FiguresOpen(SalesPage)
      BY DEF FiguresOpen, SalesPage, Page
    <2> QED
      BY <2>1, <2>2, <2>3, <2>4 DEF PageIsOpen
  <1>5. PageIsOpen(SaleDetailPage)
    <2>1. QueriesOpen(SaleDetailPage)
      BY DEF QueriesOpen, SaleDetailPage, Page, Query, Given, SELLER
    <2>2. OpsOpen(SaleDetailPage)
      <3>1. \A op \in SaleDetailPage.ops : ForTheShown(op)
        BY OpsForTheShown DEF SaleDetailPage, Page
      <3> QED
        BY <3>1, ShownOpsOpen
    <2>3. LinksOpen(SaleDetailPage)
      BY Doors DEF LinksOpen, SaleDetailPage, Link, Page, Given, SELLER
    <2>4. FiguresOpen(SaleDetailPage)
      BY DEF FiguresOpen, SaleDetailPage, Page
    <2> QED
      BY <2>1, <2>2, <2>3, <2>4 DEF PageIsOpen
  <1>6. PageIsOpen(CustomersPage)
    <2>1. QueriesOpen(CustomersPage)
      BY DEF QueriesOpen, CustomersPage, Page, Query, Given, SELLER
    <2>2. OpsOpen(CustomersPage)
      <3>1. \A op \in CustomersPage.ops : ForTheShown(op)
        BY OpsForTheShown DEF CustomersPage, Page
      <3> QED
        BY <3>1, ShownOpsOpen
    <2>3. LinksOpen(CustomersPage)
      BY Doors DEF LinksOpen, CustomersPage, Link, Page, Given, SELLER
    <2>4. FiguresOpen(CustomersPage)
      BY DEF FiguresOpen, CustomersPage, Page
    <2> QED
      BY <2>1, <2>2, <2>3, <2>4 DEF PageIsOpen
  <1>7. PageIsOpen(PurchasesPage)
    <2>1. QueriesOpen(PurchasesPage)
      <3>1. /\ PurchasesPage.door = {"purchases.view"}
            /\ \A q \in PurchasesPage.queries :
                 \/ q.needs = {"purchases.view"}
                 \/ q.if = {"catalog.view"} /\ q.needs = {"catalog.view"}
        BY Options DEF PurchasesPage, Page, Query, If
      <3> QED
        BY <3>1 DEF QueriesOpen, Given
    <2>2. OpsOpen(PurchasesPage)
      BY DEF OpsOpen, PurchasesPage, Page
    <2>3. LinksOpen(PurchasesPage)
      BY Doors DEF LinksOpen, PurchasesPage, Link, Page, Given, SELLER
    <2>4. FiguresOpen(PurchasesPage)
      BY DEF FiguresOpen, PurchasesPage, Page
    <2> QED
      BY <2>1, <2>2, <2>3, <2>4 DEF PageIsOpen
  <1>8. PageIsOpen(PurchaseDetailPage)
    <2>1. QueriesOpen(PurchaseDetailPage)
      BY DEF QueriesOpen, PurchaseDetailPage, Page, Query, Given, SELLER
    <2>2. OpsOpen(PurchaseDetailPage)
      <3>1. \A op \in PurchaseDetailPage.ops : ForTheShown(op)
        BY OpsForTheShown DEF PurchaseDetailPage, Page
      <3> QED
        BY <3>1, ShownOpsOpen
    <2>3. LinksOpen(PurchaseDetailPage)
      BY Doors DEF LinksOpen, PurchaseDetailPage, Link, Page, Given, SELLER
    <2>4. FiguresOpen(PurchaseDetailPage)
      BY DEF FiguresOpen, PurchaseDetailPage, Page
    <2> QED
      BY <2>1, <2>2, <2>3, <2>4 DEF PageIsOpen
  <1>9. ASSUME NEW purchase PROVE PageIsOpen(PurchaseFormPage(purchase))
    <2>1. QueriesOpen(PurchaseFormPage(purchase))
      BY DEF QueriesOpen, PurchaseFormPage, RefOptions, Minute, Aside, Page, Query, Given, SELLER
    <2>2. OpsOpen(PurchaseFormPage(purchase))
      <3>1. PurchaseFormPage(purchase).ops =
              {SaveDraft(purchase = <<>>), SaveAndReceive(purchase = <<>>)}
        BY DEF PurchaseFormPage, Page
      <3>2. ASSUME NEW new
            PROVE  /\ SaveDraft(new).needs = {"purchases.manage"} /\ SaveDraft(new).to = "purchase"
                   /\ SaveAndReceive(new).needs = {"purchases.manage"}
                   /\ SaveAndReceive(new).to = "purchase"
        BY DEF SaveDraft, SaveAndReceive, Form
      <3>3. PurchaseFormPage(purchase).door = {"purchases.manage"}
        BY DEF PurchaseFormPage, Page
      <3> QED
        BY <3>1, <3>2, <3>3, Doors DEF OpsOpen, Given
    <2>3. LinksOpen(PurchaseFormPage(purchase))
      BY Doors DEF LinksOpen, PurchaseFormPage, Link, Page, Given, SELLER
    <2>4. FiguresOpen(PurchaseFormPage(purchase))
      BY DEF FiguresOpen, PurchaseFormPage, Page
    <2> QED
      BY <2>1, <2>2, <2>3, <2>4 DEF PageIsOpen
  <1>10. PageIsOpen(ExpensesPage)
    <2>1. QueriesOpen(ExpensesPage)
      BY DEF QueriesOpen, ExpensesPage, ExpenseCategories, Minute, Page, Query, Given, SELLER
    <2>2. OpsOpen(ExpensesPage)
      <3>1. \A op \in ExpensesPage.ops : ForTheShown(op)
        BY OpsForTheShown DEF ExpensesPage, Page
      <3> QED
        BY <3>1, ShownOpsOpen
    <2>3. LinksOpen(ExpensesPage)
      BY DEF LinksOpen, ExpensesPage, Page
    <2>4. FiguresOpen(ExpensesPage)
      BY DEF FiguresOpen, ExpensesPage, Page
    <2> QED
      BY <2>1, <2>2, <2>3, <2>4 DEF PageIsOpen
  <1>11. PageIsOpen(ProductsPage)
    <2>1. QueriesOpen(ProductsPage)
      BY DEF QueriesOpen, ProductsPage, References, RefOptions, Minute, Page, Query, Given, SELLER
    <2>2. OpsOpen(ProductsPage)
      BY DEF OpsOpen, ProductsPage, Page
    <2>3. LinksOpen(ProductsPage)
      BY Doors DEF LinksOpen, ProductsPage, Link, Page, Given, SELLER
    <2>4. FiguresOpen(ProductsPage)
      BY DEF FiguresOpen, ProductsPage, Page
    <2> QED
      BY <2>1, <2>2, <2>3, <2>4 DEF PageIsOpen
  <1>12. PageIsOpen(ProductDetailPage)
    <2>1. QueriesOpen(ProductDetailPage)
      BY DEF QueriesOpen, ProductDetailPage, If, Page, Query, Given, SELLER
    <2>2. OpsOpen(ProductDetailPage)
      <3>1. ASSUME NEW op \in ProductDetailPage.ops
            PROVE  op.needs \subseteq op.may /\ op.to \in {"stay", "products"}
        <4>1. DeleteProduct.needs \subseteq DeleteProduct.may /\ DeleteProduct.to = "products"
          BY DEF DeleteProduct, Form
        <4> QED
          BY <3>1, <4>1, OpsForTheShown DEF ProductDetailPage, Page, ForTheShown
      <3>2. ProductDetailPage.door = {"catalog.view"}
        BY DEF ProductDetailPage, Page
      <3> QED
        BY <3>1, <3>2, Doors DEF OpsOpen, Given
    <2>3. LinksOpen(ProductDetailPage)
      BY Doors DEF LinksOpen, ProductDetailPage, Link, Page, Given, SELLER
    <2>4. FiguresOpen(ProductDetailPage)
      BY DEF FiguresOpen, ProductDetailPage, Page
    <2> QED
      BY <2>1, <2>2, <2>3, <2>4 DEF PageIsOpen
  <1>13. ASSUME NEW product PROVE PageIsOpen(ProductFormPage(product))
    <2>1. QueriesOpen(ProductFormPage(product))
      BY DEF QueriesOpen, ProductFormPage, References, RefOptions, Minute, Page, Query, Given,
             SELLER
    <2>2. OpsOpen(ProductFormPage(product))
      <3>1. ASSUME NEW op \in ProductFormPage(product).ops
            PROVE  op.needs \subseteq ProductFormPage(product).door /\ op.to = "product"
        BY <3>1 DEF ProductFormPage, SaveProduct, Form, Page
      <3>2. Pages["product"].door \subseteq Given(ProductFormPage(product).door)
        BY Doors DEF ProductFormPage, Page, Given, SELLER
      <3> QED
        BY <3>1, <3>2 DEF OpsOpen, Given
    <2>3. LinksOpen(ProductFormPage(product))
      BY Doors DEF LinksOpen, ProductFormPage, Link, Page, Given, SELLER
    <2>4. FiguresOpen(ProductFormPage(product))
      BY DEF FiguresOpen, ProductFormPage, Page
    <2> QED
      BY <2>1, <2>2, <2>3, <2>4 DEF PageIsOpen
  <1>14. PageIsOpen(InventoryPage)
    <2>1. QueriesOpen(InventoryPage)
      BY DEF QueriesOpen, InventoryPage, Page, Query, Given, SELLER
    <2>2. OpsOpen(InventoryPage)
      BY DEF OpsOpen, InventoryPage, Page
    <2>3. LinksOpen(InventoryPage)
      BY Doors DEF LinksOpen, InventoryPage, Link, Page, Given, SELLER
    <2>4. FiguresOpen(InventoryPage)
      BY DEF FiguresOpen, InventoryPage, Page
    <2> QED
      BY <2>1, <2>2, <2>3, <2>4 DEF PageIsOpen
  <1>15. PageIsOpen(RefManager("categories"))
    <2>1. QueriesOpen(RefManager("categories"))
      <3>1. /\ RefManager("categories").door = {"catalog.view"}
            /\ \A q \in RefManager("categories").queries : q.needs = {"catalog.view"}
        BY Options DEF RefManager, Page, Query, Aside
      <3> QED
        BY <3>1 DEF QueriesOpen, Given
    <2>2. OpsOpen(RefManager("categories"))
      <3>1. \A op \in RefManager("categories").ops : ForTheShown(op)
        BY OpsForTheShown DEF RefManager, Page
      <3> QED
        BY <3>1, ShownOpsOpen
    <2>3. LinksOpen(RefManager("categories"))
      BY DEF LinksOpen, RefManager, Page
    <2>4. FiguresOpen(RefManager("categories"))
      BY DEF FiguresOpen, RefManager, Page
    <2> QED
      BY <2>1, <2>2, <2>3, <2>4 DEF PageIsOpen
  <1>16. ASSUME NEW report \in Reports PROVE PageIsOpen(ReportsPage(report))
    <2>1. QueriesOpen(ReportsPage(report))
      BY DEF QueriesOpen, ReportsPage, Page, Query, Given, SELLER
    <2>2. OpsOpen(ReportsPage(report))
      <3>1. ASSUME NEW op \in ReportsPage(report).ops
            PROVE  op.needs \subseteq ReportsPage(report).door \cup op.may /\ op.to = "stay"
        BY <3>1 DEF ReportsPage, DownloadReport, Form, Page
      <3> QED
        BY <3>1 DEF OpsOpen, Given
    <2>3. LinksOpen(ReportsPage(report))
      BY DEF LinksOpen, ReportsPage, Page
    <2>4. FiguresOpen(ReportsPage(report))
      BY DEF FiguresOpen, ReportsPage, ReportFigures, Figure, Page, Given
    <2> QED
      BY <2>1, <2>2, <2>3, <2>4 DEF PageIsOpen
  <1>17. PageIsOpen(StaffPage)
    <2>1. QueriesOpen(StaffPage)
      BY DEF QueriesOpen, StaffPage, Roles, Minute, Page, Query, Given, SELLER
    <2>2. OpsOpen(StaffPage)
      <3>1. ASSUME NEW op \in StaffPage.ops
            PROVE  op.needs \subseteq StaffPage.door \cup op.may /\ op.to = "stay"
        BY <3>1 DEF StaffPage, AddStaff, ManageStaff, Form, Page
      <3> QED
        BY <3>1 DEF OpsOpen, Given
    <2>3. LinksOpen(StaffPage)
      BY DEF LinksOpen, StaffPage, Page
    <2>4. FiguresOpen(StaffPage)
      BY DEF FiguresOpen, StaffPage, Page
    <2> QED
      BY <2>1, <2>2, <2>3, <2>4 DEF PageIsOpen
  <1>18. PageIsOpen(SettingsPage)
    <2>1. QueriesOpen(SettingsPage)
      BY DEF QueriesOpen, SettingsPage, If, Page, Query, Given, SELLER
    <2>2. OpsOpen(SettingsPage)
      <3>1. \A op \in SettingsPage.ops : ForTheShown(op)
        BY OpsForTheShown DEF SettingsPage, Page
      <3> QED
        BY <3>1, ShownOpsOpen
    <2>3. LinksOpen(SettingsPage)
      BY DEF LinksOpen, SettingsPage, Page
    <2>4. FiguresOpen(SettingsPage)
      BY DEF FiguresOpen, SettingsPage, Page
    <2> QED
      BY <2>1, <2>2, <2>3, <2>4 DEF PageIsOpen
  <1>19. PageIsOpen(AuditPage)
    <2>1. QueriesOpen(AuditPage)
      BY DEF QueriesOpen, AuditPage, Page, Query, Given, SELLER
    <2>2. OpsOpen(AuditPage)
      BY DEF OpsOpen, AuditPage, Page
    <2>3. LinksOpen(AuditPage)
      BY DEF LinksOpen, AuditPage, Page
    <2>4. FiguresOpen(AuditPage)
      BY DEF FiguresOpen, AuditPage, Page
    <2> QED
      BY <2>1, <2>2, <2>3, <2>4 DEF PageIsOpen
  <1> QED
    BY EachPage, <1>1, <1>2, <1>3, <1>4, <1>5, <1>6, <1>7, <1>8, <1>9, <1>10, <1>11, <1>12,
       <1>13, <1>14, <1>15, <1>16, <1>17, <1>18, <1>19

LEMMA SidebarIsOpen ==
  ASSUME NEW link \in Sidebar
  PROVE  Pages[link.to].door \subseteq Given(link.if)
  BY Doors DEF Sidebar, Link, Given, SELLER

-----------------------------------------------------------------------------
(***************************************************************************)
(* The form.                                                               *)
(***************************************************************************)
\* The form and the row it may have posted since it was opened or excused.
Posted == {"served", "attaching", "attached", "refreshing", "returning", "settled"}
FormInv ==
  /\ form = [op |-> form.op, phase |-> form.phase, own |-> form.own, rows |-> form.rows,
             excused |-> form.excused, awaits |-> form.awaits]
  /\ form.rows \in Nat /\ form.excused \in Nat
  /\ form.rows <= form.excused + (IF form.phase \in Posted THEN 1 ELSE 0)

\* Finish() records the answer and moves on; no row is added.
LEMMA FinishInv ==
  ASSUME FormInv, NEW op, NEW phase \in {"refreshing", "returning"}, NEW v, Finish(op, phase, v),
         form.phase \in Posted
  PROVE  FormInv'
  <1>1. form' = [op |-> op, phase |-> phase, own |-> version, rows |-> form.rows,
                 excused |-> form.excused,
                 awaits |-> op.waits /\ MountedOn(here) /\ Refreshed(op.refreshes)]
    BY DEF Finish, FormInv
  <1> QED
    BY <1>1 DEF FormInv, Posted

LEMMA BrowsingInv ==
  ASSUME FormInv, BrowsingNext
  PROVE  FormInv'
  <1>1. CASE Refetch
    BY <1>1 DEF Refetch, FormInv
  <1>2. CASE CacheStep
    BY <1>2 DEF CacheStep, Arrive, Fail, FormInv
  <1>3. ASSUME NEW op \in Pages[here].ops, Open(op)
        PROVE  FormInv'
    <2>1. form' = [op |-> op, phase |-> "editing", own |-> 0, rows |-> 0, excused |-> 0,
                   awaits |-> FALSE]
      BY <1>3 DEF Open, NoForm
    <2> QED
      BY <2>1 DEF FormInv, Posted
  <1>4. CASE Close
    BY <1>4 DEF Close, NoForm, FormInv, Posted
  <1>5. CASE Submit
    BY <1>5 DEF Submit, FormInv, Posted
  <1>6. CASE ServeForm
    <2>1. CASE form.phase = "sent"
      <3>1. PICK n \in {0, 1} :
              form' = [form EXCEPT !.phase = "served", !.rows = form.rows + n]
        BY <1>6, <2>1 DEF ServeForm
      <3>2. form' = [op |-> form.op, phase |-> "served", own |-> form.own, rows |-> form.rows + n,
                     excused |-> form.excused, awaits |-> form.awaits]
        BY <3>1 DEF FormInv
      <3> QED
        BY <2>1, <3>2 DEF FormInv, Posted
    <2>2. CASE form.phase = "attaching"
      BY <1>6, <2>2 DEF ServeForm, FormInv, Posted
    <2> QED
      BY <1>6, <2>1, <2>2 DEF ServeForm
  <1>7. CASE Refuse
    <2>1. PICK n \in {0, 1} :
            /\ n = IF form.phase = "served" THEN 1 ELSE 0
            /\ form' = [form EXCEPT !.phase = "editing", !.excused = form.excused + n]
      BY <1>7 DEF Refuse
    <2>2. form' = [op |-> form.op, phase |-> "editing", own |-> form.own, rows |-> form.rows,
                   excused |-> form.excused + n, awaits |-> form.awaits]
      BY <2>1 DEF FormInv
    <2>3. CASE form.phase = "served"
      <3>1. n = 1 /\ form.rows <= form.excused + 1 /\ form.rows \in Nat /\ form.excused \in Nat
        BY <2>1, <2>3 DEF FormInv, Posted
      <3> QED
        BY <2>2, <3>1 DEF FormInv, Posted
    <2>4. CASE form.phase = "sent"
      <3>1. n = 0 /\ form.rows <= form.excused /\ form.rows \in Nat /\ form.excused \in Nat
        BY <2>1, <2>4 DEF FormInv, Posted
      <3> QED
        BY <2>2, <3>1 DEF FormInv, Posted
    <2> QED
      BY <1>7, <2>3, <2>4 DEF Refuse
  <1>8. CASE Answer
    <2>1. CASE Finish(form.op, "refreshing", version) /\ form.phase = "served"
      BY <2>1, FinishInv DEF Posted
    <2>2. CASE form.phase = "served" /\ form' = [form EXCEPT !.phase = "attaching"]
      BY <2>2 DEF FormInv, Posted
    <2> QED
      BY <1>8, <2>1, <2>2 DEF Answer
  <1>9. CASE AnswerSecond
    BY <1>9, FinishInv DEF AnswerSecond, Posted
  <1>10. CASE FailSecond
    <2>1. form.phase \in Posted
      BY <1>10 DEF FailSecond, Posted
    <2>2. \/ Finish(SaveDraft(form.op.creates), "refreshing", FirstAnswer)
          \/ Finish(form.op, "refreshing", version)
          \/ Finish(form.op, "returning", version)
      BY <1>10 DEF FailSecond
    <2> QED
      BY <2>1, <2>2, FinishInv
  <1>11. CASE Settle
    <2>1. CASE form.phase = "returning"
      <3>1. form' = [op |-> form.op, phase |-> "editing", own |-> form.own, rows |-> form.rows,
                     excused |-> form.excused + 1, awaits |-> form.awaits]
        BY <1>11, <2>1 DEF Settle, FormInv
      <3> QED
        BY <2>1, <3>1 DEF FormInv, Posted
    <2>2. CASE form.phase = "refreshing"
      <3>1. form' = [op |-> form.op, phase |-> "settled", own |-> form.own, rows |-> form.rows,
                     excused |-> form.excused, awaits |-> form.awaits]
        BY <1>11, <2>2 DEF Settle, FormInv
      <3> QED
        BY <2>2, <3>1 DEF FormInv, Posted
    <2> QED
      BY <1>11, <2>1, <2>2 DEF Settle
  <1> QED
    BY <1>1, <1>2, <1>3, <1>4, <1>5, <1>6, <1>7, <1>8, <1>9, <1>10, <1>11
       DEF BrowsingNext, FormStep

-----------------------------------------------------------------------------
(***************************************************************************)
(* What a form wrote comes to be seen.                                     *)
(***************************************************************************)
Phases == {"closed", "editing", "sent", "served", "attaching", "attached", "refreshing",
           "returning", "settled"}
Caches == [seen : 0 .. version, asked : 0 .. version, doubt : BOOLEAN]

\* The form, while it is open, is one of the page, which the user may see.
OnPage ==
  /\ role \in DOMAIN Grants /\ here \in DOMAIN Pages /\ Can(Pages[here].door)
  /\ KeyIsNamed(watched) /\ version \in 1 .. MaxVersion /\ cache \in Caches
  /\ form.phase \in Phases /\ form.own \in 0 .. version /\ form.awaits \in BOOLEAN
  /\ form.phase \notin {"closed", "settled"} => form.op \in Pages[here].ops

\* There are versions left for the requests of a form that is submitted, and
\* each row and each excuse took one.
HasRoom ==
  /\ form.phase = "sent" => Affordable
  /\ form.phase = "served" /\ form.op.second # "none" => version < MaxVersion
  /\ form.phase = "attaching" => version < MaxVersion
  /\ form.excused + (IF form.phase \in Posted THEN 1 ELSE 0) < version

\* Once the page was made to show what was written: it is in the cache, or a
\* fetch that will bring it is under way, and waited for if need be, or the page
\* the form leads to will ask for it.
InView ==
  /\ Touches(form.op, watched)
  /\ \/ watched.minute
     \/ watched.key \in MountedKeys(IF form.phase = "settled" THEN here ELSE Leads(form.op, here))
Caught ==
  \/ cache.seen = version /\ cache.asked \in {0, version}
  \/ cache.doubt
  \/ cache.seen = 0 /\ cache.asked = 0 /\ ~MountedOn(here)
  \/ cache.asked = version /\ (form.op.waits /\ form.op.to = "stay" => form.awaits)
  \/ form.phase = "refreshing" /\ form.op.to # "stay" /\ MountedOn(form.op.to) /\ cache.asked = 0
CaughtInTime ==
  /\ form.phase = "settled" => ~form.awaits
  /\ form.phase \in {"refreshing", "settled"} => form.own = version /\ (InView => Caught)

BrowseInv == FormInv /\ OnPage /\ HasRoom /\ CaughtInTime

\* A page is opened with no form and its data at the first version.
LEMMA BrowseStarts == BrowsingInit => BrowseInv
  <1> SUFFICES ASSUME BrowsingInit PROVE BrowseInv
    OBVIOUS
  <1>1. FormInv /\ form.phase = "closed" /\ form.own = 0 /\ form.awaits = FALSE /\ form.excused = 0
    BY DEF BrowsingInit, NoForm, FormInv, Posted
  <1>2. cache \in Caches
    <2>1. \/ cache \in [seen : {0, 1}, asked : {1}, doubt : {FALSE}]
          \/ cache = Nothing
          \/ cache = [Nothing EXCEPT !.seen = 1]
      BY DEF BrowsingInit
    <2>2. version = 1
      BY DEF BrowsingInit
    <2>3. [Nothing EXCEPT !.seen = 1] \in [seen : {0, 1}, asked : {0, 1}, doubt : BOOLEAN]
      BY DEF Nothing
    <2>4. cache \in [seen : {0, 1}, asked : {0, 1}, doubt : BOOLEAN]
      <3>1. Nothing \in [seen : {0, 1}, asked : {0, 1}, doubt : BOOLEAN]
        BY DEF Nothing
      <3> QED
        BY <2>1, <2>3, <3>1
    <2>5. 0 .. 1 = {0, 1}
      OBVIOUS
    <2> QED
      BY <2>2, <2>4, <2>5 DEF Caches
  <1>3. KeyIsNamed(watched)
    BY QueriesAreNamed DEF BrowsingInit
  <1>4. OnPage
    <2>1. role \in DOMAIN Grants /\ here \in DOMAIN Pages /\ Can(Pages[here].door)
      BY DEF BrowsingInit
    <2>2. version \in 1 .. MaxVersion /\ form.own \in 0 .. version
      BY <1>1, MaxVersionAssumption DEF BrowsingInit
    <2> QED
      BY <1>1, <1>2, <1>3, <2>1, <2>2 DEF OnPage, Phases
  <1> QED
    BY <1>1, <1>4 DEF BrowseInv, HasRoom, CaughtInTime, BrowsingInit, Posted

\* A step that leaves the form alone, or only its wait.
LEMMA FormLeft ==
  ASSUME BrowseInv, UNCHANGED <<role, here, watched, version>>, cache' \in Caches,
         form' = [form EXCEPT !.awaits = FALSE] \/ form' = form,
         form.phase \in {"refreshing", "settled"} /\ InView => Caught'
  PROVE  BrowseInv'
  <1>1. /\ FormInv' /\ form'.op = form.op /\ form'.phase = form.phase /\ form'.own = form.own
        /\ form'.excused = form.excused /\ form'.awaits \in {FALSE, form.awaits}
    BY DEF BrowseInv, FormInv, OnPage
  <1>2. OnPage'
    BY <1>1 DEF BrowseInv, OnPage, Can, Caches
  <1>3. HasRoom'
    BY <1>1 DEF BrowseInv, HasRoom, Affordable
  <1>4. CaughtInTime'
    BY <1>1 DEF BrowseInv, CaughtInTime, InView, OnPage
  <1> QED
    BY <1>1, <1>2, <1>3, <1>4 DEF BrowseInv

\* What is caught stays caught while fetches begin, arrive and fail.
LEMMA RefetchCaught ==
  ASSUME BrowseInv, Refetch
  PROVE  BrowseInv'
  <1>1. /\ cache' = [seen |-> cache.seen, asked |-> version, doubt |-> cache.doubt]
        /\ cache' \in Caches
    BY DEF BrowseInv, OnPage, Caches, Refetch
  <1>2. ASSUME form.phase \in {"refreshing", "settled"}, InView PROVE Caught'
    <2>1. Caught /\ MountedOn(here) /\ cache.asked = 0
      BY <1>2 DEF BrowseInv, CaughtInTime, Refetch
    <2> QED
      BY <1>1, <2>1 DEF Caught, Refetch, BrowseInv, OnPage
  <1> QED
    BY <1>1, <1>2, FormLeft DEF Refetch

LEMMA CacheCaught ==
  ASSUME BrowseInv, CacheStep
  PROVE  BrowseInv'
  <1>0. /\ cache = [seen |-> cache.seen, asked |-> cache.asked, doubt |-> cache.doubt]
        /\ cache.asked \in 1 .. version /\ version \in Nat \ {0} /\ cache.doubt \in BOOLEAN
    BY DEF BrowseInv, OnPage, Caches, CacheStep, Arrive, Fail
  <1>1. CASE Arrive
    <2>1. PICK v \in cache.asked .. version :
            cache' = [seen |-> v, asked |-> 0, doubt |-> cache.doubt /\ cache.asked < version]
      BY <1>1 DEF Arrive
    <2>2. cache' \in Caches
      BY <1>0, <2>1 DEF Caches
    <2>3. ASSUME form.phase \in {"refreshing", "settled"}, InView PROVE Caught'
      <3>1. Caught
        BY <2>3 DEF BrowseInv, CaughtInTime
      <3>2. CASE cache.asked = version
        BY <1>0, <1>1, <2>1, <3>2 DEF Caught, Arrive
      <3>3. CASE cache.asked # version
        <4>1. cache.doubt /\ cache.asked < version
          BY <1>0, <3>1, <3>3 DEF Caught
        <4> QED
          BY <2>1, <4>1 DEF Caught
      <3> QED
        BY <3>2, <3>3
    <2> QED
      BY <1>1, <2>2, <2>3, FormLeft DEF Arrive
  <1>2. CASE Fail
    <2>1. cache' = [seen |-> cache.seen, asked |-> 0, doubt |-> TRUE]
      BY <1>0, <1>2 DEF Fail
    <2>2. cache' \in Caches /\ Caught'
      BY <1>0, <2>1 DEF Caches, Caught, BrowseInv, OnPage
    <2> QED
      BY <1>2, <2>2, FormLeft DEF Fail
  <1> QED
    BY <1>1, <1>2 DEF CacheStep
\* What the page is made to ask and to show: a fetch of what is shown, whatever
\* went before it.
LEMMA MadeCaches ==
  ASSUME NEW c \in Caches, NEW keys, NEW v \in 0 .. version, version \in Nat
  PROVE  /\ SetData(c, keys, v) \in Caches /\ Invalidate(c, keys) \in Caches
         /\ Fetched(c) \in Caches /\ Fetched(c).asked = version
  <1>1. /\ Nothing \in Caches /\ [c EXCEPT !.seen = v] \in Caches
        /\ [c EXCEPT !.asked = version] \in Caches /\ [c EXCEPT !.asked = version].asked = version
    BY DEF Nothing, Caches
  <1>2. ASSUME NEW e \in Caches, NEW doubt \in BOOLEAN
        PROVE  [e EXCEPT !.doubt = doubt] \in Caches /\ [e EXCEPT !.doubt = doubt].asked = e.asked
    BY DEF Caches
  <1>3. Fetched(c) \in Caches /\ Fetched(c).asked = version
    BY <1>1, <1>2 DEF Fetched
  <1>4. (c.asked # 0) \in BOOLEAN /\ (c.asked < version) \in BOOLEAN
    OBVIOUS
  <1>5. SetData(c, keys, v) \in Caches
    BY <1>1, <1>2, <1>4 DEF SetData
  <1> QED
    BY <1>1, <1>2, <1>3, <1>4, <1>5 DEF Invalidate

\* The page of a purchase shows the purchase to whoever is there.
LEMMA ThePurchaseIsShown ==
  ASSUME watched' = watched, watched.key = <<"purchase">>
  PROVE  MountedOn("purchase")'
  <1> DEFINE q == Query(<<"purchase">>, {"purchases.view"}, {"purchases"})
  <1>1. q \in Pages["purchase"].queries
    BY DEF Pages, PurchaseDetailPage, Page
  <1>2. q.key = <<"purchase">> /\ q.mounted /\ q.if = {} /\ q.unless = {}
    BY DEF Query
  <1> HIDE DEF q
  <1> QED
    BY <1>1, <1>2 DEF MountedOn, Enabled, Can

\* The answer is put into the cache and the queries are asked again: one that
\* the operation covers is caught.
LEMMA FinishCaught ==
  ASSUME BrowseInv, NEW op \in Pages[here].ops, NEW phase \in {"refreshing", "returning"},
         form.phase \in {"served", "attaching", "attached"},
         NEW v \in 0 .. version, Finish(op, phase, v),
         v = version \/ (op.to = "purchase" /\ op.sets = {<<"purchase">>})
  PROVE  BrowseInv'
  <1> DEFINE set == SetData(cache, op.sets, v)
  <1>1. FormInv'
    BY FinishInv DEF BrowseInv, Posted
  <1>2. OpIsSound(here, op)
    BY OpsAreSound DEF BrowseInv, OnPage
  <1>3. /\ form'.op = op /\ form'.phase = phase /\ form'.own = version
        /\ form'.excused = form.excused
        /\ form'.awaits = (op.waits /\ MountedOn(here) /\ Refreshed(op.refreshes))
    BY DEF Finish, BrowseInv, FormInv
  <1>4. set \in Caches /\ cache' = Invalidate(set, op.refreshes) /\ cache' \in Caches
    BY MadeCaches DEF BrowseInv, OnPage, Finish
  <1>5. OnPage'
    BY <1>3, <1>4 DEF BrowseInv, OnPage, Finish, Caches, Can, Phases
  <1>6. HasRoom'
    BY <1>3 DEF BrowseInv, HasRoom, Posted, Finish
  <1>7. ASSUME phase = "refreshing", InView' PROVE Caught'
    <2>1. Covers(op, watched.key)
      <3>1. Touches(op, watched) /\ OnView(op, here, watched)
        BY <1>3, <1>7 DEF InView, OnView, Finish, Leads
      <3> QED
        BY <1>2, <3>1 DEF OpIsSound, CoversView, BrowseInv, OnPage
    <2>2. watched.key \in op.sets \/ Refreshed(op.refreshes)
      BY <2>1 DEF Covers, Refreshed
    <2>3. set = [seen |-> set.seen, asked |-> set.asked, doubt |-> set.doubt]
          /\ set.asked \in 0 .. version
      BY <1>4 DEF Caches
    <2>4. version' = version /\ MountedOn(here)' = MountedOn(here)
      BY DEF Finish, MountedOn, Enabled, Can
    <2>5. CASE ~Refreshed(op.refreshes)
      <3>1. watched.key \in op.sets /\ cache' = set
        BY <1>4, <2>2, <2>5 DEF Invalidate
      <3>2. set.seen = v /\ (set.asked # 0 => set.doubt)
        BY <3>1 DEF SetData, BrowseInv, OnPage, Caches
      <3>3. CASE v = version
        BY <2>4, <3>1, <3>2, <3>3 DEF Caught
      <3>4. CASE op.to = "purchase" /\ op.sets = {<<"purchase">>}
        <4>1. MountedOn("purchase")'
          BY <3>1, <3>4, ThePurchaseIsShown DEF Finish
        <4>2. cache'.asked = 0 \/ cache'.doubt
          BY <3>1, <3>2
        <4> QED
          BY <1>3, <1>7, <3>4, <4>1, <4>2 DEF Caught
      <3> QED
        BY <3>3, <3>4
    <2>6. CASE Refreshed(op.refreshes) /\ ~MountedOn(here)
      <3>1. cache' = Nothing
        BY <1>4, <2>6 DEF Invalidate
      <3> QED
        BY <2>4, <2>6, <3>1 DEF Caught, Nothing
    <2>7. CASE Refreshed(op.refreshes) /\ MountedOn(here) /\ set.asked # 0 /\ set.seen = 0
      <3>1. cache' = [set EXCEPT !.doubt = set.asked < version]
        BY <1>4, <2>7 DEF Invalidate
      <3>2. cache'.asked = set.asked /\ cache'.doubt = (set.asked < version)
        BY <2>3, <3>1
      <3>3. op.waits => form'.awaits
        BY <1>3, <2>7
      <3>4. set.asked = version \/ set.asked < version
        BY <2>3 DEF BrowseInv, OnPage
      <3> QED
        BY <1>3, <2>4, <3>2, <3>3, <3>4 DEF Caught
    <2>8. CASE Refreshed(op.refreshes) /\ MountedOn(here) /\ ~(set.asked # 0 /\ set.seen = 0)
      <3>1. cache' = Fetched(set)
        BY <1>4, <2>8 DEF Invalidate
      <3>2. cache'.asked = version
        BY <2>3, <3>1 DEF Fetched
      <3>3. op.waits => form'.awaits
        BY <1>3, <2>8
      <3> QED
        BY <1>3, <2>4, <3>2, <3>3 DEF Caught
    <2> QED
      BY <2>5, <2>6, <2>7, <2>8
  <1>8. CaughtInTime'
    BY <1>3, <1>7 DEF CaughtInTime, Finish
  <1> QED
    BY <1>1, <1>5, <1>6, <1>8 DEF BrowseInv

-----------------------------------------------------------------------------
\* The steps of a form before it was answered, and the next form.
LEMMA OpenCaught ==
  ASSUME BrowseInv, NEW op \in Pages[here].ops, Open(op)
  PROVE  BrowseInv'
  <1>1. form' = [op |-> op, phase |-> "editing", own |-> 0, rows |-> 0, excused |-> 0,
                 awaits |-> FALSE]
    BY DEF Open, NoForm
  <1>2. FormInv'
    BY <1>1 DEF FormInv, Posted
  <1>3. UNCHANGED <<role, here, watched, cache, version>>
    BY DEF Open
  <1>4. /\ form'.op = op /\ form'.phase = "editing" /\ form'.own = 0 /\ form'.excused = 0
        /\ form'.awaits = FALSE
    BY <1>1
  <1>5. OnPage'
    <2>1. cache' \in Caches' /\ Can(Pages[here].door)'
      BY <1>3 DEF BrowseInv, OnPage, Caches, Can
    <2>2. form'.own \in 0 .. version'
      BY <1>3, <1>4 DEF BrowseInv, OnPage
    <2>3. form'.phase \in Phases /\ form'.awaits \in BOOLEAN
      BY <1>4 DEF Phases
    <2> QED
      BY <1>3, <1>4, <2>1, <2>2, <2>3 DEF BrowseInv, OnPage
  <1>6. HasRoom'
    BY <1>3, <1>4 DEF BrowseInv, OnPage, HasRoom, Posted
  <1> QED
    BY <1>2, <1>4, <1>5, <1>6 DEF BrowseInv, CaughtInTime

LEMMA CloseCaught ==
  ASSUME BrowseInv, Close
  PROVE  BrowseInv'
  <1>1. form' = [op |-> Form, phase |-> "closed", own |-> 0, rows |-> 0, excused |-> 0,
                 awaits |-> FALSE]
    BY DEF Close, NoForm
  <1>2. FormInv'
    BY <1>1 DEF FormInv, Posted
  <1>3. OnPage'
    BY <1>1 DEF BrowseInv, OnPage, Close, Phases, Caches, Can
  <1> QED
    BY <1>1, <1>2, <1>3 DEF BrowseInv, HasRoom, CaughtInTime, Close, Posted, OnPage

LEMMA SubmitCaught ==
  ASSUME BrowseInv, Submit
  PROVE  BrowseInv'
  <1>1. form' = [op |-> form.op, phase |-> "sent", own |-> form.own, rows |-> form.rows,
                 excused |-> form.excused, awaits |-> form.awaits]
    BY DEF Submit, BrowseInv, FormInv
  <1>2. FormInv'
    BY <1>1 DEF BrowseInv, FormInv, Posted, Submit
  <1>3. OnPage'
    BY <1>1 DEF BrowseInv, OnPage, Submit, Phases, Caches, Can
  <1>4. HasRoom'
    BY <1>1 DEF BrowseInv, HasRoom, Submit, Affordable, Posted
  <1> QED
    BY <1>1, <1>2, <1>3, <1>4 DEF BrowseInv, CaughtInTime

LEMMA ServeCaught ==
  ASSUME BrowseInv, ServeForm
  PROVE  BrowseInv'
  <1>1. FormInv'
    BY BrowsingInv DEF BrowseInv, BrowsingNext, FormStep
  <1>2. /\ form'.op = form.op /\ form'.own = form.own /\ form'.excused = form.excused
        /\ form'.awaits = form.awaits
        /\ \/ form.phase = "sent" /\ form'.phase = "served"
           \/ form.phase = "attaching" /\ form'.phase = "attached"
    BY DEF BrowseInv, FormInv, ServeForm
  <1>3. version' = version + 1 /\ version < MaxVersion
    BY MaxVersionAssumption DEF ServeForm, BrowseInv, HasRoom, Affordable, OnPage
  <1>4. OnPage'
    <2>1. version \in 1 .. MaxVersion /\ version' \in 1 .. MaxVersion
      BY <1>3, MaxVersionAssumption DEF BrowseInv, OnPage
    <2>2. cache' \in Caches' /\ form'.own \in 0 .. version'
      BY <1>2, <1>3, <2>1 DEF BrowseInv, OnPage, ServeForm, Caches
    <2> QED
      BY <1>2, <2>1, <2>2 DEF BrowseInv, OnPage, ServeForm, Phases, Can
  <1>5. HasRoom'
    <2>1. form'.phase = "served" /\ form'.op.second # "none" => version' < MaxVersion
      BY <1>2, <1>3, MaxVersionAssumption DEF BrowseInv, HasRoom, Affordable, OnPage
    <2>2. form'.excused + 1 < version'
      BY <1>2, <1>3 DEF BrowseInv, HasRoom, OnPage, FormInv, Posted
    <2> QED
      BY <1>2, <2>1, <2>2 DEF HasRoom, Posted
  <1> QED
    BY <1>1, <1>2, <1>4, <1>5 DEF BrowseInv, CaughtInTime

LEMMA RefuseCaught ==
  ASSUME BrowseInv, Refuse
  PROVE  BrowseInv'
  <1>1. FormInv'
    BY BrowsingInv DEF BrowseInv, BrowsingNext, FormStep
  <1>2. /\ form'.op = form.op /\ form'.own = form.own /\ form'.awaits = form.awaits
        /\ form'.excused = form.excused + (IF form.phase = "served" THEN 1 ELSE 0)
        /\ form'.phase = "editing"
    BY DEF BrowseInv, FormInv, Refuse
  <1>3. cache' \in Caches
    BY MadeCaches DEF Refuse, BrowseInv, OnPage
  <1>4. OnPage'
    BY <1>2, <1>3 DEF BrowseInv, OnPage, Refuse, Phases, Caches, Can
  <1>5. HasRoom'
    BY <1>2 DEF BrowseInv, HasRoom, Refuse, Posted, FormInv, OnPage
  <1> QED
    BY <1>1, <1>2, <1>4, <1>5 DEF BrowseInv, CaughtInTime

\* What the answers lead to.
LEMMA AnswerCaught ==
  ASSUME BrowseInv, Answer \/ AnswerSecond \/ FailSecond
  PROVE  BrowseInv'
  <1>0. /\ form.op \in Pages[here].ops
        /\ version \in 0 .. version /\ FirstAnswer \in 0 .. version
    BY DEF BrowseInv, OnPage, Answer, AnswerSecond, FailSecond, FirstAnswer
  <1>1. CASE Answer
    <2>1. CASE form.phase = "served" /\ Finish(form.op, "refreshing", version)
      BY <1>0, <2>1, FinishCaught
    <2>2. CASE /\ form.phase = "served" /\ form.op.second # "none"
               /\ form' = [form EXCEPT !.phase = "attaching"]
               /\ UNCHANGED <<role, here, watched, cache, version>>
      <3>1. form' = [op |-> form.op, phase |-> "attaching", own |-> form.own, rows |-> form.rows,
                     excused |-> form.excused, awaits |-> form.awaits]
        BY <2>2 DEF BrowseInv, FormInv
      <3>2. FormInv'
        BY <2>2, <3>1 DEF BrowseInv, FormInv, Posted
      <3>3. OnPage'
        BY <2>2, <3>1 DEF BrowseInv, OnPage, Phases, Caches, Can
      <3>4. HasRoom'
        BY <2>2, <3>1 DEF BrowseInv, HasRoom, Posted
      <3> QED
        BY <3>1, <3>2, <3>3, <3>4 DEF BrowseInv, CaughtInTime
    <2> QED
      BY <1>1, <2>1, <2>2 DEF Answer
  <1>2. CASE AnswerSecond
    BY <1>0, <1>2, FinishCaught DEF AnswerSecond
  <1>3. CASE FailSecond
    <2>1. form.op.second = "receive" => SaveDraft(form.op.creates) \in Pages[here].ops
      BY <1>0, OpsAreSound DEF OpIsSound, BrowseInv, OnPage
    <2>2. /\ SaveDraft(form.op.creates).to = "purchase"
          /\ SaveDraft(form.op.creates).sets = {<<"purchase">>}
      BY DEF SaveDraft, Form
    <2> QED
      BY <1>0, <1>3, <2>1, <2>2, FinishCaught DEF FailSecond
  <1> QED
    BY <1>1, <1>2, <1>3

\* The page a form leads to is open to whoever was on the page of the form.
LEMMA LeadsOn ==
  ASSUME BrowseInv, form.phase = "refreshing", form.op.to # "stay"
  PROVE  form.op.to \in DOMAIN Pages /\ Can(Pages[form.op.to].door)
  <1>1. form.op \in Pages[here].ops /\ here \in DOMAIN Pages
    BY DEF BrowseInv, OnPage
  <1>2. form.op.to \in DOMAIN Pages
    BY <1>1, OpsAreSound DEF OpIsSound
  <1>3. Pages[form.op.to].door \subseteq Given(Pages[here].door)
    BY <1>1, PagesAreOpen DEF PageIsOpen, OpsOpen
  <1>4. Given(Pages[here].door) \subseteq Grants[role]
    BY Granted DEF BrowseInv, OnPage, Can
  <1> QED
    BY <1>2, <1>3, <1>4 DEF Can

LEMMA SettleCaught ==
  ASSUME BrowseInv, Settle
  PROVE  BrowseInv'
  <1>1. FormInv'
    BY BrowsingInv DEF BrowseInv, BrowsingNext, FormStep
  <1>2. CASE form.phase = "returning"
    <2>1. /\ form'.op = form.op /\ form'.own = form.own /\ form'.awaits = form.awaits
          /\ form'.excused = form.excused + 1 /\ form'.phase = "editing"
          /\ UNCHANGED <<role, here, watched, cache, version>>
      BY <1>2 DEF BrowseInv, FormInv, Settle
    <2>2. OnPage'
      BY <1>2, <2>1 DEF BrowseInv, OnPage, Phases, Caches, Can
    <2>3. HasRoom'
      BY <1>2, <2>1 DEF BrowseInv, HasRoom, FormInv, OnPage, Posted
    <2> QED
      BY <1>1, <2>1, <2>2, <2>3 DEF BrowseInv, CaughtInTime
  <1>3. CASE form.phase = "refreshing"
    <2>1. /\ form'.op = form.op /\ form'.own = form.own /\ form'.awaits = form.awaits
          /\ form'.excused = form.excused /\ form'.phase = "settled"
          /\ UNCHANGED <<role, watched, version>> /\ ~form.awaits
          /\ here' = Leads(form.op, here)
      BY <1>3 DEF BrowseInv, FormInv, Settle, Leads
    <2>2. HasRoom'
      BY <1>3, <2>1 DEF BrowseInv, HasRoom, Posted
    <2>3. here' \in DOMAIN Pages /\ Can(Pages[here'].door)
      BY <1>3, <2>1, LeadsOn DEF Leads, BrowseInv, OnPage
    <2>4. InView' => InView
      BY <1>3, <2>1 DEF InView
    <2>5. CASE UNCHANGED cache
      <3>1. OnPage'
        BY <2>1, <2>3, <2>5 DEF BrowseInv, OnPage, Phases, Caches, Can
      <3>2. ASSUME InView' PROVE Caught'
        <4>1. Caught /\ cache' = cache
          BY <1>3, <2>4, <2>5, <3>2 DEF BrowseInv, CaughtInTime
        <4>2. form.op.to = "stay" => here' = here
          BY <2>1 DEF Leads
        <4>3. CASE cache.seen = 0 /\ cache.asked = 0 /\ ~MountedOn(here)
          <5>1. ~MountedOn(here')
            <6>1. CASE form.op.to = "stay"
              BY <4>2, <4>3, <6>1
            <6>2. CASE form.op.to # "stay"
              <7>1. here' = form.op.to
                BY <2>1, <6>2 DEF Leads
              <7>2. MountedOn(form.op.to) => cache' = Fetched(cache)
                BY <1>3, <4>3, <6>2 DEF Settle
              <7>3. Fetched(cache).asked = version
                BY DEF Fetched, BrowseInv, OnPage, Caches
              <7> QED
                BY <2>5, <4>3, <7>1, <7>2, <7>3 DEF BrowseInv, OnPage
            <6> QED
              BY <6>1, <6>2
          <5>2. MountedOn(here)' = MountedOn(here')
            BY <2>1 DEF MountedOn, Enabled, Can
          <5> QED
            BY <4>1, <4>3, <5>1, <5>2 DEF Caught
        <4>4. ~(form.op.to # "stay" /\ MountedOn(form.op.to) /\ cache.asked = 0)
          <5>1. ASSUME form.op.to # "stay", MountedOn(form.op.to), cache.asked = 0
                PROVE  cache' = Fetched(cache)
            BY <1>3, <5>1 DEF Settle
          <5>2. Fetched(cache).asked = version /\ version # 0
            BY DEF Fetched, BrowseInv, OnPage, Caches
          <5> QED
            BY <2>5, <5>1, <5>2
        <4> QED
          BY <2>1, <4>1, <4>3, <4>4 DEF Caught
      <3> QED
        BY <1>1, <1>3, <2>1, <2>2, <3>1, <3>2 DEF BrowseInv, CaughtInTime
    <2>6. CASE cache' = Fetched(cache) /\ form.op.to # "stay"
      <3>1. cache' \in Caches /\ cache'.asked = version
        BY <2>1, <2>6, MadeCaches DEF BrowseInv, OnPage, Caches
      <3>2. OnPage'
        BY <2>1, <2>3, <3>1 DEF BrowseInv, OnPage, Phases, Caches, Can
      <3>3. Caught'
        BY <2>1, <2>6, <3>1 DEF Caught
      <3> QED
        BY <1>1, <1>3, <2>1, <2>2, <3>2, <3>3 DEF BrowseInv, CaughtInTime
    <2> QED
      BY <1>3, <2>5, <2>6 DEF Settle
  <1> QED
    BY <1>2, <1>3 DEF Settle

LEMMA BrowseStep ==
  ASSUME BrowseInv, BrowsingNext
  PROVE  BrowseInv'
  BY RefetchCaught, CacheCaught, OpenCaught, CloseCaught, SubmitCaught, ServeCaught, RefuseCaught,
     AnswerCaught, SettleCaught DEF BrowsingNext, FormStep

-----------------------------------------------------------------------------
LEMMA BrowsesTyped == BrowseInv => BrowsingTypeOK
  <1> SUFFICES ASSUME BrowseInv PROVE BrowsingTypeOK
    OBVIOUS
  <1>1. form.rows <= version /\ form.excused <= version
    BY DEF BrowseInv, FormInv, HasRoom, OnPage
  <1> QED
    BY <1>1 DEF BrowseInv, OnPage, BrowsingTypeOK, Phases, Caches

LEMMA WritesShown == BrowseInv => OwnWritesAreShown
  <1> SUFFICES ASSUME BrowseInv, form.phase = "settled", Touches(form.op, watched),
                      MountedOn(here) \/ watched.minute
               PROVE  \/ cache.seen >= form.own
                      \/ cache.doubt
                      \/ cache.seen = 0 /\ ~MountedOn(here)
                      \/ cache.asked >= form.own /\ (~form.op.waits \/ form.op.to # "stay")
    BY DEF OwnWritesAreShown, Touches
  <1>1. MountedOn(here) => watched.key \in MountedKeys(here)
    BY DEF MountedOn, MountedKeys
  <1>2. Caught /\ form.own = version /\ ~form.awaits
    BY <1>1 DEF BrowseInv, CaughtInTime, InView
  <1> QED
    BY <1>2 DEF Caught, BrowseInv, OnPage

LEMMA NothingRefused == BrowseInv => NothingIsRefused
  <1> SUFFICES ASSUME BrowseInv PROVE NothingIsRefused
    OBVIOUS
  <1>1. role \in DOMAIN Grants /\ PageIsOpen(Pages[here]) /\ Can(Pages[here].door)
    BY PagesAreOpen DEF BrowseInv, OnPage
  <1>2. ASSUME NEW perms, Can(perms), NEW needs, needs \subseteq Given(Pages[here].door \cup perms)
        PROVE  Can(needs)
    BY <1>1, <1>2, Granted DEF Can
  <1>3. \A q \in Pages[here].queries : Enabled(q) => Can(q.needs)
    BY <1>1, <1>2 DEF PageIsOpen, QueriesOpen, Enabled
  <1>4. \A op \in Pages[here].ops : Can(op.may) => Can(op.needs)
    BY <1>1, <1>2 DEF PageIsOpen, OpsOpen
  <1>5. \A f \in Pages[here].figures : Can(f.if) => Can(f.needs)
    BY <1>1, <1>2 DEF PageIsOpen, FiguresOpen
  <1>6. ASSUME NEW link \in Pages[here].links \cup Sidebar, Can(link.if)
        PROVE  Can(Pages[link.to].door)
    <2>1. CASE link \in Pages[here].links
      BY <1>1, <1>2, <1>6, <2>1 DEF PageIsOpen, LinksOpen
    <2>2. CASE link \in Sidebar
      BY <1>1, <1>6, <2>2, SidebarIsOpen, Granted DEF Can
    <2> QED
      BY <2>1, <2>2
  <1> QED
    BY <1>3, <1>4, <1>5, <1>6 DEF NothingIsRefused

-----------------------------------------------------------------------------
(***************************************************************************)
(* The till.                                                               *)
(***************************************************************************)
\* The till and the sale it may have made since the last answer that was lost.
TillInv ==
  /\ IsFiniteSet(sales) /\ lost \in Nat
  /\ Cardinality(sales) <= lost + (IF till \in {"recorded", "refreshing", "left"} THEN 1 ELSE 0)

LEMMA TillStepInv ==
  ASSUME TillInv, TillNext
  PROVE  TillInv'
  <1>1. CASE UNCHANGED <<till, sales, lost>>
    BY <1>1 DEF TillInv
  <1>2. CASE Complete
    BY <1>2 DEF Complete, Blocked, TillInv
  <1>3. CASE Record
    <2>1. PICK sale : sales' = sales \cup {sale}
      BY <1>3 DEF Record
    <2>2. IsFiniteSet(sales') /\ Cardinality(sales') <= Cardinality(sales) + 1
          /\ Cardinality(sales) \in Nat
      BY <2>1, FS_AddElement, FS_CardinalityType DEF TillInv
    <2>3. till = "submitting" /\ till' = "recorded" /\ lost' = lost
      BY <1>3 DEF Record
    <2>4. Cardinality(sales) <= lost /\ lost \in Nat /\ Cardinality(sales') \in Nat
      BY <2>2, <2>3, FS_CardinalityType DEF TillInv
    <2> QED
      BY <2>2, <2>3, <2>4 DEF TillInv
  <1>4. CASE Reject
    BY <1>4, FS_CardinalityType DEF Reject, TillInv
  <1>5. CASE Answered \/ Leave
    BY <1>5 DEF Answered, Leave, TillInv
  <1> QED
    BY <1>1, <1>2, <1>3, <1>4, <1>5
       DEF TillNext, SaleStep, Add, Update, Edit, Receive, ChooseCustomer, Elsewhere, Relist

-----------------------------------------------------------------------------
(***************************************************************************)
(* What the till asks for is what it showed: the sum over the cart is that *)
(* over the lines of the request, and the server's, at the same prices.    *)
(***************************************************************************)
\* What the request of the till says: each product of the cart once, at most
\* what a line comes to taken off, and the amounts that were on the screen.
TicketTotal ==
  SumFunction([i \in ticket.items |-> ticket.priced[i.product] * i.quantity - i.discount])

TicketIsOfCart ==
  /\ ticket.items \subseteq [product : Product, quantity : Nat \ {0}, discount : Nat]
  /\ IsFiniteSet(ticket.items) /\ DOMAIN ticket.priced \subseteq Product
  /\ \A i \in ticket.items : i.product \in DOMAIN ticket.priced
  /\ \A i, k \in ticket.items : i.product = k.product => i = k
  /\ ticket.shown = Tender(TicketTotal, ticket.received)

SellInv ==
  /\ TillTypeOK /\ IsFiniteSet(Lines(cart)) /\ SaleIsTheTicket
  /\ till = "submitting" => TicketIsOfCart

-----------------------------------------------------------------------------
\* A line of a cart comes to nothing less than nothing.
LEMMA LineAmount ==
  ASSUME NEW c \in [Product -> Line \cup {NoLine}], NEW p \in Lines(c)
  PROVE  /\ p \in Product /\ c[p] \in Line /\ Gross(c, p) \in Nat
         /\ Gross(c, p) - (IF BadLine(c, p) THEN 0 ELSE c[p].discount) \in Nat
         /\ ~BadLine(c, p) => c[p].discount \in Nat
  <1>1. p \in Product /\ c[p] \in Line
    BY DEF Lines
  <1>2. /\ c[p].price \in Nat /\ c[p].quantity \in Nat
        /\ c[p].discount \in Nat \/ c[p].discount = Null
    BY <1>1 DEF Line, Cents
  <1>3. \A a, b \in Nat : a * b \in Nat
    OBVIOUS
  <1>4. Gross(c, p) \in Nat
    BY <1>2, <1>3 DEF Gross
  <1> QED
    BY <1>1, <1>2, <1>4 DEF BadLine

LEMMA CartTotalType ==
  ASSUME NEW c \in [Product -> Line \cup {NoLine}], IsFiniteSet(Lines(c))
  PROVE  CartTotal(c) \in Nat
  <1> DEFINE w == [p \in Lines(c) |-> Gross(c, p) - IF BadLine(c, p) THEN 0 ELSE c[p].discount]
  <1>1. \A p \in Lines(c) : w[p] \in Nat
    BY LineAmount
  <1>2. SumFunctionOnSet(w, Lines(c)) \in Nat
    <2> HIDE DEF w
    <2> QED
      BY <1>1, SumNonNegative
  <1>3. DOMAIN w = Lines(c)
    OBVIOUS
  <1> QED
    BY <1>2, <1>3 DEF CartTotal, SumFunction

\* A request that is made up of a cart says what the cart did.
LEMMA CompleteMakesTicket ==
  ASSUME SellInv, Complete
  PROVE  TicketIsOfCart'
  <1> DEFINE S == Lines(cart)
             w == [p \in S |-> Gross(cart, p) - IF BadLine(cart, p) THEN 0 ELSE cart[p].discount]
             v == [i \in ticket'.items |-> ticket'.priced[i.product] * i.quantity - i.discount]
             f == [p \in S |-> Item(p)]
  <1>1. /\ cart \in [Product -> Line \cup {NoLine}] /\ IsFiniteSet(S) /\ received \in Nat
        /\ \A p \in S : ~BadLine(cart, p)
    BY DEF SellInv, TillTypeOK, Cents, Complete, Blocked
  <1>2. /\ ticket'.items = {Item(p) : p \in S} /\ ticket'.priced = [p \in S |-> cart[p].price]
        /\ ticket'.received = received /\ ticket'.shown = Tendered
        /\ ticket' = [items |-> ticket'.items, received |-> received, named |-> HasCustomer,
                      priced |-> ticket'.priced, shown |-> Tendered]
    BY DEF Complete
  <1>3. \A p \in S : /\ p \in Product /\ cart[p] \in Line /\ cart[p].discount \in Nat
                     /\ w[p] \in Nat /\ w[p] = Gross(cart, p) - cart[p].discount
    BY <1>1, LineAmount
  <1>4. \A p \in S : /\ Item(p) \in [product : Product, quantity : Nat \ {0}, discount : Nat]
                     /\ Item(p).product = p /\ Item(p).quantity = cart[p].quantity
                     /\ Item(p).discount = cart[p].discount
    BY <1>3 DEF Item, Line
  <1>5. Tendered = Tender(CartTotal(cart), received) /\ CartTotal(cart) \in Nat
    BY <1>1, CartTotalType DEF Tendered, OrZero, Null
  <1>6. /\ ticket'.items \subseteq [product : Product, quantity : Nat \ {0}, discount : Nat]
        /\ DOMAIN ticket'.priced \subseteq Product
    BY <1>2, <1>3, <1>4
  <1>7. f \in Bijection(S, ticket'.items)
    <2>1. f \in [S -> ticket'.items] /\ \A i \in ticket'.items : \E p \in S : f[p] = i
      BY <1>2
    <2>2. \A p, q \in S : f[p] = f[q] => p = q
      BY <1>4
    <2> HIDE DEF f
    <2> QED
      BY <2>1, <2>2 DEF Bijection, Injection, Surjection, IsInjective
  <1>8. IsFiniteSet(ticket'.items)
    <2> HIDE DEF f, S
    <2> QED
      BY <1>1, <1>7, FS_Bijection DEF ExistsBijection
  <1>9. \A p \in S : w[p] \in Int /\ v[f[p]] = w[p]
    BY <1>2, <1>3, <1>4 DEF Gross
  <1>10. SumFunctionOnSet(v, ticket'.items) = SumFunctionOnSet(w, S)
    <2> HIDE DEF f, S, w, v
    <2> QED
      BY <1>1, <1>7, <1>9, SumByIndex
  <1>11. TicketTotal' = CartTotal(cart)
    <2>1. DOMAIN w = S /\ DOMAIN v = ticket'.items
      OBVIOUS
    <2>2. CartTotal(cart) = SumFunction(w) /\ TicketTotal' = SumFunction(v)
      BY DEF CartTotal, TicketTotal
    <2> HIDE DEF S, w, v
    <2> QED
      BY <1>10, <2>1, <2>2 DEF SumFunction
  <1>12. /\ \A i \in ticket'.items : i.product \in DOMAIN ticket'.priced
         /\ \A i, k \in ticket'.items : i.product = k.product => i = k
    BY <1>2, <1>4
  <1> QED
    BY <1>2, <1>5, <1>6, <1>8, <1>11, <1>12 DEF TicketIsOfCart

\* The server comes to the amounts on the screen if its prices are those of
\* the cart.
LEMMA ServerAgrees ==
  ASSUME SellInv, TicketIsOfCart,
         \A p \in DOMAIN ticket.priced : shelf[p].price = ticket.priced[p]
  PROVE  Tender(ServerTotal, ticket.received) = ticket.shown
  <1> DEFINE v == [i \in ticket.items |-> ticket.priced[i.product] * i.quantity - i.discount]
             u == [i \in ticket.items |-> shelf[i.product].price * i.quantity - i.discount]
  <1>1. \A i \in ticket.items : shelf[i.product].price = ticket.priced[i.product]
    BY DEF TicketIsOfCart
  <1>2. u = v
    BY <1>1
  <1>3. ServerTotal = TicketTotal
    BY <1>2 DEF ServerTotal, TicketTotal
  <1> QED
    BY <1>3 DEF TicketIsOfCart

LEMMA RecordKeeps ==
  ASSUME SellInv, Record
  PROVE  SellInv'
  <1>1. TicketIsOfCart /\ till' = "recorded"
    BY DEF SellInv, Record
  <1>2. shelf' \in [Product -> Listing]
    <2>1. ASSUME NEW p \in Product PROVE [shelf[p] EXCEPT !.stock = @ - Sold(p)] \in Listing
      <3>1. shelf[p] \in Listing /\ shelf[p].stock \in Nat
        BY DEF SellInv, TillTypeOK, Listing
      <3>2. Sold(p) \in Nat /\ Sold(p) <= shelf[p].stock
        <4>1. CASE \E i \in ticket.items : i.product = p
          <5>1. PICK i \in ticket.items : i.product = p /\ Sold(p) = i.quantity
            BY <4>1 DEF Sold
          <5>2. i.quantity \in Nat
            BY <1>1 DEF TicketIsOfCart
          <5>3. i.quantity <= shelf[p].stock
            BY <5>1 DEF Record, Acceptable
          <5> QED
            BY <5>1, <5>2, <5>3
        <4>2. CASE ~\E i \in ticket.items : i.product = p
          BY <3>1, <4>2 DEF Sold
        <4> QED
          BY <4>1, <4>2
      <3>3. shelf[p].stock - Sold(p) \in Nat
        BY <3>1, <3>2
      <3> QED
        BY <3>1, <3>3 DEF Listing
    <2> QED
      BY <2>1 DEF Record
  <1>3. TillTypeOK'
    BY <1>2 DEF SellInv, TillTypeOK, Record
  <1>4. SaleIsTheTicket'
    <2> DEFINE new == [number |-> Cardinality(sales) + 1, of |-> ticket,
                       at |-> [p \in Product |-> shelf[p].price],
                       cash |-> Tender(ServerTotal, ticket.received)]
    <2>1. sales' = sales \cup {new}
      BY DEF Record
    <2>2. new.of = ticket /\ new.cash = Tender(ServerTotal, ticket.received)
          /\ \A p \in Product : new.at[p] = shelf[p].price
      OBVIOUS
    <2>3. DOMAIN ticket.priced \subseteq Product
      BY <1>1 DEF TicketIsOfCart
    <2>4. (\A p \in DOMAIN ticket.priced : new.at[p] = ticket.priced[p]) => new.cash = ticket.shown
      <3> SUFFICES ASSUME \A p \in DOMAIN ticket.priced : new.at[p] = ticket.priced[p]
                   PROVE  new.cash = ticket.shown
        OBVIOUS
      <3>1. \A p \in DOMAIN ticket.priced : shelf[p].price = ticket.priced[p]
        BY <2>2, <2>3
      <3> HIDE DEF new
      <3> QED
        BY <1>1, <2>2, <3>1, ServerAgrees
    <2>5. new.cash.balance > 0 => ticket.named
      BY <2>2 DEF Record, Acceptable
    <2> HIDE DEF new
    <2> QED
      BY <2>1, <2>2, <2>4, <2>5 DEF SellInv, SaleIsTheTicket
  <1> QED
    BY <1>1, <1>3, <1>4 DEF SellInv, Record

-----------------------------------------------------------------------------
Customers == {"none", "existing", "new", "nameless"}

LEMMA EditKeeps ==
  ASSUME SellInv, NEW c \in [Product -> Line \cup {NoLine}], IsFiniteSet(Lines(c)),
         NEW r \in Cents, NEW who \in Customers, Edit(c, r, who)
  PROVE  SellInv'
  <1>1. /\ cart' = c /\ received' = r /\ customer' = who
        /\ UNCHANGED <<shelf, listed, ticket, till, sales, lost>>
    BY DEF Edit
  <1>2. TillTypeOK' /\ IsFiniteSet(Lines(cart))' /\ SaleIsTheTicket'
    BY <1>1 DEF SellInv, TillTypeOK, SaleIsTheTicket, Customers, Lines
  <1>3. TicketIsOfCart => TicketIsOfCart'
    BY <1>1 DEF TicketIsOfCart, TicketTotal
  <1> QED
    BY <1>1, <1>2, <1>3 DEF SellInv

\* One line of the cart is changed, or put in or taken out.
LEMMA OneLineIsFinite ==
  ASSUME SellInv, NEW p \in Product, NEW x \in Line \cup {NoLine}
  PROVE  LET c == [cart EXCEPT ![p] = x] IN
         c \in [Product -> Line \cup {NoLine}] /\ IsFiniteSet(Lines(c))
  <1> DEFINE c == [cart EXCEPT ![p] = x]
  <1>1. c \in [Product -> Line \cup {NoLine}] /\ Lines(c) \subseteq Lines(cart) \cup {p}
    BY DEF SellInv, TillTypeOK, Lines
  <1>2. IsFiniteSet(Lines(cart) \cup {p})
    BY FS_AddElement DEF SellInv
  <1> QED
    BY <1>1, <1>2, FS_Subset

LEMMA AddKeeps ==
  ASSUME SellInv, NEW p \in Product, Add(p)
  PROVE  SellInv'
  <1>1. /\ cart[p] \in Line \cup {NoLine} /\ listed[p] \in Listing
        /\ received \in Cents /\ customer \in Customers
    BY DEF SellInv, TillTypeOK, Customers
  <1>2. CASE cart[p] = NoLine
    <2> DEFINE x == [stock |-> listed[p].stock, price |-> listed[p].price, quantity |-> 1,
                     discount |-> 0]
    <2>1. x \in Line
      BY <1>1 DEF Line, Listing, Cents
    <2>2. Edit([cart EXCEPT ![p] = x], received, customer)
      BY <1>2 DEF Add
    <2> HIDE DEF x
    <2> QED
      BY <1>1, <2>1, <2>2, EditKeeps, OneLineIsFinite
  <1>3. CASE cart[p] \in Line /\ cart[p] # NoLine
    <2> DEFINE x == [cart[p] EXCEPT !.quantity = cart[p].quantity + 1]
    <2>1. x \in Line
      BY <1>3 DEF Line
    <2>2. Edit([cart EXCEPT ![p] = x], received, customer)
      BY <1>3 DEF Add
    <2> HIDE DEF x
    <2> QED
      BY <1>1, <2>1, <2>2, EditKeeps, OneLineIsFinite
  <1> QED
    BY <1>1, <1>2, <1>3

LEMMA UpdateKeeps ==
  ASSUME SellInv, NEW p \in Product, Update(p)
  PROVE  SellInv'
  <1>1. /\ cart[p] \in Line /\ received \in Cents /\ customer \in Customers
        /\ cart \in [Product -> Line \cup {NoLine}]
    BY DEF SellInv, TillTypeOK, Customers, Update
  <1>2. PICK x \in Line \cup {NoLine} : Edit([cart EXCEPT ![p] = x], received, customer)
    <2>1. CASE \E n \in (1 .. cart[p].stock) \cup {cart[p].quantity - 1} :
                 n >= 1 /\ Edit([cart EXCEPT ![p].quantity = n], received, customer)
      <3>1. PICK n \in (1 .. cart[p].stock) \cup {cart[p].quantity - 1} :
              n >= 1 /\ Edit([cart EXCEPT ![p].quantity = n], received, customer)
        BY <2>1
      <3>2. n \in Nat \ {0}
        BY <1>1, <3>1 DEF Line
      <3>3. [cart[p] EXCEPT !.quantity = n] \in Line
        BY <1>1, <3>2 DEF Line
      <3>4. [cart EXCEPT ![p].quantity = n] = [cart EXCEPT ![p] = [cart[p] EXCEPT !.quantity = n]]
        OBVIOUS
      <3> QED
        BY <3>1, <3>3, <3>4
    <2>2. CASE \E d \in {1, Price[p], Null} :
                 Edit([cart EXCEPT ![p].discount = d], received, customer)
      <3>1. PICK d \in {1, Price[p], Null} :
              Edit([cart EXCEPT ![p].discount = d], received, customer)
        BY <2>2
      <3>2. d \in Cents
        BY TillAssumption DEF Cents
      <3>3. [cart[p] EXCEPT !.discount = d] \in Line
        BY <1>1, <3>2 DEF Line
      <3>4. [cart EXCEPT ![p].discount = d] = [cart EXCEPT ![p] = [cart[p] EXCEPT !.discount = d]]
        OBVIOUS
      <3> QED
        BY <3>1, <3>3, <3>4
    <2>3. CASE Edit([cart EXCEPT ![p] = NoLine], received, customer)
      BY <2>3
    <2> QED
      BY <2>1, <2>2, <2>3 DEF Update
  <1> QED
    BY <1>1, <1>2, EditKeeps, OneLineIsFinite

LEMMA SellStep ==
  ASSUME SellInv, TillNext
  PROVE  SellInv'
  <1>0. cart \in [Product -> Line \cup {NoLine}] /\ received \in Cents /\ customer \in Customers
    BY DEF SellInv, TillTypeOK, Customers
  <1>1. ASSUME NEW p \in Product, Elsewhere(p) PROVE SellInv'
    <2>1. shelf[p].stock \in Nat /\ shelf[p].price \in Nat /\ NewPrice[p] \in Nat
      BY TillAssumption DEF SellInv, TillTypeOK, Listing
    <2>2. shelf' \in [Product -> Listing]
      <3>1. CASE shelf[p].stock > 0 /\ shelf' = [shelf EXCEPT ![p].stock = @ - 1]
        BY <2>1, <3>1 DEF SellInv, TillTypeOK, Listing
      <3>2. CASE shelf' = [shelf EXCEPT ![p].price = NewPrice[p]]
        BY <2>1, <3>2 DEF SellInv, TillTypeOK, Listing
      <3> QED
        BY <1>1, <3>1, <3>2 DEF Elsewhere
    <2>3. UNCHANGED <<listed, cart, received, customer, ticket, till, sales, lost>>
      BY <1>1 DEF Elsewhere
    <2>4. TicketIsOfCart => TicketIsOfCart'
      BY <2>3 DEF TicketIsOfCart, TicketTotal
    <2> QED
      BY <2>2, <2>3, <2>4 DEF SellInv, TillTypeOK, SaleIsTheTicket, Lines
  <1>2. CASE Receive
    <2>1. PICK r \in Cash \cup {Null} \cup (IF Lines(cart) = {} THEN {} ELSE {0, CartTotal(cart)}) :
            Edit(cart, r, customer)
      BY <1>2 DEF Receive
    <2>2. CartTotal(cart) \in Nat
      BY <1>0, CartTotalType DEF SellInv
    <2>3. r \in Cents
      BY <2>1, <2>2, TillAssumption DEF Cents
    <2> QED
      BY <1>0, <2>1, <2>3, EditKeeps DEF SellInv
  <1>3. CASE ChooseCustomer
    BY <1>0, <1>3, EditKeeps DEF SellInv, ChooseCustomer, Customers
  <1>4. CASE Relist
    <2>1. TicketIsOfCart => TicketIsOfCart'
      BY <1>4 DEF Relist, TicketIsOfCart, TicketTotal
    <2> QED
      BY <1>4, <2>1 DEF Relist, SellInv, TillTypeOK, SaleIsTheTicket, Lines
  <1>5. CASE Complete
    BY <1>5, CompleteMakesTicket DEF Complete, SellInv, TillTypeOK, SaleIsTheTicket, Lines
  <1>6. CASE Reject
    BY <1>6 DEF Reject, SellInv, TillTypeOK, SaleIsTheTicket, Lines
  <1>7. CASE Answered
    BY <1>7 DEF Answered, SellInv, TillTypeOK, SaleIsTheTicket, Lines
  <1>8. CASE Leave
    <2>1. cart' \in [Product -> Line \cup {NoLine}] /\ Lines(cart') = {}
      BY <1>8 DEF Leave, Lines
    <2>2. IsFiniteSet(Lines(cart)')
      BY <2>1, FS_EmptySet DEF Lines
    <2> QED
      BY <1>8, <2>1, <2>2 DEF Leave, SellInv, TillTypeOK, SaleIsTheTicket, Cents
  <1> QED
    BY <1>1, <1>2, <1>3, <1>4, <1>5, <1>6, <1>7, <1>8, AddKeeps, UpdateKeeps, RecordKeeps
       DEF TillNext, SaleStep

LEMMA SellStarts == TillInit => SellInv
  <1> SUFFICES ASSUME TillInit PROVE SellInv
    OBVIOUS
  <1>1. shelf \in [Product -> Listing] /\ listed = shelf
    BY TillAssumption DEF TillInit, Listing
  <1>2. cart \in [Product -> Line \cup {NoLine}] /\ Lines(cart) = {}
    BY DEF TillInit, Lines
  <1>3. IsFiniteSet(Lines(cart))
    BY <1>2, FS_EmptySet
  <1> QED
    BY <1>1, <1>2, <1>3 DEF TillInit, SellInv, TillTypeOK, SaleIsTheTicket, Cents

-----------------------------------------------------------------------------
\* The inductive invariant.
IInv == BrowseInv /\ TillInv /\ ListInv /\ SellInv

LEMMA InitIInv == Init => IInv
  <1> SUFFICES ASSUME Init PROVE IInv
    OBVIOUS
  <1>1. TillInv
    BY FS_EmptySet DEF Init, TillInit, TillInv
  <1> QED
    BY <1>1, BrowseStarts, InitListInv, SellStarts DEF IInv, Init

LEMMA NextIInv == IInv /\ [Next]_vars => IInv'
  <1> SUFFICES ASSUME IInv, [Next]_vars PROVE IInv'
    OBVIOUS
  <1>1. BrowseInv'
    <2>1. CASE BrowsingNext
      BY <2>1, BrowseStep DEF IInv
    <2>2. CASE UNCHANGED browsing
      <3>1. FormInv' /\ OnPage' /\ HasRoom'
        BY <2>2 DEF IInv, BrowseInv, browsing, FormInv, OnPage, Caches, Can, HasRoom, Affordable
      <3>2. CaughtInTime'
        BY <2>2 DEF IInv, BrowseInv, browsing, CaughtInTime, InView, Caught, MountedOn, Enabled, Can
      <3> QED
        BY <3>1, <3>2 DEF BrowseInv
    <2> QED
      BY <2>1, <2>2 DEF Next, vars
  <1>2. TillInv' /\ SellInv'
    <2>1. CASE TillNext
      BY <2>1, TillStepInv, SellStep DEF IInv
    <2>2. CASE UNCHANGED tilling
      BY <2>2 DEF IInv, tilling, TillInv, SellInv, TillTypeOK, SaleIsTheTicket, Lines,
                  TicketIsOfCart, TicketTotal
    <2> QED
      BY <2>1, <2>2 DEF Next, vars
  <1>3. ListInv'
    <2>1. CASE ListNext
      BY <2>1, ListStepInv DEF IInv
    <2>2. CASE UNCHANGED listing
      BY <2>2 DEF IInv, listing, ListInv, Typed, Fits, DraftIsHeard, ShownRowsAreAsked, Shown,
                  StandsIn, AskOf
    <2> QED
      BY <2>1, <2>2 DEF Next, vars
  <1> QED
    BY <1>1, <1>2, <1>3 DEF IInv

\* Every variable of the client's pages, lists and till keeps its type.
THEOREM TypeCorrect == Spec => []TypeOK
  <1>1. IInv => TypeOK
    BY BrowsesTyped DEF IInv, TypeOK, ListInv, Typed, ListTypeOK, SellInv
  <1> QED
    BY <1>1, InitIInv, NextIInv, PTL DEF Spec

\* What a form wrote is on the page once it has closed, or the page a form led
\* to asks for it, unless the fetch that was to bring it failed or may have
\* been overtaken: every form sets or invalidates whatever the pages show of
\* what it writes (the onSuccess handlers of the pages and lib/).
THEOREM WritesAreShown == Spec => []OwnWritesAreShown
  <1>1. IInv => OwnWritesAreShown
    BY WritesShown DEF IInv
  <1> QED
    BY <1>1, InitIInv, NextIInv, PTL DEF Spec

\* No user of a seeded role is led to what the server refuses him: whatever
\* the pages he can reach ask, offer or link to is open to him (can() of the
\* pages against required_permissions of the views).
THEOREM NoneIsRefused == Spec => []NothingIsRefused
  <1>1. IInv => NothingIsRefused
    BY NothingRefused DEF IInv
  <1> QED
    BY <1>1, InitIInv, NextIInv, PTL DEF Spec

\* However often it is submitted and whatever is lost, a form posts one row and
\* a cart one sale, and one more for each answer that was lost and each receipt
\* that could not be attached (the submit handlers of the pages).
THEOREM PostsOnce == Spec => []OneRowPerForm
  <1>1. IInv => OneRowPerForm
    BY FS_CardinalityType
       DEF IInv, BrowseInv, FormInv, TillInv, OneRowPerForm, FormPostsOnce, TillPostsOnce
  <1> QED
    BY <1>1, InitIInv, NextIInv, PTL DEF Spec

\* However typing, tabs, pages and the back button overlap with navigations
\* under way, a page number belongs to the tab and search it was asked on, and
\* a search of the catalog to its tab (useListParams()).
THEOREM UrlsFit == Spec => []UrlFitsItsTab
  <1>1. IInv => UrlFitsItsTab
    BY DEF IInv, ListInv, Fits, UrlFitsItsTab
  <1> QED
    BY <1>1, InitIInv, NextIInv, PTL DEF Spec

\* No word typed stays unsearched: it is in the URL, or its timeout runs, or a
\* navigation is about to settle the matter (SearchInput).
THEOREM DraftsAreHeard == Spec => []DraftIsHeard
  <1>1. IInv => DraftIsHeard
    BY DEF IInv, ListInv
  <1> QED
    BY <1>1, InitIInv, NextIInv, PTL DEF Spec

\* The rows on show answer the query of the URL or stand in for it, and are of
\* its tab either way (placeholderData and the keys of the lists).
THEOREM RowsAreAsked == Spec => []ShownRowsAreAsked
  <1>1. IInv => ShownRowsAreAsked
    BY DEF IInv, ListInv
  <1> QED
    BY <1>1, InitIInv, NextIInv, PTL DEF Spec

\* A sale's total, its cash, change and debt are those that were on the screen
\* when it was completed, if the server's prices were still those of the cart
\* when it recorded the sale; and one that leaves something owing names a
\* customer (submit() of pages/pos.tsx, the totals of lib/money.ts).
THEOREM SoldAsShown == Spec => []SaleIsTheTicket
  <1>1. IInv => SaleIsTheTicket
    BY DEF IInv, SellInv
  <1> QED
    BY <1>1, InitIInv, NextIInv, PTL DEF Spec
================================================================================
