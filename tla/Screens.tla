-------------------------------- MODULE Screens --------------------------------
(***************************************************************************)
(* The screens of the browser client as data: what each page asks of the   *)
(* server, what each form or button does, and who is shown it.  Module     *)
(* Browsing gives it behaviour.  Left out: layout, wording, the validation *)
(* of single fields, and the filters of lists (module ListView).           *)
(***************************************************************************)
EXTENDS SequencesExt

\* backend/accounts/rbac.py: the roles a business is seeded with.
SELLER == {"catalog.view", "inventory.view", "sales.view", "sales.create"}
CASHIER ==
  SELLER \cup {"sales.view_all", "payments.create", "finance.view", "catalog.manage",
               "inventory.adjust", "purchases.view", "purchases.manage",
               "expenses.view", "expenses.manage"}
ADMIN ==
  CASHIER \cup {"settings.view", "reports.view", "reports.export", "staff.manage"}
OWNER ==
  ADMIN \cup {"settings.manage", "catalog.delete", "sales.void", "expenses.delete", "audit.view"}
Grants == [OWNER |-> OWNER, ADMIN |-> ADMIN, SELLER |-> SELLER, CASHIER |-> CASHIER]

(***************************************************************************)
(* A query: its key, the permissions its `enabled` asks for and rules out, *)
(* those the server asks for, the data it reads, and whether it is kept    *)
(* fresh for a minute (staleTime).  An aside is not mounted: another page  *)
(* may have left it in the cache.                                          *)
(***************************************************************************)
Query(key, needs, reads) ==
  [key |-> key, if |-> {}, unless |-> {}, needs |-> needs, reads |-> reads,
   minute |-> FALSE, mounted |-> TRUE]
If(perms, query)     == [query EXCEPT !.if = perms]
Unless(perms, query) == [query EXCEPT !.unless = perms]
Minute(query)        == [query EXCEPT !.minute = TRUE]
Aside(query)         == [query EXCEPT !.mounted = FALSE]

(***************************************************************************)
(* What a form, a dialog or a button does: who is shown it, whom the       *)
(* server obeys, whether it posts a new row, the data it writes, the keys  *)
(* it puts the answer under, the prefixes it invalidates and whether it    *)
(* waits for their queries, a second request it makes once the first is    *)
(* answered, whether it refreshes whatever the answer, and the page it     *)
(* leads to, if any.                                                       *)
(***************************************************************************)
Form ==
  [name |-> "none", may |-> {}, needs |-> {}, creates |-> FALSE, writes |-> {}, sets |-> {},
   refreshes |-> {}, waits |-> TRUE, second |-> "none", anyway |-> FALSE, to |-> "stay"]

\* A page: who is shown a way there, the query it shows nothing without, its
\* queries, its forms and buttons, where its other links lead and who is shown
\* them, and figures that are shown to some and sent to some.
Page(door, queries) ==
  [door |-> door, of |-> <<>>, queries |-> queries, ops |-> {}, links |-> {}, figures |-> {}]
Link(to, perms)    == [to |-> to, if |-> perms]
Figure(show, send) == [if |-> show, needs |-> send]

\* useRefOptions() and useExpenseCategories(): the drop-downs.
RefOptions(kind) == Minute(Query(<<kind, "options">>, {"catalog.view"}, {kind}))
ExpenseCategories ==
  Minute(Query(<<"expense-categories", "options">>, {"expenses.view"}, {"expense-categories"}))
Roles == Minute(Query(<<"roles">>, {"staff.manage"}, {}))

StockKeys == {<<"products">>, <<"product">>, <<"batches">>, <<"movements">>, <<"inventory">>}

-----------------------------------------------------------------------------
(* Home, the bell of the shell, and alerts. *)

\* The totals cover everyone's sales; without them a seller sees his own day.
DashboardPage ==
  [Page({}, {If({"sales.view_all"}, Query(<<"sales", "summary">>,
               {"sales.view", "sales.view_all"}, {"sales", "expenses"})),
             Unless({"sales.view_all"}, If({"sales.view"},
               Query(<<"sales", "my-summary">>, {"sales.view"}, {"sales"}))),
             If({"inventory.view"}, Query(<<"inventory", "summary">>,
               {"inventory.view"}, {"stock", "products", "settings"}))})
   EXCEPT !.figures = {Figure({"sales.view_all", "finance.view"}, {"finance.view"}),
                       Figure({"sales.view_all", "expenses.view"}, {"expenses.view"}),
                       Figure({"sales.view_all", "finance.view", "expenses.view"},
                              {"finance.view", "expenses.view"})},
          !.links = {Link("sales", {"sales.view_all"}), Link("sales", {"sales.view"}),
                     Link("customers", {"sales.view_all"}), Link("inventory", {"inventory.view"}),
                     Link("expenses", {"sales.view_all", "expenses.view"})}]

NotificationBell == Query(<<"notifications", "unread-count">>, {}, {"notifications"})

\* Opening an alert marks it read and leads to its product; marking again
\* changes nothing.
NotificationsPage ==
  LET read == [Form EXCEPT
                 !.writes = {"notifications"}, !.refreshes = {<<"notifications">>},
                 !.anyway = TRUE]
  IN  [Page({}, {Query(<<"notifications", "list">>, {}, {"notifications"}), NotificationBell})
       EXCEPT !.ops = {[read EXCEPT !.name = "readOne"], [read EXCEPT !.name = "readAll"]},
              !.links = {Link("product", {})}]

-----------------------------------------------------------------------------
(* Sales. *)

\* PosPage.submit(); what is sold is module Till's.
CompleteSale ==
  [Form EXCEPT
     !.name = "completeSale", !.needs = {"sales.create"}, !.creates = TRUE,
     !.writes = {"sales", "stock", "customers"}, !.sets = {<<"sale">>},
     !.refreshes = StockKeys \cup {<<"sales">>, <<"customers">>}, !.to = "sale"]

PosPage ==
  [Page({"sales.create"},
        {Query(<<"products", "pos">>, {"catalog.view"}, {"products", "stock"}),
         Query(<<"customers", "pick">>, {"sales.view"}, {"customers", "sales"}),
         Aside(Query(<<"sale">>, {"sales.view"}, {"sales"}))})
   EXCEPT !.ops = {CompleteSale}, !.links = {Link("sale", {})}]

SalesPage ==
  [Page({"sales.view"},
        {Query(<<"sales", "list">>, {"sales.view"}, {"sales"}),
         Query(<<"customers", "detail">>, {"sales.view"}, {"customers", "sales"})})
   EXCEPT !.links = {Link("sale", {}), Link("pos", {"sales.create"})}]

RecordPayment ==
  [Form EXCEPT
     !.name = "recordPayment", !.may = {"payments.create"},
     !.needs = {"payments.create"}, !.creates = TRUE, !.writes = {"sales"},
     !.refreshes = {<<"sale">>, <<"sales">>, <<"customers">>}]

VoidSale ==
  [Form EXCEPT
     !.name = "voidSale", !.may = {"sales.void"}, !.needs = {"sales.void"},
     !.writes = {"sales", "stock"}, !.sets = {<<"sale">>},
     !.refreshes = StockKeys \cup {<<"sale">>, <<"sales">>, <<"customers">>}]

SaleDetailPage ==
  [Page({"sales.view"}, {Query(<<"sale">>, {"sales.view"}, {"sales"})})
   EXCEPT !.of = <<"sale">>, !.ops = {RecordPayment, VoidSale},
          !.links = {Link("sales", {}), Link("pos", {"sales.create"}), Link("product", {})}]

AddCustomer ==
  [Form EXCEPT
     !.name = "addCustomer", !.may = {"sales.create"}, !.needs = {"sales.create"},
     !.creates = TRUE, !.writes = {"customers"}, !.refreshes = {<<"customers">>}]

CustomersPage ==
  [Page({"sales.view"}, {Query(<<"customers", "list">>, {"sales.view"}, {"customers", "sales"})})
   EXCEPT !.ops = {AddCustomer}, !.links = {Link("sales", {})}]

-----------------------------------------------------------------------------
(* Purchases. *)

PurchasesPage ==
  [Page({"purchases.view"},
        {Query(<<"purchases", "list">>, {"purchases.view"}, {"purchases"}),
         If({"catalog.view"}, RefOptions("suppliers"))})
   EXCEPT !.links = {Link("purchase", {}), Link("newPurchase", {"purchases.manage"})}]

ReceivePurchase ==
  [Form EXCEPT
     !.name = "receivePurchase", !.may = {"purchases.manage"},
     !.needs = {"purchases.manage"}, !.writes = {"purchases", "stock", "products"},
     !.sets = {<<"purchase">>}, !.refreshes = StockKeys \cup {<<"purchases">>}]

CancelPurchase ==
  [Form EXCEPT
     !.name = "cancelPurchase", !.may = {"purchases.manage"},
     !.needs = {"purchases.manage"}, !.writes = {"purchases"},
     !.sets = {<<"purchase">>}, !.refreshes = {<<"purchases">>}]

PurchaseDetailPage ==
  [Page({"purchases.view"}, {Query(<<"purchase">>, {"purchases.view"}, {"purchases"})})
   EXCEPT !.of = <<"purchase">>, !.ops = {ReceivePurchase, CancelPurchase},
          !.links = {Link("purchases", {}), Link("editPurchase", {"purchases.manage"}),
                     Link("product", {})}]

\* PurchaseEditor.submit(FALSE): a draft.  submit(TRUE): a draft, and then its
\* receipt; what it refreshes if that fails is a draft's.
SaveDraft(new) ==
  [Form EXCEPT
     !.name = "saveDraft", !.needs = {"purchases.manage"}, !.creates = new,
     !.writes = {"purchases"}, !.sets = {<<"purchase">>},
     !.refreshes = {<<"purchases">>}, !.to = "purchase"]
SaveAndReceive(new) ==
  [SaveDraft(new) EXCEPT
     !.name = "saveAndReceive", !.writes = {"purchases", "stock", "products"},
     !.second = "receive", !.refreshes = StockKeys \cup {<<"purchases">>}]

PurchaseFormPage(purchase) ==
  [Page({"purchases.manage"},
        {Query(<<"products", "purchase">>, {"catalog.view"}, {"products", "stock"}),
         RefOptions("suppliers")}
        \cup LET it == Query(<<"purchase">>, {"purchases.view"}, {"purchases"})
             IN  {IF purchase = <<>> THEN Aside(it) ELSE it})
   EXCEPT !.of = purchase,
          !.ops = {SaveDraft(purchase = <<>>), SaveAndReceive(purchase = <<>>)},
          !.links = {Link("purchase", {})}]

-----------------------------------------------------------------------------
(* Expenses. *)

\* ExpenseDialog: saving, with the receipt put after the row; the rest of it.
SaveExpense(new) ==
  [Form EXCEPT
     !.name = IF new THEN "addExpense" ELSE "editExpense", !.may = {"expenses.manage"},
     !.needs = {"expenses.manage"}, !.creates = new, !.writes = {"expenses"},
     !.second = "receipt", !.refreshes = {<<"expenses">>, <<"sales", "summary">>}]
RemoveReceipt == [SaveExpense(FALSE) EXCEPT !.name = "removeReceipt", !.second = "none"]
DeleteExpense ==
  [SaveExpense(FALSE) EXCEPT
     !.name = "deleteExpense", !.may = {"expenses.delete"},
     !.needs = {"expenses.delete"}, !.second = "none"]

\* CategoriesDialog
AddCategory ==
  [Form EXCEPT
     !.name = "addCategory", !.may = {"expenses.manage"}, !.needs = {"expenses.manage"},
     !.creates = TRUE, !.writes = {"expense-categories"},
     !.refreshes = {<<"expense-categories">>}]
RemoveCategory ==
  [AddCategory EXCEPT
     !.name = "removeCategory", !.may = {"expenses.delete"},
     !.needs = {"expenses.delete"}, !.creates = FALSE]

ExpensesPage ==
  [Page({"expenses.view"},
        {Query(<<"expenses", "list">>, {"expenses.view"}, {"expenses"}),
         Query(<<"expenses", "summary">>, {"expenses.view"}, {"expenses"}),
         ExpenseCategories})
   EXCEPT !.ops = {SaveExpense(TRUE), SaveExpense(FALSE), RemoveReceipt, DeleteExpense,
                   AddCategory, RemoveCategory}]

-----------------------------------------------------------------------------
(* Products and stock. *)

References == {RefOptions("categories"), RefOptions("brands"), RefOptions("suppliers")}

ProductsPage ==
  [Page({"catalog.view"},
        References \cup {Query(<<"products", "list">>, {"catalog.view"}, {"products", "stock"})})
   EXCEPT !.links = {Link("product", {}), Link("newProduct", {"catalog.manage"})}]

\* Archiving and restoring; deleting; the dialog that adjusts stock.
SetActive ==
  [Form EXCEPT
     !.name = "setActive", !.may = {"catalog.manage"}, !.needs = {"catalog.manage"},
     !.writes = {"products"}, !.sets = {<<"product">>}, !.refreshes = {<<"products">>},
     !.waits = FALSE]
DeleteProduct ==
  [Form EXCEPT
     !.name = "deleteProduct", !.may = {"catalog.delete"}, !.needs = {"catalog.delete"},
     !.writes = {"products"}, !.refreshes = {<<"products">>}, !.to = "products"]

\* Mutant: the batches are forgotten.
AdjustStockUnseen ==
  [Form EXCEPT
     !.name = "adjustStock", !.may = {"inventory.adjust"},
     !.needs = {"inventory.adjust"}, !.creates = TRUE, !.writes = {"stock"},
     !.refreshes = StockKeys \ {<<"batches">>}]

AdjustStock ==
  [Form EXCEPT
     !.name = "adjustStock", !.may = {"inventory.adjust"},
     !.needs = {"inventory.adjust"}, !.creates = TRUE, !.writes = {"stock"},
     !.refreshes = StockKeys]

ProductDetailPage ==
  [Page({"catalog.view"},
        {Query(<<"product">>, {"catalog.view"}, {"products", "stock"}),
         If({"inventory.view"}, Query(<<"batches">>, {"inventory.view"}, {"stock"})),
         If({"inventory.view"}, Query(<<"movements">>, {"inventory.view"}, {"stock"}))})
   EXCEPT !.of = <<"product">>, !.ops = {SetActive, DeleteProduct, AdjustStock},
          !.links = {Link("products", {}), Link("editProduct", {"catalog.manage"})}]

\* ProductForm.onSubmit(): the row, then the image, which may fail.
SaveProduct(new) ==
  [Form EXCEPT
     !.name = "saveProduct", !.needs = {"catalog.manage"}, !.creates = new,
     !.writes = {"products"}, !.second = "image",
     !.refreshes = {<<"products">>, <<"product">>}, !.to = "product"]

ProductFormPage(product) ==
  [Page({"catalog.manage"},
        References \cup (IF product = <<>> THEN {}
                         ELSE {Query(product, {"catalog.view"}, {"products", "stock"})}))
   EXCEPT !.of = product, !.ops = {SaveProduct(product = <<>>)},
          !.links = {Link("product", {})}]

\* LowStockList and ExpiryList
InventoryPage ==
  [Page({"inventory.view"},
        {Query(<<"inventory", "low-stock">>, {"inventory.view"}, {"products", "stock"}),
         Query(<<"inventory", "expiring">>, {"inventory.view"}, {"stock"})})
   EXCEPT !.links = {Link("product", {})}]

\* EditDialog of the catalog and the dialog that deletes.
SaveReference(kind, new) ==
  [Form EXCEPT
     !.name = IF new THEN "addReference" ELSE "editReference",
     !.may = {"catalog.manage"}, !.needs = {"catalog.manage"}, !.creates = new,
     !.writes = {kind}, !.refreshes = {<<kind>>}]

\* Mutant: whoever may edit is offered to delete.
DeleteReferenceIfManaged(kind) ==
  [SaveReference(kind, FALSE) EXCEPT
     !.name = "deleteReference", !.may = {"catalog.manage"}, !.needs = {"catalog.delete"}]

DeleteReference(kind) ==
  [SaveReference(kind, FALSE) EXCEPT
     !.name = "deleteReference", !.may = {"catalog.delete"}, !.needs = {"catalog.delete"}]

\* One tab of CatalogPage; the drop-downs of other pages may still hold the
\* options of the same kind.
RefManager(kind) ==
  [Page({"catalog.view"},
        {Query(<<kind, "list">>, {"catalog.view"}, {kind}), Aside(RefOptions(kind))})
   EXCEPT !.ops = {SaveReference(kind, TRUE), SaveReference(kind, FALSE), DeleteReference(kind)}]

-----------------------------------------------------------------------------
(* Reports, staff, settings and the audit log. *)

FinanceReports == {"profit", "stock-valuation", "expiry"}
ExpenseReports == {"profit", "expenses"}
About(report) ==
  (IF report \in FinanceReports THEN {"finance.view"} ELSE {})
    \cup (IF report \in ExpenseReports THEN {"expenses.view"} ELSE {})

\* The views of a report: SalesView asks for its columns, the others show what
\* the report is about.
ReportFigures(report) ==
  IF report = "sales" THEN {Figure({"finance.view"}, {"finance.view"})}
  ELSE {Figure({}, About(report))}

DownloadReport(report) ==
  [Form EXCEPT
     !.name = "download", !.may = {"reports.export"},
     !.needs = {"reports.view", "reports.export"} \cup About(report)]

\* ReportsPage offers the reports one may see; each is a page of its own here.
ReportsPage(report) ==
  [Page({"reports.view"} \cup About(report),
        {Query(<<"reports">>, {"reports.view"} \cup About(report), {})})
   EXCEPT !.ops = {DownloadReport(report)}, !.figures = ReportFigures(report)]

\* AddStaffDialog and ManageStaffDialog; both go on to show the login.
AddStaff ==
  [Form EXCEPT
     !.name = "addStaff", !.needs = {"staff.manage"}, !.creates = TRUE,
     !.writes = {"staff"}, !.refreshes = {<<"staff">>}]
ManageStaff(what) == [AddStaff EXCEPT !.name = what, !.creates = FALSE]

StaffPage ==
  [Page({"staff.manage"}, {Query(<<"staff">>, {"staff.manage"}, {"staff"}), Roles})
   EXCEPT !.ops = {AddStaff, ManageStaff("saveChanges"), ManageStaff("resetPassword")}]

SaveSettings ==
  [Form EXCEPT
     !.name = "saveSettings", !.may = {"settings.manage"},
     !.needs = {"settings.manage"}, !.writes = {"settings"}, !.sets = {<<"settings">>}]

SettingsPage ==
  [Page({"settings.view"},
        {If({"settings.view"}, Query(<<"settings">>, {"settings.view"}, {"settings"}))})
   EXCEPT !.of = <<"settings">>, !.ops = {SaveSettings}]

AuditPage == Page({"audit.view"}, {Query(<<"audit-logs">>, {"audit.view"}, {})})

-----------------------------------------------------------------------------
Pages ==
  [home |-> DashboardPage, notifications |-> NotificationsPage, pos |-> PosPage,
   sales |-> SalesPage, sale |-> SaleDetailPage, customers |-> CustomersPage,
   purchases |-> PurchasesPage, purchase |-> PurchaseDetailPage,
   newPurchase |-> PurchaseFormPage(<<>>), editPurchase |-> PurchaseFormPage(<<"purchase">>),
   expenses |-> ExpensesPage, products |-> ProductsPage, product |-> ProductDetailPage,
   newProduct |-> ProductFormPage(<<>>), editProduct |-> ProductFormPage(<<"product">>),
   inventory |-> InventoryPage, catalog |-> RefManager("categories"),
   salesReport |-> ReportsPage("sales"), profitReport |-> ReportsPage("profit"),
   expenseReport |-> ReportsPage("expenses"), valuation |-> ReportsPage("stock-valuation"),
   expiryReport |-> ReportsPage("expiry"), staff |-> StaffPage, settings |-> SettingsPage,
   audit |-> AuditPage]

\* NAV: the links of the sidebar, which every page has.
Sidebar ==
  {Link("home", {}), Link("pos", {"sales.create"}), Link("sales", {"sales.view"}),
   Link("customers", {"sales.view"}), Link("purchases", {"purchases.view"}),
   Link("expenses", {"expenses.view"}), Link("products", {"catalog.view"}),
   Link("inventory", {"inventory.view"}), Link("catalog", {"catalog.view"}),
   Link("salesReport", {"reports.view"}), Link("staff", {"staff.manage"}),
   Link("settings", {"settings.view"}), Link("audit", {"audit.view"}),
   Link("notifications", {})}
==============================================================================
