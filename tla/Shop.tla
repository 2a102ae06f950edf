---------------------------------- MODULE Shop ---------------------------------
(***************************************************************************)
(* The transactions that move stock, running against each other: recording *)
(* and voiding a sale (sales.services), receiving a purchase               *)
(* (purchases.services) and adjusting stock (inventory.serializers).       *)
(*                                                                         *)
(* Each HTTP request runs one transaction at READ COMMITTED.  A step of    *)
(* this module is a statement that takes a lock or reads what others may   *)
(* change; rows a transaction has written are seen by others when it       *)
(* commits.  Row locks are held to the end.  A statement inside            *)
(* record_movement() is not a step of its own here: StockLedger shows that *)
(* from the batch lock to the insert nothing it reads can change.          *)
(***************************************************************************)
EXTENDS Integers, Sequences, FiniteSets, FiniteSetsExt, SequencesExt

CONSTANTS
  Product, Batch, Purchase,
  Request,       \* HTTP requests; a sale is named by the request recording it
  Free, Opening, \* nobody; the document of the opening stock
  ProductOf,     \* ProductBatch.product
  TracksExpiry,  \* products with Product.tracks_expiry; the others have DEFAULT batches
  PkRank,        \* order of the batches' primary keys
  FefoRank,      \* order by expiry (none last), received_on, created_at
  Expired,       \* batches past their expiry date today
  OpeningStock,  \* units in each batch that exists at the start
  PurchaseLines, \* lines of each draft purchase
  JobsOf         \* what each request may be asked to do

ASSUME OrdersAreTotal ==
  /\ ProductOf \in [Batch -> Product]
  /\ PkRank \in [Batch -> Int] /\ FefoRank \in [Batch -> Int]
  /\ \A b, c \in Batch : b # c => PkRank[b] # PkRank[c] /\ FefoRank[b] # FefoRank[c]

ASSUME NobodyAssumption == Free \notin Request /\ Opening \notin Request \cup Purchase

ASSUME OpeningAssumption ==
  /\ DOMAIN OpeningStock \subseteq Batch /\ IsFiniteSet(DOMAIN OpeningStock)
  /\ \A b \in DOMAIN OpeningStock : OpeningStock[b] \in Nat

VARIABLES
  ledger,    \* committed StockMovement rows
  batches,   \* committed ProductBatch rows
  sales,     \* committed Sale rows, with their items' allocations
  purchases, \* status of each purchase
  cost,      \* the purchase each Product.cost_price comes from
  holder,    \* who holds each row lock, or has inserted the row uncommitted
  pc, job,   \* each request: control state, and what it was asked to do
  listed,    \* batches its FOR UPDATE query found, in order
  locked,    \* how many of them it has locked
  lines,     \* sale lines it has still to allocate
  short,     \* whether a line could not be filled
  plan,      \* movements to record, in order
  done,      \* how many of them it has recorded
  number,    \* receipt number it has read
  pending    \* StockMovement rows it has inserted, uncommitted

tables == <<ledger, batches, sales, purchases, cost>>
work   == <<job, listed, locked, lines, short, plan, number>>
vars   == <<tables, holder, pc, work, done, pending>>

Settings  == "settings"       \* the business's BusinessSettings row
Resources == {Settings} \cup Batch \cup Request \cup Purchase \cup Product

\* Rows of different tables are different rows.
ASSUME TablesAreDisjoint ==
  /\ Settings \notin Batch \cup Request \cup Purchase \cup Product
  /\ Batch \cap (Request \cup Purchase \cup Product) = {}
  /\ Request \cap (Purchase \cup Product) = {}
  /\ Purchase \cap Product = {}

(***************************************************************************)
(* What may be asked: _price_lines() and _check_lines() refuse a cart that *)
(* lists a product twice and a purchase that lists a batch twice; the      *)
(* serializers refuse what is not positive, or for an adjustment is zero.  *)
(***************************************************************************)
Movement == [batch : Batch, quantity : Int \ {0}]

Carts == {cart \in Seq([product : Product, quantity : Nat \ {0}]) :
            \A i, k \in DOMAIN cart : cart[i].product = cart[k].product => i = k}

Deliveries == {list \in Seq([batch : Batch, quantity : Nat \ {0}]) \ {<<>>} :
                 \A i, k \in DOMAIN list : list[i].batch = list[k].batch => i = k}

Jobs ==
  [kind : {"sale"}, cart : Carts]
    \cup [kind : {"void"}, sale : Request]
    \cup [kind : {"receive"}, purchase : Purchase]
    \cup [kind : {"adjust"}, type : {"ADJUSTMENT"}, move : Movement]
    \cup [kind : {"adjust"}, type : {"DAMAGE", "EXPIRY"}, move : {m \in Movement : m.quantity < 0}]

ASSUME JobsAssumption ==
  /\ \A r \in Request : JobsOf[r] \subseteq Jobs
  /\ PurchaseLines \in [Purchase -> Deliveries]

NoSale == [status |-> "ABSENT", number |-> 0, allocations |-> <<>>]
NoJob  == [kind |-> "none"]

Answered == {"done", "refused", "failed", "insufficient"}

--------------------------------------------------------------------------------
(***************************************************************************)
(* Reading the database.                                                   *)
(***************************************************************************)
Units(rows) == SumFunctionOnSet([row \in rows |-> row.quantity], rows)

OnHand(rows, b) == Units({row \in rows : row.batch = b})

\* What a statement of r computes: committed rows and its own.
Stock(r, b) == OnHand(ledger \cup pending[r], b)

Move(b, q) == [batch |-> b, quantity |-> q]

\* ORDER BY: the members of S, by rank.
InOrder(S, rank) ==
  CHOOSE s \in [1..Cardinality(S) -> S] :
    \A i, k \in DOMAIN s : i < k => rank[s[i]] < rank[s[k]]

\* Mutant: batches in the order of their primary keys.
SellableByPk(r, p) ==
  InOrder({b \in batches \ Expired : ProductOf[b] = p /\ Stock(r, b) > 0}, PkRank)

\* _sellable_batches(): in stock, not expired, first expiry first.
Sellable(r, p) ==
  InOrder({b \in batches \ Expired : ProductOf[b] = p /\ Stock(r, b) > 0}, FefoRank)

Least(a, b) == IF a <= b THEN a ELSE b

\* The allocation loop of create_sale(): take from each batch in turn.
Allocate(r, from, needed) ==
  LET remaining[i \in 0..Len(from)] ==
        IF i = 0 THEN needed
        ELSE remaining[i - 1] - Least(remaining[i - 1], Stock(r, from[i]))
      used == Cardinality({i \in DOMAIN from : remaining[i - 1] > 0})
  IN  [remaining |-> remaining[Len(from)],
       moves |-> [i \in 1..used |-> Move(from[i], remaining[i] - remaining[i - 1])]]

LastNumber == Max({0} \cup {sales[s].number : s \in Request})

\* The batches of the cart's products, in the order their rows are locked.
BatchesOf(cart) ==
  InOrder({b \in batches : \E i \in DOMAIN cart : ProductOf[b] = cart[i].product}, PkRank)

--------------------------------------------------------------------------------
Init ==
  /\ ledger = {[by |-> Opening, doc |-> Opening, type |-> "PURCHASE", batch |-> b,
                quantity |-> OpeningStock[b]] :
                 b \in {c \in DOMAIN OpeningStock : OpeningStock[c] > 0}}
  /\ batches = DOMAIN OpeningStock
  /\ sales = [r \in Request |-> NoSale]
  /\ purchases = [p \in Purchase |-> "DRAFT"]
  /\ cost = [p \in Product |-> Opening]
  /\ holder = [x \in Resources |-> Free]
  /\ pc = [r \in Request |-> "new"]
  /\ job = [r \in Request |-> NoJob]
  /\ listed = [r \in Request |-> <<>>]
  /\ locked = [r \in Request |-> 0]
  /\ lines = [r \in Request |-> <<>>]
  /\ short = [r \in Request |-> FALSE]
  /\ plan = [r \in Request |-> <<>>]
  /\ done = [r \in Request |-> 0]
  /\ number = [r \in Request |-> 0]
  /\ pending = [r \in Request |-> {}]

Goto(r, label) == pc' = [pc EXCEPT ![r] = label]

Acquire(r, x) ==
  /\ holder[x] \in {Free, r}
  /\ holder' = [holder EXCEPT ![x] = r]

\* The transaction ends: its locks go, and with a rollback all it wrote.
End(r, answer) ==
  /\ holder' = [x \in Resources |-> IF holder[x] = r THEN Free ELSE holder[x]]
  /\ pending' = [pending EXCEPT ![r] = {}]
  /\ Goto(r, answer)

\* Mutant: every statement commits by itself, without transaction.atomic.
AbandonAutocommitted(r, answer) ==
  /\ End(r, answer)
  /\ ledger' = ledger \cup pending[r]
  /\ batches' = batches \cup {b \in Batch : holder[b] = r}
  /\ UNCHANGED <<sales, purchases, cost, work, done>>

\* Mutant: resolve_batch() commits what it creates, as outside the atomic block.
AbandonKeepingBatches(r, answer) ==
  /\ End(r, answer)
  /\ batches' = batches \cup {b \in Batch : holder[b] = r}
  /\ UNCHANGED <<ledger, sales, purchases, cost, work, done>>

\* Mutant: the error is answered but its transaction is left open.
AbandonKeepingLocks(r, answer) ==
  /\ Goto(r, answer)
  /\ pending' = [pending EXCEPT ![r] = {}]
  /\ UNCHANGED <<tables, holder, work, done>>

Abandon(r, answer) == End(r, answer) /\ UNCHANGED <<tables, work, done>>

(***************************************************************************)
(* create_sale()                                                           *)
(***************************************************************************)
RequestSale(r) ==
  /\ pc[r] = "new"
  /\ \E j \in JobsOf[r] :
       /\ j.kind = "sale"
       /\ job' = [job EXCEPT ![r] = j]
       /\ lines' = [lines EXCEPT ![r] = j.cart]
  /\ Goto(r, "settings")
  /\ UNCHANGED <<tables, holder, listed, locked, plan, done, number, pending, short>>

\* Mutant: the settings row is read without FOR UPDATE.
ReadSettings(r) ==
  /\ pc[r] = "settings"
  /\ Goto(r, "numbering")
  /\ UNCHANGED <<tables, holder, work, done, pending>>

\* "Serialises receipt numbers per business: the settings row is the lock."
LockSettings(r) ==
  /\ pc[r] = "settings"
  /\ Acquire(r, Settings)
  /\ Goto(r, "numbering")
  /\ UNCHANGED <<tables, work, done, pending>>

\* The number, and the snapshot of the query that locks the batches.
ReadNumber(r) ==
  /\ pc[r] = "numbering"
  /\ number' = [number EXCEPT ![r] = LastNumber + 1]
  /\ listed' = [listed EXCEPT ![r] = BatchesOf(job[r].cart)]
  /\ Goto(r, "locking")
  /\ UNCHANGED <<tables, holder, job, locked, lines, plan, done, pending, short>>

AllLocked(r) == locked[r] = Len(listed[r])

\* Mutant: the batches are read without FOR UPDATE.
ReadNextBatch(r) ==
  /\ pc[r] = "locking"
  /\ ~AllLocked(r)
  /\ locked' = [locked EXCEPT ![r] = @ + 1]
  /\ UNCHANGED <<tables, holder, pc, job, listed, lines, plan, number, done, pending,
                 short>>

\* SELECT ... ORDER BY pk FOR UPDATE locks row after row.
LockNextBatch(r) ==
  /\ pc[r] = "locking"
  /\ ~AllLocked(r)
  /\ Acquire(r, listed[r][locked[r] + 1])
  /\ locked' = [locked EXCEPT ![r] = @ + 1]
  /\ UNCHANGED <<tables, pc, job, listed, lines, plan, number, done, pending, short>>

(***************************************************************************)
(* One query per line, each with a snapshot of its own.  All lines are     *)
(* looked at before a shortage of any of them is reported.                 *)
(***************************************************************************)
AllocateLine(r) ==
  /\ pc[r] = "locking"
  /\ AllLocked(r)
  /\ lines[r] # <<>>
  /\ LET line == Head(lines[r])
         got  == Allocate(r, Sellable(r, line.product), line.quantity)
     IN  /\ plan' = [plan EXCEPT ![r] = @ \o got.moves]
         /\ short' = [short EXCEPT ![r] = @ \/ got.remaining > 0]
  /\ lines' = [lines EXCEPT ![r] = Tail(@)]
  /\ UNCHANGED <<tables, holder, pc, job, listed, locked, number, done, pending>>

AllAllocated(r) == pc[r] = "locking" /\ AllLocked(r) /\ lines[r] = <<>>

RefuseShortage(r) ==
  /\ AllAllocated(r)
  /\ short[r]
  /\ Abandon(r, "refused")

StartMoving(r) ==
  /\ AllAllocated(r)
  /\ ~short[r]
  /\ Goto(r, "moving")
  /\ UNCHANGED <<tables, holder, work, done, pending>>

(***************************************************************************)
(* void_sale(): find the sale, lock it, then one RETURN per allocation, in *)
(* the order they were created.                                            *)
(***************************************************************************)
RequestVoid(r) ==
  /\ pc[r] = "new"
  /\ \E j \in JobsOf[r] :
       /\ j.kind = "void"
       /\ sales[j.sale].status # "ABSENT"
       /\ job' = [job EXCEPT ![r] = j]
  /\ Goto(r, "document")
  /\ UNCHANGED <<tables, holder, listed, locked, lines, plan, done, number, pending, short>>

\* Mutant: the status is not looked at again under the lock.
LockAnySale(r) ==
  /\ pc[r] = "document"
  /\ job[r].kind = "void"
  /\ Acquire(r, job[r].sale)
  /\ plan' = [plan EXCEPT ![r] = sales[job[r].sale].allocations]
  /\ Goto(r, "moving")
  /\ UNCHANGED <<tables, job, listed, locked, lines, number, done, pending, short>>

LockSale(r) ==
  /\ pc[r] = "document"
  /\ job[r].kind = "void"
  /\ holder[job[r].sale] = Free
  /\ LET sale == sales[job[r].sale] IN
       IF sale.status = "VOID"
       THEN Abandon(r, "refused")
       ELSE /\ Acquire(r, job[r].sale)
            /\ plan' = [plan EXCEPT ![r] = sale.allocations]
            /\ Goto(r, "moving")
            /\ UNCHANGED <<tables, job, listed, locked, lines, number, done, pending, short>>

(***************************************************************************)
(* receive_purchase() and the adjustment: each line's batch is found, or   *)
(* created, before its movement is recorded.  Where batches have expiry    *)
(* dates, one to take stock out of must be chosen from those that exist;   *)
(* elsewhere DEFAULT is created first and the movement refused after that. *)
(***************************************************************************)
RequestStock(r) ==
  /\ pc[r] = "new"
  /\ \E j \in JobsOf[r] :
       /\ j.kind \in {"receive", "adjust"}
       /\ job' = [job EXCEPT ![r] = j]
       /\ IF j.kind = "receive"
          THEN Goto(r, "document") /\ UNCHANGED plan
          ELSE /\ j.move.quantity < 0 /\ ProductOf[j.move.batch] \in TracksExpiry
                    => j.move.batch \in batches
               /\ Goto(r, "resolving")
               /\ plan' = [plan EXCEPT ![r] = <<j.move>>]
  /\ UNCHANGED <<tables, holder, listed, locked, lines, done, number, pending, short>>

\* Mutant: the status is not looked at again under the lock.
LockAnyPurchase(r) ==
  /\ pc[r] = "document"
  /\ job[r].kind = "receive"
  /\ Acquire(r, job[r].purchase)
  /\ plan' = [plan EXCEPT ![r] = PurchaseLines[job[r].purchase]]
  /\ Goto(r, "resolving")
  /\ UNCHANGED <<tables, job, listed, locked, lines, number, done, pending, short>>

LockPurchase(r) ==
  /\ pc[r] = "document"
  /\ job[r].kind = "receive"
  /\ holder[job[r].purchase] = Free
  /\ IF purchases[job[r].purchase] # "DRAFT"
     THEN Abandon(r, "refused")
     ELSE /\ Acquire(r, job[r].purchase)
          /\ plan' = [plan EXCEPT ![r] = PurchaseLines[job[r].purchase]]
          /\ Goto(r, "resolving")
          /\ UNCHANGED <<tables, job, listed, locked, lines, number, done, pending, short>>

Planned(r) == plan[r][done[r] + 1]

\* resolve_batch(): an existing batch is used, a missing one is to be created.
ResolveBatch(r) ==
  /\ pc[r] = "resolving"
  /\ Goto(r, IF Planned(r).batch \in batches THEN "moving" ELSE "creating")
  /\ UNCHANGED <<tables, holder, work, done, pending>>

(***************************************************************************)
(* The insert waits for a transaction that has inserted the same batch     *)
(* number and not ended; if that one commits, or already has, the unique   *)
(* constraint breaks this one.                                             *)
(***************************************************************************)
CreateBatch(r) ==
  /\ pc[r] = "creating"
  /\ LET b == Planned(r).batch IN
       IF b \in batches
       THEN Abandon(r, "failed")
       ELSE /\ Acquire(r, b)
            /\ Goto(r, "moving")
            /\ UNCHANGED <<tables, work, done, pending>>

(***************************************************************************)
(* record_movement() on the next batch: lock it, check it if stock leaves, *)
(* insert the row.  Only the adjustment turns InsufficientStock into an    *)
(* answer; create_sale()'s caller does not catch it.                       *)
(***************************************************************************)
\* Mutant: a void writes a type of its own.
MovementTypeOfVoid(r) ==
  CASE job[r].kind = "sale"    -> "SALE"
    [] job[r].kind = "void"    -> "VOID"
    [] job[r].kind = "receive" -> "PURCHASE"
    [] job[r].kind = "adjust"  -> job[r].type

MovementType(r) ==
  CASE job[r].kind = "sale"    -> "SALE"
    [] job[r].kind = "void"    -> "RETURN"
    [] job[r].kind = "receive" -> "PURCHASE"
    [] job[r].kind = "adjust"  -> job[r].type

\* The sale, purchase or adjustment the row's reason names.
Document(r) ==
  CASE job[r].kind = "void"    -> job[r].sale
    [] job[r].kind = "receive" -> job[r].purchase
    [] OTHER                   -> r

\* Mutant: the check is off by one.
OverdrawsByTwo(r, b, q) == q < 0 /\ Stock(r, b) + q < -1

Overdraws(r, b, q) == q < 0 /\ Stock(r, b) + q < 0

RecordMovement(r) ==
  /\ pc[r] = "moving"
  /\ done[r] < Len(plan[r])
  /\ LET b == Planned(r).batch
         q == Planned(r).quantity
     IN  /\ holder[b] \in {Free, r}
         /\ IF Overdraws(r, b, q)
            THEN Abandon(r, IF job[r].kind = "adjust" THEN "refused" ELSE "insufficient")
            ELSE /\ Acquire(r, b)
                 /\ pending' = [pending EXCEPT ![r] = @ \cup
                      {[by |-> r, doc |-> Document(r), type |-> MovementType(r),
                        batch |-> b, quantity |-> q]}]
                 /\ done' = [done EXCEPT ![r] = @ + 1]
                 /\ Goto(r, IF job[r].kind = "receive" THEN "pricing" ELSE "moving")
                 /\ UNCHANGED <<tables, work>>

\* "Latest cost wins": the product row is written, so held, until the commit.
LastProduct(r) == ProductOf[plan[r][done[r]].batch]

UpdateCost(r) ==
  /\ pc[r] = "pricing"
  /\ Acquire(r, LastProduct(r))
  /\ Goto(r, IF done[r] < Len(plan[r]) THEN "resolving" ELSE "moving")
  /\ UNCHANGED <<tables, work, done, pending>>

\* The last writes of each operation, and its commit.
Commit(r) ==
  /\ pc[r] = "moving"
  /\ done[r] = Len(plan[r])
  /\ ledger' = ledger \cup pending[r]
  /\ batches' = batches \cup {b \in Batch : holder[b] = r}
  /\ sales' =
       CASE job[r].kind = "sale" ->
              [sales EXCEPT ![r] =
                 [status |-> "COMPLETED", number |-> number[r],
                  allocations |-> [i \in DOMAIN plan[r] |->
                                     Move(plan[r][i].batch, -plan[r][i].quantity)]]]
         [] job[r].kind = "void" -> [sales EXCEPT ![job[r].sale].status = "VOID"]
         [] OTHER -> sales
  /\ purchases' = IF job[r].kind = "receive"
                  THEN [purchases EXCEPT ![job[r].purchase] = "RECEIVED"]
                  ELSE purchases
  /\ cost' = [p \in Product |-> IF holder[p] = r THEN Document(r) ELSE cost[p]]
  /\ End(r, "done")
  /\ UNCHANGED <<work, done>>

--------------------------------------------------------------------------------
(***************************************************************************)
(* PostgreSQL's part: waiting, deadlock detection, rollback.               *)
(***************************************************************************)
WaitsFor(r) ==
  CASE pc[r] = "settings" -> {Settings}
    [] pc[r] = "locking" /\ ~AllLocked(r) -> {listed[r][locked[r] + 1]}
    [] pc[r] = "document" -> {Document(r)}
    [] pc[r] = "creating" -> {Planned(r).batch} \ batches
    [] pc[r] = "pricing" -> {LastProduct(r)}
    [] pc[r] = "moving" /\ done[r] < Len(plan[r]) -> {Planned(r).batch}
    [] OTHER -> {}

\* The others that hold the row it waits for.
BlockedBy(r) == {holder[x] : x \in WaitsFor(r) \cap Resources} \ {Free, r}

\* A set of requests each of which waits for another of them.
Deadlocked(S) ==
  /\ \A r \in S : BlockedBy(r) \cap S # {}
  /\ \A r \in S : \E q \in S : r \in BlockedBy(q)

DeadlockVictim(r) ==
  /\ \E S \in SUBSET Request : r \in S /\ Deadlocked(S)
  /\ Abandon(r, "failed")

\* Any other exception, a lost connection, a killed worker.
Rollback(r) ==
  /\ pc[r] \notin Answered \cup {"new"}
  /\ Abandon(r, "failed")

Arrive(r) == RequestSale(r) \/ RequestVoid(r) \/ RequestStock(r)

Serve(r) ==
  \/ LockSettings(r) \/ ReadNumber(r) \/ LockNextBatch(r) \/ AllocateLine(r)
  \/ RefuseShortage(r) \/ StartMoving(r)
  \/ LockSale(r)
  \/ LockPurchase(r) \/ ResolveBatch(r) \/ CreateBatch(r)
  \/ RecordMovement(r) \/ UpdateCost(r) \/ Commit(r)

Next == \E r \in Request :
          Arrive(r) \/ Serve(r) \/ DeadlockVictim(r) \/ Rollback(r)

Spec == Init /\ [][Next]_vars

(***************************************************************************)
(* A worker goes on with a transaction it has begun, and PostgreSQL breaks *)
(* a deadlock it finds.  Requests need not arrive, or fail.                *)
(***************************************************************************)
FairSpec == Spec /\ \A r \in Request : WF_vars(Serve(r) \/ DeadlockVictim(r))

--------------------------------------------------------------------------------
(***************************************************************************)
(* Correctness.                                                            *)
(***************************************************************************)
Types == {"PURCHASE", "SALE", "ADJUSTMENT", "DAMAGE", "EXPIRY", "RETURN"}

\* Every variable keeps its type.
TypeOK ==
  /\ \A row \in ledger \cup UNION {pending[r] : r \in Request} :
       /\ row.type \in Types /\ row.batch \in Batch /\ row.quantity \in Int
  /\ batches \subseteq Batch
  /\ \A r \in Request :
       /\ sales[r].status \in {"ABSENT", "COMPLETED", "VOID"}
       /\ sales[r].number \in Nat /\ number[r] \in Nat
       /\ done[r] \in 0..Len(plan[r])
  /\ purchases \in [Purchase -> {"DRAFT", "RECEIVED"}]
  /\ cost \in [Product -> Purchase \cup {Opening}]
  /\ holder \in [Resources -> Request \cup {Free}]
  /\ pc \in [Request -> {"new", "settings", "numbering", "locking", "document",
                         "resolving", "creating", "moving", "pricing"} \cup Answered]

(***************************************************************************)
(* Stock leaves and enters only with a document, once: a recorded sale has *)
(* taken exactly the units of its cart, from the batches its allocations   *)
(* name, a void has returned exactly those, a purchase has put its lines   *)
(* on the shelf if and only if it is received, no other row names a sale   *)
(* or a purchase, and a product that was ever received has the cost of a   *)
(* purchase that was.                                                      *)
(***************************************************************************)
Rows(type, doc) == {row \in ledger : row.type = type /\ row.doc = doc}

Moves(rows, sign) == {Move(row.batch, sign * row.quantity) : row \in rows}

SaleMatchesLedger(r) ==
  LET s    == sales[r]
      out  == Rows("SALE", r)
      back == Rows("RETURN", r)
  IN  /\ Moves(out, -1) = ToSet(s.allocations)
      /\ Cardinality(out) = Len(s.allocations)
      /\ Moves(back, 1) = IF s.status = "VOID" THEN ToSet(s.allocations) ELSE {}
      /\ Cardinality(back) = IF s.status = "VOID" THEN Len(s.allocations) ELSE 0
      /\ s.status # "ABSENT" =>
           \A i \in DOMAIN job[r].cart :
             Units({row \in out : ProductOf[row.batch] = job[r].cart[i].product})
               = -job[r].cart[i].quantity

LedgerMatchesDocuments ==
  /\ \A r \in Request : SaleMatchesLedger(r)
  /\ \A p \in Purchase :
       LET rows == Rows("PURCHASE", p) IN
       IF purchases[p] = "RECEIVED"
       THEN /\ Moves(rows, 1) = ToSet(PurchaseLines[p])
            /\ Cardinality(rows) = Len(PurchaseLines[p])
       ELSE rows = {}
  /\ \A p \in Product :
       LET from == {q \in Purchase : /\ purchases[q] = "RECEIVED"
                                     /\ \E i \in DOMAIN PurchaseLines[q] :
                                          ProductOf[PurchaseLines[q][i].batch] = p}
       IN  IF from = {} THEN cost[p] = Opening ELSE cost[p] \in from

(***************************************************************************)
(* "Any failure rolls back every row and stock movement written here": a   *)
(* request that did not succeed, or not yet, has left no row and no batch, *)
(* and none that is answered a lock.  Whoever creates a batch moves stock  *)
(* into it in the same transaction, so each batch but those of the opening *)
(* has a row of a request that succeeded, and each row has its batch.      *)
(***************************************************************************)
AllOrNothing ==
  /\ \A r \in Request : pc[r] \in Answered => \A x \in Resources : holder[x] # r
  /\ \A row \in ledger :
       row.batch \in batches /\ (row.by = Opening \/ pc[row.by] = "done")
  /\ \A b \in batches \ DOMAIN OpeningStock :
       \E row \in ledger : row.batch = b /\ row.by # Opening /\ row.quantity > 0

(***************************************************************************)
(* Receipt numbers are 1, 2, 3, ...: "sequential per business", with no    *)
(* number used twice and none lost to a sale that failed.                  *)
(***************************************************************************)
Recorded == {r \in Request : sales[r].status # "ABSENT"}

ReceiptsAreSequential ==
  {sales[r].number : r \in Recorded} = 1..Cardinality(Recorded)

(***************************************************************************)
(* "In a fixed order so two concurrent sales can't deadlock": no cycle of  *)
(* waiting requests is made of sales alone, even when a batch appears      *)
(* between a sale's locking query and its allocation.                      *)
(***************************************************************************)
Selling == {r \in Request : job[r].kind = "sale"}

SalesNeverDeadlock == \A S \in (SUBSET Selling) \ {{}} : ~Deadlocked(S)

(***************************************************************************)
(* FEFO, when the sale commits: it has taken nothing from an expired batch *)
(* and has emptied every earlier-expiring batch of the product that its    *)
(* locking query found before it went on to a later one.                   *)
(***************************************************************************)
CommitsSale(r) == pc[r] = "moving" /\ pc'[r] = "done" /\ job[r].kind = "sale"

FirstExpiryFirst ==
  \A r \in Request : CommitsSale(r) =>
    \A i \in DOMAIN plan[r] :
      LET b == plan[r][i].batch IN
      /\ b \notin Expired
      /\ \A c \in ToSet(listed[r]) \ Expired :
           ProductOf[c] = ProductOf[b] /\ FefoRank[c] < FefoRank[b]
             => OnHand(ledger', c) = 0

SalesFollowFefo == [][FirstExpiryFirst]_vars

(***************************************************************************)
(* All these transactions together implement the abstract stock book: the  *)
(* ledger only grows, and no batch is ever below zero.                     *)
(***************************************************************************)
Book == INSTANCE StockBook WITH
  added   <- [b \in Batch |->
                Units({row \in ledger : row.batch = b /\ row.quantity > 0})],
  removed <- [b \in Batch |->
                -Units({row \in ledger : row.batch = b /\ row.quantity < 0})]
BookSpec == Book!Spec

(***************************************************************************)
(* Every request that has begun is answered: whatever locks it meets, none *)
(* waits for ever.                                                         *)
(***************************************************************************)
EveryRequestAnswered ==
  \A r \in Request : pc[r] \notin Answered \cup {"new"} ~> pc[r] \in Answered

(***************************************************************************)
(* "A shortage is a 400 naming the product, and nothing is written": no    *)
(* request ends on an InsufficientStock nobody handles.                    *)
(***************************************************************************)
ShortageIsRefused == \A r \in Request : pc[r] # "insufficient"
================================================================================
