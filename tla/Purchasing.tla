------------------------------ MODULE Purchasing -------------------------------
(***************************************************************************)
(* The life of a purchase (purchases.services): drafting, rewriting the    *)
(* draft, receiving it and cancelling it, by concurrent requests, together *)
(* with the other writer of the product rows that receiving updates, the   *)
(* product PATCH of catalog.views.                                         *)
(*                                                                         *)
(* Each service call is one transaction at READ COMMITTED: it locks the    *)
(* purchase (or, for a new one, the settings row), reads in statements of  *)
(* their own, and what it writes is seen by others when it commits.  The   *)
(* stock side of receiving is in module Shop; here `stocked` keeps which   *)
(* lines the movements were written for.                                   *)
(***************************************************************************)
EXTENDS Integers, Sequences, FiniteSets, FiniteSetsExt

CONSTANTS
  Purchase, Product, Request,
  Free, Nothing, \* nobody; no lines, no cost
  Cost,          \* cost prices
  Name,          \* values of a product's other columns
  Basket         \* lists of lines a user may enter

ASSUME BasketAssumption ==
  Basket \subseteq Seq([product : Product, cost : Cost]) \ {<<>>}
ASSUME FreeAssumption == Free \notin Request
ASSUME NothingAssumption == Nothing \notin Basket /\ Nothing \notin Cost

VARIABLES
  status, number, items, \* Purchase rows and their PurchaseItem rows
  stocked,               \* lines PURCHASE movements were written for
  audited,               \* PURCHASE_CANCEL rows in the audit log
  product,               \* Product rows
  intended,              \* history: the cost last set on purpose
  holder,                \* who holds each row lock
  pc, task,              \* each request: control state, and what it was asked
  next,                  \* the purchase number it has read
  lines, done,           \* the lines it is receiving, and how many it has priced
  priced,                \* the costs it has written, uncommitted
  loaded                 \* the product row a PATCH has loaded

rows == <<status, number, items, stocked, audited>>
mine == <<next, lines, done, priced, loaded>>
vars == <<rows, product, intended, holder, pc, task, mine>>

Settings  == "settings"      \* the business's BusinessSettings row
Resources == {Settings} \cup Purchase \cup Product
Answered  == {"committed", "refused", "failed"}

Rows == [cost : Cost, name : Name]

Tasks ==
  [kind : {"create"}, basket : Basket]
    \cup [kind : {"edit"}, purchase : Purchase, basket : Basket]
    \cup [kind : {"receive", "cancel"}, purchase : Purchase]
    \cup [kind : {"patch"}, product : Product, field : {"cost"}, value : Cost]
    \cup [kind : {"patch"}, product : Product, field : {"name"}, value : Name]

NoTask == [kind |-> "none"]

Init ==
  /\ status = [p \in Purchase |-> "ABSENT"]
  /\ number = [p \in Purchase |-> 0]
  /\ items = [p \in Purchase |-> Nothing]
  /\ stocked = [p \in Purchase |-> Nothing]
  /\ audited = [p \in Purchase |-> 0]
  /\ \E row \in Rows : product = [p \in Product |-> row]
  /\ intended = [p \in Product |-> product[p].cost]
  /\ holder = [x \in Resources |-> Free]
  /\ pc = [r \in Request |-> "new"]
  /\ task = [r \in Request |-> NoTask]
  /\ next = [r \in Request |-> 0]
  /\ lines = [r \in Request |-> <<>>]
  /\ done = [r \in Request |-> 0]
  /\ priced = [r \in Request |-> [p \in Product |-> Nothing]]
  /\ \E row \in Rows : loaded = [r \in Request |-> row]

--------------------------------------------------------------------------------
Goto(r, label) == pc' = [pc EXCEPT ![r] = label]

Acquire(r, x) ==
  /\ holder[x] \in {Free, r}
  /\ holder' = [holder EXCEPT ![x] = r]

End(r, answer) ==
  /\ holder' = [x \in Resources |-> IF holder[x] = r THEN Free ELSE holder[x]]
  /\ Goto(r, answer)

Abandon(r, answer) ==
  /\ End(r, answer)
  /\ UNCHANGED <<rows, product, intended, task, mine>>

Saved == {p \in Purchase : status[p] # "ABSENT"}

LastNumber == Max({0} \cup {number[p] : p \in Saved})

\* A request comes in; its view has found the purchase, unlocked.
Arrive(r) ==
  /\ pc[r] = "new"
  /\ \E t \in Tasks :
       /\ t.kind \in {"edit", "receive", "cancel"} => t.purchase \in Saved
       /\ task' = [task EXCEPT ![r] = t]
       /\ Goto(r, CASE t.kind = "create" -> "settings"
                    [] t.kind = "patch"  -> "loading"
                    [] OTHER             -> "locking")
  /\ UNCHANGED <<rows, product, intended, holder, mine>>

(***************************************************************************)
(* save_draft() of a new purchase.                                         *)
(***************************************************************************)

\* Mutant: the settings row is read without FOR UPDATE.
ReadSettings(r) ==
  /\ pc[r] = "settings"
  /\ Goto(r, "numbering")
  /\ UNCHANGED <<rows, product, intended, holder, task, mine>>

\* "Serialises purchase numbers per business: the settings row is the lock."
LockSettings(r) ==
  /\ pc[r] = "settings"
  /\ Acquire(r, Settings)
  /\ Goto(r, "numbering")
  /\ UNCHANGED <<rows, product, intended, task, mine>>

\* Mutant: the last number is used again.
ReadLastNumber(r) ==
  /\ pc[r] = "numbering"
  /\ next' = [next EXCEPT ![r] = LastNumber]
  /\ Goto(r, "drafting")
  /\ UNCHANGED <<rows, product, intended, holder, task, lines, done, priced, loaded>>

ReadNumber(r) ==
  /\ pc[r] = "numbering"
  /\ next' = [next EXCEPT ![r] = LastNumber + 1]
  /\ Goto(r, "drafting")
  /\ UNCHANGED <<rows, product, intended, holder, task, lines, done, priced, loaded>>

CommitDraft(r) ==
  /\ pc[r] = "drafting"
  /\ \E p \in Purchase \ Saved :
       /\ status' = [status EXCEPT ![p] = "DRAFT"]
       /\ number' = [number EXCEPT ![p] = next[r]]
       /\ items' = [items EXCEPT ![p] = task[r].basket]
  /\ End(r, "committed")
  /\ UNCHANGED <<stocked, audited, product, intended, task, mine>>

(***************************************************************************)
(* save_draft() of an existing purchase, receive_purchase() and            *)
(* cancel_purchase() lock it and only go on with a draft.                  *)
(***************************************************************************)

\* Mutant: the status is not looked at again under the lock.
LockAny(r) ==
  /\ pc[r] = "locking"
  /\ Acquire(r, task[r].purchase)
  /\ Goto(r, IF task[r].kind = "receive" THEN "reading" ELSE "writing")
  /\ UNCHANGED <<rows, product, intended, task, mine>>

\* Mutant: a plain SELECT, without FOR UPDATE.
LockNothing(r) ==
  /\ pc[r] = "locking"
  /\ status[task[r].purchase] = "DRAFT"
  /\ Goto(r, IF task[r].kind = "receive" THEN "reading" ELSE "writing")
  /\ UNCHANGED <<rows, product, intended, holder, task, mine>>

LockPurchase(r) ==
  /\ pc[r] = "locking"
  /\ LET p == task[r].purchase IN
       /\ holder[p] = Free
       /\ IF status[p] # "DRAFT"
          THEN Abandon(r, "refused")
          ELSE /\ Acquire(r, p)
               /\ Goto(r, IF task[r].kind = "receive" THEN "reading" ELSE "writing")
               /\ UNCHANGED <<rows, product, intended, task, mine>>

\* The old lines are deleted and the new ones inserted.
CommitEdit(r) ==
  /\ pc[r] = "writing"
  /\ task[r].kind = "edit"
  /\ items' = [items EXCEPT ![task[r].purchase] = task[r].basket]
  /\ End(r, "committed")
  /\ UNCHANGED <<status, number, stocked, audited, product, intended, task, mine>>

CommitCancel(r) ==
  /\ pc[r] = "writing"
  /\ task[r].kind = "cancel"
  /\ status' = [status EXCEPT ![task[r].purchase] = "CANCELLED"]
  /\ audited' = [audited EXCEPT ![task[r].purchase] = @ + 1]
  /\ End(r, "committed")
  /\ UNCHANGED <<number, items, stocked, product, intended, task, mine>>

ReadItems(r) ==
  /\ pc[r] = "reading"
  /\ lines' = [lines EXCEPT ![r] = items[task[r].purchase]]
  /\ Goto(r, "pricing")
  /\ UNCHANGED <<rows, product, intended, holder, task, next, done, priced, loaded>>

\* One line: its movement (module Shop), then the product row is written.
UpdateCost(r) ==
  /\ pc[r] = "pricing"
  /\ done[r] < Len(lines[r])
  /\ LET line == lines[r][done[r] + 1] IN
       /\ Acquire(r, line.product)
       /\ priced' = [priced EXCEPT ![r][line.product] = line.cost]
  /\ done' = [done EXCEPT ![r] = @ + 1]
  /\ UNCHANGED <<rows, product, intended, pc, task, next, lines, loaded>>

CommitReceive(r) ==
  /\ pc[r] = "pricing"
  /\ done[r] = Len(lines[r])
  /\ product' = [p \in Product |-> IF priced[r][p] = Nothing THEN product[p]
                                    ELSE [product[p] EXCEPT !.cost = priced[r][p]]]
  /\ intended' = [p \in Product |-> IF priced[r][p] = Nothing THEN intended[p]
                                     ELSE priced[r][p]]
  /\ status' = [status EXCEPT ![task[r].purchase] = "RECEIVED"]
  /\ stocked' = [stocked EXCEPT ![task[r].purchase] = lines[r]]
  /\ End(r, "committed")
  /\ UNCHANGED <<number, items, audited, task, mine>>

(***************************************************************************)
(* A product PATCH has no transaction: the row is loaded, the fields sent  *)
(* are set on it, and save() writes every column back, waiting only for a  *)
(* transaction that has written the row and not ended.                     *)
(***************************************************************************)
LoadProduct(r) ==
  /\ pc[r] = "loading"
  /\ loaded' = [loaded EXCEPT ![r] = product[task[r].product]]
  /\ Goto(r, "saving")
  /\ UNCHANGED <<rows, product, intended, holder, task, next, lines, done, priced>>

SaveProduct(r) ==
  /\ pc[r] = "saving"
  /\ LET t == task[r] IN
       /\ holder[t.product] = Free
       /\ product' = [product EXCEPT ![t.product] =
                        IF t.field = "cost" THEN [loaded[r] EXCEPT !.cost = t.value]
                                            ELSE [loaded[r] EXCEPT !.name = t.value]]
       /\ intended' = IF t.field = "cost"
                      THEN [intended EXCEPT ![t.product] = t.value]
                      ELSE intended
  /\ End(r, "committed")
  /\ UNCHANGED <<rows, task, mine>>

\* A validation error, a deadlock between receipts, a dead worker.
Rollback(r) ==
  /\ pc[r] \notin Answered \cup {"new"}
  /\ Abandon(r, "failed")

Next ==
  \E r \in Request :
    \/ Arrive(r)
    \/ LockSettings(r) \/ ReadNumber(r) \/ CommitDraft(r)
    \/ LockPurchase(r) \/ CommitEdit(r) \/ CommitCancel(r)
    \/ ReadItems(r) \/ UpdateCost(r) \/ CommitReceive(r)
    \/ LoadProduct(r) \/ SaveProduct(r)
    \/ Rollback(r)

Spec == Init /\ [][Next]_vars

--------------------------------------------------------------------------------
(***************************************************************************)
(* Correctness.                                                            *)
(***************************************************************************)

\* Every variable keeps its type.
TypeOK ==
  /\ status \in [Purchase -> {"ABSENT", "DRAFT", "RECEIVED", "CANCELLED"}]
  /\ number \in [Purchase -> Nat]
  /\ items \in [Purchase -> Basket \cup {Nothing}]
  /\ stocked \in [Purchase -> Basket \cup {Nothing}]
  /\ audited \in [Purchase -> Nat]
  /\ product \in [Product -> Rows]
  /\ intended \in [Product -> Cost]
  /\ holder \in [Resources -> Request \cup {Free}]
  /\ pc \in [Request -> {"new", "settings", "numbering", "drafting", "locking", "writing",
                         "reading", "pricing", "loading", "saving"} \cup Answered]
  /\ task \in [Request -> Tasks \cup {NoTask}]
  /\ next \in [Request -> Nat]
  /\ lines \in [Request -> Basket \cup {<<>>}]
  /\ done \in [Request -> Nat]
  /\ priced \in [Request -> [Product -> Cost \cup {Nothing}]]
  /\ loaded \in [Request -> Rows]

(***************************************************************************)
(* "A draft holds no stock" and a received purchase "is never edited": the *)
(* lines on record of a received purchase are exactly those stock was      *)
(* written for, even when it was being edited or cancelled as it was       *)
(* received, any other purchase has put nothing on the shelf, and exactly  *)
(* the cancelled ones are in the audit log, once.                          *)
(***************************************************************************)
ReceivedAsRecorded ==
  \A p \in Purchase :
    /\ stocked[p] = IF status[p] = "RECEIVED" THEN items[p] ELSE Nothing
    /\ audited[p] = IF status[p] = "CANCELLED" THEN 1 ELSE 0
    /\ (status[p] = "ABSENT") <=> (items[p] = Nothing)

(***************************************************************************)
(* Purchase numbers are 1, 2, 3, ...: none used twice, none lost to a      *)
(* draft that failed.                                                      *)
(***************************************************************************)
NumbersAreSequential == {number[p] : p \in Saved} = 1..Cardinality(Saved)

(***************************************************************************)
(* While a request receives a purchase, the lines it works from are those  *)
(* on record: nobody rewrites the draft under it.                          *)
(***************************************************************************)
LinesAreCurrent ==
  \A r \in Request : pc[r] = "pricing" =>
    /\ status[task[r].purchase] = "DRAFT"
    /\ lines[r] = items[task[r].purchase]

\* A draft is written only by the request that holds its row, with a task to.
LockDiscipline ==
  \A r \in Request :
    /\ pc[r] \in {"settings", "numbering", "drafting"} => task[r].kind = "create"
    /\ pc[r] \in {"loading", "saving"} => task[r].kind = "patch"
    /\ pc[r] \in {"locking", "writing", "reading", "pricing"} =>
         task[r].kind \in {"edit", "receive", "cancel"}
    /\ pc[r] \in {"writing", "reading", "pricing"} =>
         /\ holder[task[r].purchase] = r
         /\ status[task[r].purchase] = "DRAFT"

\* A number is taken only by the request that holds the settings row.
NumberIsNext ==
  /\ IsFiniteSet(Saved)
  /\ \A r \in Request :
       /\ pc[r] \in {"numbering", "drafting"} => holder[Settings] = r
       /\ pc[r] = "drafting" => next[r] = Cardinality(Saved) + 1

IInv ==
  /\ TypeOK
  /\ ReceivedAsRecorded
  /\ NumbersAreSequential
  /\ LinesAreCurrent
  /\ LockDiscipline
  /\ NumberIsNext

\* All these requests together implement the abstract purchase book.
Book == INSTANCE PurchaseBook
BookSpec == Book!Spec

(***************************************************************************)
(* "Latest cost wins: future sales snapshot what was last paid": a         *)
(* product's cost price is always the one last set on purpose, by a        *)
(* receipt or by a PATCH that named it.                                    *)
(***************************************************************************)
LatestCostWins == \A p \in Product : product[p].cost = intended[p]
================================================================================
