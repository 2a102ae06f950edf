------------------------------ MODULE StockLedger ------------------------------
(***************************************************************************)
(* inventory.services.record_movement(), called any number of times inside *)
(* the transactions of concurrent requests.                                *)
(*                                                                         *)
(* The database runs READ COMMITTED: a statement sees what is committed    *)
(* when it starts plus the rows its own transaction wrote.  A request      *)
(* therefore keeps the rows it has inserted apart (pendingIn, pendingOut)  *)
(* until it commits, and the row lock SELECT ... FOR UPDATE takes on a     *)
(* batch is held to the end of the transaction.  Every operation that      *)
(* moves stock (sale, void, purchase receipt, adjustment) is one such      *)
(* transaction; which batches it touches, in which order and by how much,  *)
(* is left open here and fixed in module Shop.                             *)
(***************************************************************************)
EXTENDS Integers

CONSTANTS Batch,     \* ProductBatch rows
          Request,   \* HTTP requests; each runs one transaction
          Free,      \* holder of a row nobody has locked
          Quantity,  \* signed quantities a movement may have
          MaxMoves   \* bound: movements in one transaction

ASSUME QuantityAssumption == Quantity \subseteq Int \ {0}
ASSUME FreeAssumption     == Free \notin Request
ASSUME MaxMovesAssumption == MaxMoves \in Nat

VARIABLES
  added, removed,         \* committed totals of each batch
  pendingIn, pendingOut,  \* the same totals over a request's uncommitted rows
  holder,                 \* which request holds the batch's row lock
  pc, moves,              \* control state; movements recorded so far
  batch, quantity,        \* arguments of the record_movement() call under way
  available               \* stock the availability check read

vars == <<added, removed, pendingIn, pendingOut, holder, pc, moves,
          batch, quantity, available>>

Book == INSTANCE StockBook

None == [b \in Batch |-> 0]

\* Mutant: the transaction does not see the rows it has written itself.
CommittedOnly(r, b) == Book!OnHand(b)

\* The stock of batch b a statement of request r computes.
Visible(r, b) == Book!OnHand(b) + pendingIn[r][b] - pendingOut[r][b]

Finished == {"new", "committed", "failed"}
InCall   == {"locking", "reading", "checking", "inserting"}

Init ==
  /\ added = None
  /\ removed = None
  /\ pendingIn = [r \in Request |-> None]
  /\ pendingOut = [r \in Request |-> None]
  /\ holder = [b \in Batch |-> Free]
  /\ pc = [r \in Request |-> "new"]
  /\ moves = [r \in Request |-> 0]
  /\ \E b \in Batch, q \in Quantity :
       /\ batch = [r \in Request |-> b]
       /\ quantity = [r \in Request |-> q]
  /\ available = [r \in Request |-> 0]

--------------------------------------------------------------------------------
(***************************************************************************)
(* record_movement(), statement by statement.                              *)
(***************************************************************************)

\* The request opens its transaction.
Begin(r) ==
  /\ pc[r] = "new"
  /\ pc' = [pc EXCEPT ![r] = "open"]
  /\ UNCHANGED <<added, removed, pendingIn, pendingOut, holder, moves, batch,
                 quantity, available>>

\* The service calls record_movement() for one batch and signed quantity.
Call(r, b, q) ==
  /\ pc[r] = "open"
  /\ moves[r] < MaxMoves
  /\ batch' = [batch EXCEPT ![r] = b]
  /\ quantity' = [quantity EXCEPT ![r] = q]
  /\ moves' = [moves EXCEPT ![r] = @ + 1]
  /\ pc' = [pc EXCEPT ![r] = "locking"]
  /\ UNCHANGED <<added, removed, pendingIn, pendingOut, holder, available>>

\* Mutant: a plain SELECT, without FOR UPDATE.
LockNothing(r) ==
  /\ pc[r] = "locking"
  /\ pc' = [pc EXCEPT ![r] = IF quantity[r] < 0 THEN "reading" ELSE "inserting"]
  /\ UNCHANGED <<added, removed, pendingIn, pendingOut, holder, moves, batch,
                 quantity, available>>

\* select_for_update(): waits until no other transaction holds the row.
Lock(r) ==
  /\ pc[r] = "locking"
  /\ holder[batch[r]] \in {Free, r}
  /\ holder' = [holder EXCEPT ![batch[r]] = r]
  /\ pc' = [pc EXCEPT ![r] = IF quantity[r] < 0 THEN "reading" ELSE "inserting"]
  /\ UNCHANGED <<added, removed, pendingIn, pendingOut, moves, batch, quantity,
                 available>>

\* The derived stock is read by a statement of its own, after the lock.
Read(r) ==
  /\ pc[r] = "reading"
  /\ available' = [available EXCEPT ![r] = Visible(r, batch[r])]
  /\ pc' = [pc EXCEPT ![r] = "checking"]
  /\ UNCHANGED <<added, removed, pendingIn, pendingOut, holder, moves, batch,
                 quantity>>

\* Dropping the transaction: its rows vanish and its locks are released.
Undo(r) ==
  /\ pendingIn' = [pendingIn EXCEPT ![r] = None]
  /\ pendingOut' = [pendingOut EXCEPT ![r] = None]
  /\ holder' = [b \in Batch |-> IF holder[b] = r THEN Free ELSE holder[b]]
  /\ pc' = [pc EXCEPT ![r] = "failed"]
  /\ UNCHANGED <<added, removed, moves, batch, quantity, available>>

\* InsufficientStock leaves every caller's atomic block.
Refuse(r) ==
  /\ pc[r] = "checking"
  /\ available[r] + quantity[r] < 0
  /\ Undo(r)

\* Mutant: the check compares with the batch's last unit, not with zero.
InsertOneTooMany(r) ==
  /\ pc[r] = "checking"
  /\ available[r] + quantity[r] >= -1
  /\ pendingOut' = [pendingOut EXCEPT ![r][batch[r]] = @ - quantity[r]]
  /\ pc' = [pc EXCEPT ![r] = "open"]
  /\ UNCHANGED <<added, removed, pendingIn, holder, moves, batch, quantity, available>>

\* Mutant: stock taken out is recorded with the sign of stock put in.
InsertUnsigned(r) ==
  /\ pc[r] \in {"inserting", "checking"}
  /\ pendingIn' = [pendingIn EXCEPT ![r][batch[r]] = @ + quantity[r]]
  /\ pc' = [pc EXCEPT ![r] = "open"]
  /\ UNCHANGED <<added, removed, pendingOut, holder, moves, batch, quantity, available>>

\* StockMovement.objects.create()
Insert(r) ==
  /\ \/ pc[r] = "inserting"
     \/ pc[r] = "checking" /\ available[r] + quantity[r] >= 0
  /\ IF quantity[r] > 0
     THEN /\ pendingIn' = [pendingIn EXCEPT ![r][batch[r]] = @ + quantity[r]]
          /\ UNCHANGED pendingOut
     ELSE /\ pendingOut' = [pendingOut EXCEPT ![r][batch[r]] = @ - quantity[r]]
          /\ UNCHANGED pendingIn
  /\ pc' = [pc EXCEPT ![r] = "open"]
  /\ UNCHANGED <<added, removed, holder, moves, batch, quantity, available>>

Commit(r) ==
  /\ pc[r] = "open"
  /\ added' = [b \in Batch |-> added[b] + pendingIn[r][b]]
  /\ removed' = [b \in Batch |-> removed[b] + pendingOut[r][b]]
  /\ pendingIn' = [pendingIn EXCEPT ![r] = None]
  /\ pendingOut' = [pendingOut EXCEPT ![r] = None]
  /\ holder' = [b \in Batch |-> IF holder[b] = r THEN Free ELSE holder[b]]
  /\ pc' = [pc EXCEPT ![r] = "committed"]
  /\ UNCHANGED <<moves, batch, quantity, available>>

(***************************************************************************)
(* Everything else that ends a transaction early: a validation error of    *)
(* the caller, a broken constraint, being chosen as a deadlock victim, the *)
(* worker or its connection dying.                                         *)
(***************************************************************************)
Rollback(r) ==
  /\ pc[r] \notin Finished
  /\ Undo(r)

Next ==
  \E r \in Request :
    \/ Begin(r)
    \/ \E b \in Batch, q \in Quantity : Call(r, b, q)
    \/ Lock(r)
    \/ Read(r)
    \/ Refuse(r)
    \/ Insert(r)
    \/ Commit(r)
    \/ Rollback(r)

Spec == Init /\ [][Next]_vars

--------------------------------------------------------------------------------
(***************************************************************************)
(* Correctness.                                                            *)
(***************************************************************************)

\* Every variable keeps its type.
TypeOK ==
  /\ added \in [Batch -> Nat]
  /\ removed \in [Batch -> Nat]
  /\ pendingIn \in [Request -> [Batch -> Nat]]
  /\ pendingOut \in [Request -> [Batch -> Nat]]
  /\ holder \in [Batch -> Request \cup {Free}]
  /\ pc \in [Request -> {"open"} \cup Finished \cup InCall]
  /\ moves \in [Request -> Nat]
  /\ batch \in [Request -> Batch]
  /\ quantity \in [Request -> Quantity]
  /\ available \in [Request -> Int]

(***************************************************************************)
(* "Refuses to take a batch below zero" (record_movement): neither what is *)
(* committed, nor what any open transaction sees in a batch it has         *)
(* written to, is ever negative, however the requests interleave and       *)
(* however many movements each makes on the same batch.                    *)
(***************************************************************************)
StockNonNegative ==
  /\ \A b \in Batch : Book!OnHand(b) >= 0
  /\ \A r \in Request, b \in Batch : Visible(r, b) >= 0

(***************************************************************************)
(* "Lock the batch so concurrent movements on it are applied one at a      *)
(* time": uncommitted rows on a batch belong to the one request that holds *)
(* its lock.                                                               *)
(***************************************************************************)
OneWriterPerBatch ==
  \A r \in Request, b \in Batch :
    pendingIn[r][b] + pendingOut[r][b] > 0 => holder[b] = r

(***************************************************************************)
(* The figure the check compares is still the batch's stock when the row   *)
(* is inserted: record_movement() never acts on a stale sum.               *)
(***************************************************************************)
CheckIsCurrent ==
  \A r \in Request :
    pc[r] = "checking" => available[r] = Visible(r, batch[r])

\* A request that is over, or not begun, holds no lock and has no rows left.
NothingLeftBehind ==
  \A r \in Request : pc[r] \in Finished =>
    /\ pendingIn[r] = None
    /\ pendingOut[r] = None
    /\ \A b \in Batch : holder[b] # r

\* From the lock statement to the insert, the call holds its batch.
CallHoldsBatch ==
  \A r \in Request : pc[r] \in InCall \ {"locking"} => holder[batch[r]] = r

\* Only a movement that adds stock is inserted without the check.
UncheckedAdds == \A r \in Request : pc[r] = "inserting" => quantity[r] > 0

\* The inductive invariant the proofs use.
IInv ==
  /\ TypeOK
  /\ NothingLeftBehind
  /\ OneWriterPerBatch
  /\ CallHoldsBatch
  /\ UncheckedAdds
  /\ CheckIsCurrent
  /\ StockNonNegative

\* The detailed ledger implements the abstract one.
BookSpec == Book!Spec
================================================================================
