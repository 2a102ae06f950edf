---------------------------------- MODULE Till ----------------------------------
(***************************************************************************)
(* The point of sale (pages/pos.tsx, lib/money.ts): a cart of products as  *)
(* they were listed when they were added, amounts as they were typed, and  *)
(* the sale the server makes of it at its own prices and stock.  The cart  *)
(* stays open to changes while a sale is being completed.  Amounts are in  *)
(* cents; only what toCents() makes of a typed amount matters.  The user   *)
(* does not leave the page while a request is under way.                   *)
(***************************************************************************)
EXTENDS Integers, FiniteSets, Functions

CONSTANTS Product,
          InStock,    \* what is in stock of each product,
          Price,      \* its price,
          NewPrice,   \* and the price a colleague may give it
          Cash,       \* amounts the user types for the cash received
          MaxEdits,   \* bound: changes of the cart
          MaxOthers,  \* bound: changes of stock and prices by others
          NoLine, NoTicket

\* toCents(): null for what is not an amount; blank is 0.
Null  == -1
Cents == Nat \cup {Null}
OrZero(cents) == IF cents = Null THEN 0 ELSE cents

Listing == [stock : Nat, price : Nat]
Line    == [stock : Nat, price : Nat, quantity : Nat \ {0}, discount : Cents]

ASSUME TillAssumption ==
  /\ InStock \in [Product -> Nat] /\ Cash \subseteq Nat
  /\ Price \in [Product -> Nat] /\ NewPrice \in [Product -> Nat]
  /\ MaxEdits \in Nat /\ MaxOthers \in Nat
  /\ NoLine \notin Line

VARIABLES
  shelf,     \* each product on the server: [stock, price]
  listed,    \* each product as the picker shows it
  cart,      \* each product's line, or NoLine
  received,  \* "cash received", as typed
  customer,  \* CustomerPicker: none, existing, new with or without a name
  ticket,    \* the request under way, with what was on the screen when it was made
  till,      \* what the page does: open, submitting, refreshing, left
  sales,     \* the sales on record
  lost,      \* answers that were lost
  edits, others

tilling == <<shelf, listed, cart, received, customer, ticket, till, sales, lost, edits, others>>

Lines(c)      == {p \in Product : c[p] # NoLine}
Gross(c, p)   == c[p].price * c[p].quantity
BadLine(c, p) == c[p].discount = Null \/ c[p].discount > Gross(c, p)

\* Mutant: discounts are left out.
CartTotalUndiscounted(c) == SumFunction([p \in Lines(c) |-> Gross(c, p)])

\* cartTotals() and tender()
CartTotal(c) ==
  SumFunction([p \in Lines(c) |-> Gross(c, p) - IF BadLine(c, p) THEN 0 ELSE c[p].discount])
Tender(total, cash) ==
  LET paid == IF cash < total THEN cash ELSE total
  IN  [total |-> total, paid |-> paid, change |-> cash - paid, balance |-> total - paid]

HasCustomer == customer \in {"existing", "new"}
Tendered    == Tender(CartTotal(cart), OrZero(received))
Blocked ==
  \/ Lines(cart) = {} \/ received = Null
  \/ \E p \in Lines(cart) : BadLine(cart, p)
  \/ Tendered.balance > 0 /\ ~HasCustomer
  \/ till # "open"

TillInit ==
  /\ shelf = [p \in Product |-> [stock |-> InStock[p], price |-> Price[p]]]
  /\ listed = shelf
  /\ cart = [p \in Product |-> NoLine]
  /\ received = 0 /\ customer = "none"
  /\ ticket = NoTicket /\ till = "open" /\ sales = {} /\ lost = 0
  /\ edits = 0 /\ others = 0

-----------------------------------------------------------------------------
\* The cart can be changed at any time before the page is left.
Edit(c, r, who) ==
  /\ till # "left" /\ edits < MaxEdits
  /\ edits' = edits + 1
  /\ cart' = c /\ received' = r /\ customer' = who
  /\ UNCHANGED <<shelf, listed, ticket, till, sales, lost, others>>

\* add(): a product already in the cart keeps what was known of it.
Add(p) ==
  LET inCart == IF cart[p] = NoLine THEN 0 ELSE cart[p].quantity IN
  /\ listed[p].stock - inCart > 0
  /\ Edit([cart EXCEPT ![p] =
             IF @ = NoLine
             THEN [stock |-> listed[p].stock, price |-> listed[p].price, quantity |-> 1, discount |-> 0]
             ELSE [@ EXCEPT !.quantity = inCart + 1]],
          received, customer)

\* Mutant: a quantity of none.
UpdateToNone(p) ==
  /\ cart[p] # NoLine
  /\ \E n \in 0 .. cart[p].stock : Edit([cart EXCEPT ![p].quantity = n], received, customer)

\* One more, one fewer, a number, a discount; remove().
Update(p) ==
  /\ cart[p] # NoLine
  /\ \/ \E n \in (1 .. cart[p].stock) \cup {cart[p].quantity - 1} :
          n >= 1 /\ n # cart[p].quantity /\ Edit([cart EXCEPT ![p].quantity = n], received, customer)
     \/ \E d \in {1, Price[p], Null} : Edit([cart EXCEPT ![p].discount = d], received, customer)
     \/ Edit([cart EXCEPT ![p] = NoLine], received, customer)

\* The cash handed over: typed, or "exact cash"; the customer.
Receive ==
  \E r \in Cash \cup {Null} \cup (IF Lines(cart) = {} THEN {} ELSE {0, CartTotal(cart)}) :
    r # received /\ Edit(cart, r, customer)
ChooseCustomer ==
  \E who \in {"none", "existing", "new", "nameless"} \ {customer} : Edit(cart, received, who)

\* Another till sells one, or a product gets another price; the picker hears
\* of it when it is asked again.
Elsewhere(p) ==
  /\ others < MaxOthers /\ others' = others + 1
  /\ \/ shelf[p].stock > 0 /\ shelf' = [shelf EXCEPT ![p].stock = @ - 1]
     \/ shelf[p].price # NewPrice[p] /\ shelf' = [shelf EXCEPT ![p].price = NewPrice[p]]
  /\ UNCHANGED <<listed, cart, received, customer, ticket, till, sales, lost, edits>>
Relist ==
  /\ till # "left" /\ listed # shelf /\ listed' = shelf
  /\ UNCHANGED <<shelf, cart, received, customer, ticket, till, sales, lost, edits, others>>

-----------------------------------------------------------------------------
\* submit(): the request is made up of the cart as it is now.
Item(p) == [product |-> p, quantity |-> cart[p].quantity, discount |-> cart[p].discount]
Complete ==
  /\ ~Blocked
  /\ till' = "submitting"
  /\ ticket' = [items |-> {Item(p) : p \in Lines(cart)}, received |-> received, named |-> HasCustomer,
                priced |-> [p \in Lines(cart) |-> cart[p].price], shown |-> Tendered]
  /\ UNCHANGED <<shelf, listed, cart, received, customer, sales, lost, edits, others>>

\* create_sale(), as far as the till can tell.
ServerTotal ==
  SumFunction([i \in ticket.items |-> shelf[i.product].price * i.quantity - i.discount])
Acceptable ==
  /\ \A i \in ticket.items : /\ i.quantity <= shelf[i.product].stock
                             /\ i.discount <= shelf[i.product].price * i.quantity
  /\ Tender(ServerTotal, ticket.received).balance = 0 \/ ticket.named
Sold(p) == IF \E i \in ticket.items : i.product = p
           THEN (CHOOSE i \in ticket.items : i.product = p).quantity ELSE 0
Record ==
  /\ till = "submitting" /\ Acceptable
  /\ till' = "recorded"
  /\ shelf' = [p \in Product |-> [shelf[p] EXCEPT !.stock = @ - Sold(p)]]
  /\ sales' = sales \cup
       {[number |-> Cardinality(sales) + 1, of |-> ticket, at |-> [p \in Product |-> shelf[p].price],
         cash |-> Tender(ServerTotal, ticket.received)]}
  /\ UNCHANGED <<listed, cart, received, customer, ticket, lost, edits, others>>

\* Mutant: an error leaves the page busy with the request that failed.
RejectStillBusy ==
  /\ till = "submitting"
  /\ UNCHANGED tilling

\* It is refused or lost, or its answer is: the page shows the error, and the
\* cart is there to be completed again.
Reject ==
  /\ till \in {"submitting", "recorded"}
  /\ till' = "open" /\ ticket' = NoTicket
  /\ lost' = lost + IF till = "recorded" THEN 1 ELSE 0
  /\ UNCHANGED <<shelf, listed, cart, received, customer, sales, edits, others>>

\* The answer: everything the sale touched is asked again, and then the page
\* is left for the receipt.
Answered ==
  /\ till = "recorded" /\ till' = "refreshing"
  /\ UNCHANGED <<shelf, listed, cart, received, customer, ticket, sales, lost, edits, others>>
Leave ==
  /\ till = "refreshing" /\ till' = "left"
  /\ listed' = shelf /\ cart' = [p \in Product |-> NoLine]
  /\ received' = 0 /\ customer' = "none" /\ ticket' = NoTicket
  /\ UNCHANGED <<shelf, sales, lost, edits, others>>

SaleStep == Record \/ Reject \/ Answered \/ Leave
TillNext ==
  \/ \E p \in Product : Add(p) \/ Update(p) \/ Elsewhere(p)
  \/ Receive \/ ChooseCustomer \/ Relist \/ Complete \/ SaleStep

-----------------------------------------------------------------------------
\* Every variable has its type.
TillTypeOK ==
  /\ shelf \in [Product -> Listing] /\ listed \in [Product -> Listing]
  /\ cart \in [Product -> Line \cup {NoLine}]
  /\ received \in Cents /\ lost \in Nat
  /\ customer \in {"none", "existing", "new", "nameless"}
  /\ till \in {"open", "submitting", "recorded", "refreshing", "left"}

\* What is recorded is what was on the screen when the sale was completed,
\* however the cart was changed since: total, cash taken, change and debt, save
\* where the server had another price by then; and a debt has a debtor.
SaleIsTheTicket ==
  \A sale \in sales :
    /\ (\A p \in DOMAIN sale.of.priced : sale.at[p] = sale.of.priced[p]) => sale.cash = sale.of.shown
    /\ sale.cash.balance > 0 => sale.of.named

\* One sale for a cart, and one more for each answer that was lost.
TillPostsOnce == Cardinality(sales) <= 1 + lost
==============================================================================
