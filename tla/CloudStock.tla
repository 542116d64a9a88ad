------------------------------ MODULE CloudStock ------------------------------
(***************************************************************************)
(* Stock and orders in the cloud API (backend/main.py).                    *)
(*                                                                         *)
(* Every HTTP request runs in one database transaction (backend/           *)
(* database.py, get_db): its reads are separate statements, each of which  *)
(* sees what is committed when it runs (READ COMMITTED); its writes take   *)
(* row locks, are invisible to others until the commit, and disappear on   *)
(* any exception.  A stock write is the version-guarded UPDATE of          *)
(* _change_stock.                                                          *)
(*                                                                         *)
(* A request of this model serves one HTTP call and is never reused, so    *)
(* the number of requests bounds versions and stock.                       *)
(***************************************************************************)
EXTENDS Integers

CONSTANTS
    Product,   \* product rows of one business
    Order,     \* order rows of the business
    Request,   \* HTTP requests, each served once
    MaxStock,  \* largest opening stock of a product
    MaxQty     \* largest quantity of an order line or an adjustment

ASSUME BoundsAssumption == MaxStock \in Nat /\ MaxQty \in Nat \ {0}

\* An adjustment works on no order.
ASSUME OrderAssumption == "none" \notin Order

VARIABLES
    product,   \* committed product rows: state, current_stock, version
    order,     \* committed order rows: status, lines, deleted_at
    ledger,    \* per product, the sum of the committed stock_movements
    booked,    \* per order and product, the sum of its committed movements
    step,      \* of each request: new, running, committed or failed
    call,      \* of each request: the handler, its order, status and changes
    seen,      \* of each request: the product rows as it read them
    unread,    \* of each request: products it has still to read
    unwritten, \* of each request: products it has still to update
    staged     \* of each request: products updated but not committed

rows == <<product, order, ledger, booked>>
work == <<step, call, seen, unread, unwritten, staged>>
vars == <<rows, work>>

-------------------------------------------------------------------------------
(* Rows, transitions and requests *)

Status == {"pending", "confirmed", "shipped", "delivered", "cancelled"}

ALLOWED_ORDER_TRANSITIONS ==
    [pending   |-> {"confirmed", "cancelled"},
     confirmed |-> {"shipped", "cancelled"},
     shipped   |-> {"delivered"},
     delivered |-> {},
     cancelled |-> {}]

NoLines == [p \in Product |-> 0]

\* OrderCreate: at least one line, each of at least one unit, one per product.
OrderLines == {f \in [Product -> 0..MaxQty] : \E p \in Product : f[p] > 0}

LinesOf(f) == {p \in Product : f[p] # 0}

Row == [state: {"absent", "live", "deleted"}, stock: Nat, version: Nat]

Snapshot == [stock: Nat, version: Nat]

Running(r) == step[r] = "running"

\* The row lock an uncommitted UPDATE of a product holds until its request ends.
LockedBy(q, p) == Running(q) /\ p \in staged[q]

Locked(p) == \E q \in Request : LockedBy(q, p)

\* The columns _change_stock relies on, as a SELECT of the row returns them.
Read(p) == [stock |-> product[p].stock, version |-> product[p].version]

Init ==
    /\ product = [p \in Product |-> [state |-> "absent", stock |-> 0, version |-> 0]]
    /\ order = [o \in Order |->
                  [status |-> "absent", lines |-> NoLines, deleted |-> FALSE]]
    /\ ledger = [p \in Product |-> 0]
    /\ booked = [o \in Order |-> NoLines]
    /\ step = [r \in Request |-> "new"]
    /\ call = [r \in Request |-> [op |-> "none", order |-> "none",
                                  status |-> "pending", change |-> NoLines]]
    /\ seen = [r \in Request |-> [p \in Product |-> [stock |-> 0, version |-> 0]]]
    /\ unread = [r \in Request |-> {}]
    /\ unwritten = [r \in Request |-> {}]
    /\ staged = [r \in Request |-> {}]

-------------------------------------------------------------------------------
(* Products: creation with the opening movement, and soft deletion.  Neither *)
(* reads a row it later writes, so each is one step.                         *)

CreateProduct(p, s) ==
    /\ product[p].state = "absent"
    /\ product' = [product EXCEPT ![p] = [state |-> "live", stock |-> s, version |-> 1]]
    /\ ledger' = [ledger EXCEPT ![p] = @ + s]
    /\ UNCHANGED <<order, booked, work>>

DeleteProduct(p) ==
    /\ product[p].state = "live"
    /\ ~Locked(p)
    /\ product' = [product EXCEPT ![p].state = "deleted"]
    /\ UNCHANGED <<order, ledger, booked, work>>

-------------------------------------------------------------------------------
(* The read phase of the handlers *)

Start(r, op, o, s, change) ==
    /\ step[r] = "new"
    /\ step' = [step EXCEPT ![r] = "running"]
    /\ call' = [call EXCEPT ![r] =
                  [op |-> op, order |-> o, status |-> s, change |-> change]]
    /\ unwritten' = [unwritten EXCEPT ![r] = LinesOf(change)]
    /\ UNCHANGED <<rows, staged>>

\* adjust_stock: get_product, which must find a live row.
BeginAdjust(r, p, d) ==
    /\ product[p].state = "live"
    /\ Start(r, "adjust", "none", "pending", [NoLines EXCEPT ![p] = d])
    /\ seen' = [seen EXCEPT ![r] = [@ EXCEPT ![p] = Read(p)]]
    /\ UNCHANGED unread

\* create_order: the body names its lines and may name a status.  The new
\* row's id belongs to this request alone.
BeginCreateOrder(r, o, lines, s) ==
    /\ order[o].status = "absent"
    /\ \A q \in Request : Running(q) => call[q].order # o
    /\ Start(r, "create", o, s, [p \in Product |-> -lines[p]])
    /\ unread' = [unread EXCEPT ![r] = LinesOf(lines)]
    /\ UNCHANGED seen

\* One SELECT per line, which checks the row is live and holds enough units.
ReadLine(r, p) ==
    /\ Running(r) /\ call[r].op = "create"
    /\ p \in unread[r]
    /\ product[p].state = "live"
    /\ product[p].stock + call[r].change[p] >= 0
    /\ seen' = [seen EXCEPT ![r] = [@ EXCEPT ![p] = Read(p)]]
    /\ unread' = [unread EXCEPT ![r] = @ \ {p}]
    /\ UNCHANGED <<rows, step, call, unwritten, staged>>

\* _load_order, first statement: the order row, which must not be deleted.
\* `back` holds the lines the handler goes on to put back into stock.
LoadOrder(r, o, op, s, back) ==
    /\ order[o].status # "absent" /\ ~order[o].deleted
    /\ Start(r, op, o, s, back)
    /\ unread' = [unread EXCEPT ![r] = LinesOf(back)]
    /\ UNCHANGED seen

BeginStatus(r, o, s) ==
    /\ order[o].status \in Status
    /\ s \in ALLOWED_ORDER_TRANSITIONS[order[o].status]
    /\ LoadOrder(r, o, "status", s,
                 IF s = "cancelled" THEN order[o].lines ELSE NoLines)

BeginDeleteOrder(r, o) ==
    LoadOrder(r, o, "delete", "pending",
              IF order[o].status = "cancelled" THEN NoLines ELSE order[o].lines)

\* _load_order, a later statement: selectinload fetches every product of the
\* order at once, deleted ones included.
LoadLines(r) ==
    /\ Running(r) /\ call[r].op \in {"status", "delete"}
    /\ unread[r] # {}
    /\ seen' = [seen EXCEPT ![r] =
                  [p \in Product |-> IF p \in unread[r] THEN Read(p) ELSE @[p]]]
    /\ unread' = [unread EXCEPT ![r] = {}]
    /\ UNCHANGED <<rows, step, call, unwritten, staged>>

-------------------------------------------------------------------------------
(* The write phase *)

Writing(r, p) == Running(r) /\ unread[r] = {} /\ p \in unwritten[r]

\* Mutant: UPDATE ... WHERE id = :id alone.
Unguarded(r, p) == p \in unwritten[r] \cup staged[r]

\* UPDATE ... WHERE id = :id AND version = :seen waits for the row lock, then
\* evaluates its condition on the committed row.
VersionMatches(r, p) == product[p].version = seen[r][p].version

NewLevel(r, p) == seen[r][p].stock + call[r].change[p]

\* Mutant: the level is not checked before it is written.
UncheckedChange(r, p) ==
    /\ Writing(r, p)
    /\ ~Locked(p)
    /\ VersionMatches(r, p)
    /\ unwritten' = [unwritten EXCEPT ![r] = @ \ {p}]
    /\ staged' = [staged EXCEPT ![r] = @ \cup {p}]
    /\ UNCHANGED <<rows, step, call, seen, unread>>

_change_stock(r, p) ==
    /\ Writing(r, p)
    /\ NewLevel(r, p) >= 0
    /\ ~Locked(p)
    /\ VersionMatches(r, p)
    /\ unwritten' = [unwritten EXCEPT ![r] = @ \ {p}]
    /\ staged' = [staged EXCEPT ![r] = @ \cup {p}]
    /\ UNCHANGED <<rows, step, call, seen, unread>>

\* Mutant: a handler that leaves its loop over the lines early.
ReadyEarly(r, op) == Running(r) /\ call[r].op = op /\ unread[r] = {}

Ready(r, op) ==
    /\ Running(r) /\ call[r].op = op
    /\ unread[r] = {} /\ unwritten[r] = {}

Finish(r, how) ==
    /\ step' = [step EXCEPT ![r] = how]
    /\ unread' = [unread EXCEPT ![r] = {}]
    /\ unwritten' = [unwritten EXCEPT ![r] = {}]
    /\ staged' = [staged EXCEPT ![r] = {}]
    /\ UNCHANGED <<call, seen>>

\* The commit makes the request's product rows and movements visible.
Posted(r, sums) ==
    [p \in Product |-> IF p \in staged[r] THEN sums[p] + call[r].change[p] ELSE sums[p]]

PostStock(r) ==
    /\ product' = [p \in Product |->
                     IF p \in staged[r]
                       THEN [state |-> product[p].state, stock |-> NewLevel(r, p),
                             version |-> seen[r][p].version + 1]
                       ELSE product[p]]
    /\ ledger' = Posted(r, ledger)
    /\ Finish(r, "committed")

BookOnOrder(r) ==
    booked' = [booked EXCEPT ![call[r].order] = Posted(r, @)]

CommitAdjust(r) ==
    /\ Ready(r, "adjust")
    /\ PostStock(r)
    /\ UNCHANGED <<order, booked>>

CommitCreate(r) ==
    /\ Ready(r, "create")
    /\ PostStock(r) /\ BookOnOrder(r)
    /\ order' = [order EXCEPT ![call[r].order] =
                   [status |-> call[r].status, deleted |-> FALSE,
                    lines |-> [p \in Product |-> -call[r].change[p]]]]

\* The status UPDATE carries no version.  The handler reloads the order before
\* it answers, so a row deleted meanwhile ends in 404 and a rollback.
CommitStatus(r) ==
    /\ Ready(r, "status")
    /\ ~order[call[r].order].deleted
    /\ PostStock(r) /\ BookOnOrder(r)
    /\ order' = [order EXCEPT ![call[r].order].status = call[r].status]

CommitDelete(r) ==
    /\ Ready(r, "delete")
    /\ PostStock(r) /\ BookOnOrder(r)
    /\ order' = [order EXCEPT ![call[r].order].deleted = TRUE]

-------------------------------------------------------------------------------
(* How a request fails: everything it wrote is rolled back. *)

\* Mutant: movements written outside the request's transaction survive it.
KeepMovements(r) ==
    /\ Finish(r, "failed")
    /\ booked' = [o \in Order |->
                    IF o = call[r].order THEN Posted(r, booked[o]) ELSE booked[o]]
    /\ UNCHANGED <<product, order, ledger>>

RollBack(r) == Finish(r, "failed") /\ UNCHANGED rows

\* 404 or 409 in create_order's validation phase.
RefuseLine(r, p) ==
    /\ Running(r) /\ call[r].op = "create" /\ p \in unread[r]
    /\ product[p].state # "live" \/ product[p].stock + call[r].change[p] < 0
    /\ RollBack(r)

\* 409 "Insufficient stock" in _change_stock.
RefuseShortage(r, p) ==
    /\ Writing(r, p)
    /\ NewLevel(r, p) < 0
    /\ RollBack(r)

\* Mutant: retry the same guarded UPDATE instead of answering.
RetryStale(r, p) ==
    /\ Writing(r, p) /\ ~Locked(p) /\ ~VersionMatches(r, p)
    /\ UNCHANGED vars

\* 409 "Stock changed concurrently": the guarded UPDATE matched no row.
RefuseStale(r, p) ==
    /\ Writing(r, p) /\ ~Locked(p) /\ ~VersionMatches(r, p)
    /\ RollBack(r)

\* 404 from the reload at the end of update_order_status.
RefuseDeleted(r) ==
    /\ Ready(r, "status") /\ order[call[r].order].deleted
    /\ RollBack(r)

\* An exception, a dropped connection or a worker that dies.
Fail(r) == Running(r) /\ RollBack(r)

\* Lines are written in the order the client or the database lists them, so
\* two requests can wait for each other; the database then aborts one.
WaitsFor(r, q) == \E p \in Product : Writing(r, p) /\ LockedBy(q, p)

DeadlockVictim(r) ==
    /\ \E S \in SUBSET Request :
         r \in S /\ \A q \in S : \E s \in S : WaitsFor(q, s)
    /\ RollBack(r)

-------------------------------------------------------------------------------
\* What serving a request does once it is begun.
Serve(r) ==
    \/ \E p \in Product : \/ ReadLine(r, p) \/ _change_stock(r, p)
                          \/ RefuseLine(r, p) \/ RefuseShortage(r, p)
                          \/ RefuseStale(r, p)
    \/ LoadLines(r)
    \/ CommitAdjust(r) \/ CommitCreate(r) \/ CommitStatus(r) \/ CommitDelete(r)
    \/ RefuseDeleted(r) \/ DeadlockVictim(r)

Begin(r) ==
    \/ \E p \in Product, d \in (-MaxQty .. MaxQty) \ {0} : BeginAdjust(r, p, d)
    \/ \E o \in Order, lines \in OrderLines, s \in Status :
         BeginCreateOrder(r, o, lines, s)
    \/ \E o \in Order, s \in Status : BeginStatus(r, o, s)
    \/ \E o \in Order : BeginDeleteOrder(r, o)

\* No request in flight: the only state the server may rest in.
AllServed == (\A r \in Request : ~Running(r)) /\ UNCHANGED vars

Next ==
    \/ \E p \in Product, s \in 0..MaxStock : CreateProduct(p, s)
    \/ \E p \in Product : DeleteProduct(p)
    \/ \E r \in Request : Begin(r) \/ Serve(r) \/ Fail(r)
    \/ AllServed

Spec == Init /\ [][Next]_vars

\* The server runs every handler it started; nothing obliges a client to call.
FairSpec == Spec /\ \A r \in Request : WF_vars(Serve(r))

-------------------------------------------------------------------------------
(* Properties *)

Call == [op: {"none", "adjust", "create", "status", "delete"},
         order: Order \cup {"none"}, status: Status, change: [Product -> Int]]

OrderRow == [status: Status \cup {"absent"}, lines: [Product -> Nat], deleted: BOOLEAN]

\* Types; that stock is a Nat is the promise that it never goes negative.
TypeOK ==
    /\ product \in [Product -> Row]
    /\ order \in [Order -> OrderRow]
    /\ ledger \in [Product -> Int]
    /\ booked \in [Order -> [Product -> Int]]
    /\ step \in [Request -> {"new", "running", "committed", "failed"}]
    /\ call \in [Request -> Call]
    /\ seen \in [Request -> [Product -> Snapshot]]
    /\ unread \in [Request -> SUBSET Product]
    /\ unwritten \in [Request -> SUBSET Product]
    /\ staged \in [Request -> SUBSET Product]

\* Every product's current_stock is the sum of its stock_movements, however
\* the transactions of the handlers interleave: the version guard of
\* _change_stock loses no write.
LedgerBalanced == \A p \in Product : product[p].stock = ledger[p]

\* An order never has more taken out of stock on its account than its lines,
\* and none at all before it is committed ("deducted exactly once").
DeductedAtMostOnce ==
    \A o \in Order, p \in Product : booked[o][p] >= -order[o].lines[p]

\* The step that commits an order takes every line, in full, from the stock
\* of that very moment: an order that loses a race leaves no trace.
PlacedWhole ==
    \A o \in Order :
        order[o].status = "absent" /\ order'[o].status # "absent" =>
            \A p \in Product :
                product'[p].stock = product[p].stock - order'[o].lines[p]

OrdersPlacedWhole == [][PlacedWhole]_vars

\* Every request that began is answered: two requests that lock the products
\* of their lines in opposite orders never wait for each other for ever.
EveryRequestAnswered ==
    \A r \in Request : Running(r) ~> ~Running(r)

\* The handlers together implement the atomic stock book.
Book == INSTANCE StockBook WITH
            stock <- [p \in Product |-> product[p].stock],
            taken <- [o \in Order |-> order[o].lines]

StockIsAtomic == Book!Spec

-------------------------------------------------------------------------------
(* The inductive invariant behind the first three and OrdersPlacedWhole.  It *)
(* rests on VersionPinsStock: the version counter identifies the stock level *)
(* a request read, so a matching version means the level is still current.   *)

VersionPinsStock ==
    \A r \in Request, p \in Product :
        /\ seen[r][p].version <= product[p].version
        /\ VersionMatches(r, p) => seen[r][p].stock = product[p].stock

\* A staged row belongs to one running request and has not moved under it.
StagedRowsHeld ==
    \A r \in Request : \A p \in staged[r] :
        /\ Running(r) /\ unread[r] = {}
        /\ VersionMatches(r, p)
        /\ NewLevel(r, p) >= 0
        /\ \A q \in Request : p \in staged[q] => q = r

LinesCovered ==
    \A r \in Request : Running(r) =>
        staged[r] \cup unwritten[r] = LinesOf(call[r].change)

\* The order a request works on: its own fresh id, or a committed row whose
\* lines it may put back.
OrderInHand ==
    \A r \in Request : Running(r) =>
        /\ call[r].op # "none"
        /\ call[r].op # "adjust" => call[r].order \in Order
        /\ call[r].op = "adjust" =>
             \E p \in Product : \A x \in Product \ {p} : call[r].change[x] = 0
        /\ call[r].op = "create" =>
             /\ order[call[r].order].status = "absent"
             /\ \A p \in Product : call[r].change[p] <= 0
             /\ \A q \in Request : Running(q) /\ call[q].order = call[r].order => q = r
        /\ call[r].op \in {"status", "delete"} =>
             /\ order[call[r].order].status # "absent"
             /\ call[r].change \in {NoLines, order[call[r].order].lines}

\* Whatever is about to be written was found in the table first.
KnownProducts ==
    \A p \in Product : product[p].state = "absent" =>
        /\ \A o \in Order : order[o].lines[p] = 0
        /\ \A r \in Request : p \in staged[r] \cup unwritten[r] =>
             p \in unread[r] /\ call[r].op = "create"

AbsentRows ==
    /\ \A p \in Product : product[p].state = "absent" =>
         product[p].stock = 0 /\ product[p].version = 0
    /\ \A o \in Order : order[o].status = "absent" =>
         order[o].lines = NoLines /\ booked[o] = NoLines

IInv ==
    /\ TypeOK
    /\ VersionPinsStock
    /\ StagedRowsHeld
    /\ LinesCovered
    /\ OrderInHand
    /\ KnownProducts
    /\ AbsentRows
    /\ LedgerBalanced
    /\ DeductedAtMostOnce
===============================================================================
