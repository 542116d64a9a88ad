--------------------------- MODULE CloudStockProofs ---------------------------
(***************************************************************************)
(* Proofs about CloudStock for any products, orders, requests and bounds.  *)
(***************************************************************************)
EXTENDS CloudStock, TLAPS

-------------------------------------------------------------------------------
(* The cases of a step.  Refusals, failures and deadlock victims all roll     *)
(* back; both ways of loading an order load the lines to put back, if any.    *)

LoadStep(r) ==
    \E o \in Order, op \in {"status", "delete"}, s \in Status :
      \E back \in {NoLines, order[o].lines} :
        order[o].status # "absent" /\ LoadOrder(r, o, op, s, back)

\* The four ways a request begins; both that load an order have one form.
LEMMA BeginCases ==
  ASSUME NEW r \in Request, Begin(r)
  PROVE  \/ \E p \in Product, d \in (-MaxQty .. MaxQty) \ {0} : BeginAdjust(r, p, d)
         \/ \E o \in Order, lines \in OrderLines, s \in Status :
              BeginCreateOrder(r, o, lines, s)
         \/ LoadStep(r)
  <1>1. ASSUME NEW o \in Order, NEW s \in Status, BeginStatus(r, o, s)
        PROVE  LoadStep(r)
    <2> DEFINE back == IF s = "cancelled" THEN order[o].lines ELSE NoLines
    <2>1. back \in {NoLines, order[o].lines}
      OBVIOUS
    <2>2. order[o].status # "absent" /\ LoadOrder(r, o, "status", s, back)
      BY <1>1 DEF BeginStatus, LoadOrder
    <2>3. QED BY <2>1, <2>2 DEF LoadStep
  <1>2. ASSUME NEW o \in Order, BeginDeleteOrder(r, o)
        PROVE  LoadStep(r)
    <2> DEFINE back == IF order[o].status = "cancelled" THEN NoLines ELSE order[o].lines
    <2>1. back \in {NoLines, order[o].lines} /\ "pending" \in Status
      BY DEF Status
    <2>2. order[o].status # "absent" /\ LoadOrder(r, o, "delete", "pending", back)
      BY <1>2 DEF BeginDeleteOrder, LoadOrder
    <2>3. QED BY <2>1, <2>2 DEF LoadStep
  <1>3. QED BY <1>1, <1>2 DEF Begin

\* Whatever serves or fails a request reads, writes, commits or rolls back.
LEMMA ServeCases ==
  ASSUME NEW r \in Request, Serve(r) \/ Fail(r)
  PROVE  \/ \E p \in Product : ReadLine(r, p)
         \/ \E p \in Product : _change_stock(r, p)
         \/ LoadLines(r)
         \/ CommitAdjust(r) \/ CommitCreate(r) \/ CommitStatus(r) \/ CommitDelete(r)
         \/ RollBack(r)
  BY DEF Serve, Fail, RefuseLine, RefuseShortage, RefuseStale, RefuseDeleted,
         DeadlockVictim

\* The cases of a step, as the proofs below go through them.
LEMMA StepCases ==
  ASSUME [Next]_vars
  PROVE  \/ \E p \in Product, s \in 0..MaxStock : CreateProduct(p, s)
         \/ \E p \in Product : DeleteProduct(p)
         \/ \E r \in Request :
              \/ \E p \in Product, d \in (-MaxQty .. MaxQty) \ {0} : BeginAdjust(r, p, d)
              \/ \E o \in Order, lines \in OrderLines, s \in Status :
                   BeginCreateOrder(r, o, lines, s)
              \/ LoadStep(r)
              \/ \E p \in Product : ReadLine(r, p)
              \/ \E p \in Product : _change_stock(r, p)
              \/ LoadLines(r)
              \/ CommitAdjust(r) \/ CommitCreate(r) \/ CommitStatus(r) \/ CommitDelete(r)
              \/ RollBack(r)
         \/ UNCHANGED vars
  <1>1. ASSUME NEW r \in Request, Begin(r)
        PROVE  \/ \E p \in Product, d \in (-MaxQty .. MaxQty) \ {0} : BeginAdjust(r, p, d)
               \/ \E o \in Order, lines \in OrderLines, s \in Status :
                    BeginCreateOrder(r, o, lines, s)
               \/ LoadStep(r)
    BY <1>1, BeginCases
  <1>2. ASSUME NEW r \in Request, Serve(r) \/ Fail(r)
        PROVE  \/ \E p \in Product : ReadLine(r, p)
               \/ \E p \in Product : _change_stock(r, p)
               \/ LoadLines(r)
               \/ CommitAdjust(r) \/ CommitCreate(r) \/ CommitStatus(r) \/ CommitDelete(r)
               \/ RollBack(r)
    BY <1>2, ServeCases
  <1>3. QED BY <1>1, <1>2 DEF Next, AllServed

\* Steps other than commits and the product endpoints leave products alone.
LEMMA OtherProducts ==
  ASSUME [Next]_vars,
         ~\E r \in Request :
            CommitAdjust(r) \/ CommitCreate(r) \/ CommitStatus(r) \/ CommitDelete(r),
         ~\E p \in Product, s \in 0..MaxStock : CreateProduct(p, s),
         ~\E p \in Product : DeleteProduct(p)
  PROVE  product' = product /\ ledger' = ledger
  <1>1. ASSUME NEW r \in Request, NEW p \in Product, NEW d, BeginAdjust(r, p, d)
        PROVE  product' = product /\ ledger' = ledger
    BY <1>1 DEF BeginAdjust, Start, rows
  <1>2. ASSUME NEW r \in Request, NEW o \in Order, NEW lines, NEW s, BeginCreateOrder(r, o, lines, s)
        PROVE  product' = product /\ ledger' = ledger
    BY <1>2 DEF BeginCreateOrder, Start, rows
  <1>3. ASSUME NEW r \in Request, LoadStep(r)
        PROVE  product' = product /\ ledger' = ledger
    BY <1>3 DEF LoadStep, LoadOrder, Start, rows
  <1>4. ASSUME NEW r \in Request, NEW p \in Product, ReadLine(r, p)
        PROVE  product' = product /\ ledger' = ledger
    BY <1>4 DEF ReadLine, rows
  <1>5. ASSUME NEW r \in Request, NEW p \in Product, _change_stock(r, p)
        PROVE  product' = product /\ ledger' = ledger
    BY <1>5 DEF _change_stock, rows
  <1>6. ASSUME NEW r \in Request, LoadLines(r)
        PROVE  product' = product /\ ledger' = ledger
    BY <1>6 DEF LoadLines, rows
  <1>7. ASSUME NEW r \in Request, RollBack(r)
        PROVE  product' = product /\ ledger' = ledger
    BY <1>7 DEF RollBack, rows
  <1>8. CASE UNCHANGED vars
    BY <1>8 DEF vars, rows
  <1>9. QED BY StepCases, <1>1, <1>2, <1>3, <1>4, <1>5, <1>6, <1>7, <1>8

-------------------------------------------------------------------------------
(* Types *)

\* A request that begins is well typed.
LEMMA StartType ==
  ASSUME NEW r \in Request, NEW op \in {"adjust", "create", "status", "delete"},
         NEW o \in Order \cup {"none"}, NEW s \in Status,
         NEW change \in [Product -> Int], TypeOK, Start(r, op, o, s, change),
         unread' \in [Request -> SUBSET Product],
         seen' \in [Request -> [Product -> Snapshot]]
  PROVE  TypeOK'
  <1>1. [op |-> op, order |-> o, status |-> s, change |-> change] \in Call
    BY DEF Call
  <1>2. LinesOf(change) \in SUBSET Product
    BY DEF LinesOf
  <1>3. QED BY <1>1, <1>2 DEF Start, TypeOK, rows

\* A request that ends is well typed.
LEMMA FinishType ==
  ASSUME NEW r \in Request, NEW how \in {"committed", "failed"}, TypeOK, Finish(r, how)
  PROVE  /\ step' \in [Request -> {"new", "running", "committed", "failed"}]
         /\ call' \in [Request -> Call]
         /\ seen' \in [Request -> [Product -> Snapshot]]
         /\ unread' \in [Request -> SUBSET Product]
         /\ unwritten' \in [Request -> SUBSET Product]
         /\ staged' \in [Request -> SUBSET Product]
  BY DEF TypeOK, Finish

\* A SELECT of a product row returns a stock and a version.
LEMMA ReadType == ASSUME TypeOK, NEW p \in Product PROVE Read(p) \in Snapshot
  BY DEF TypeOK, Read, Row, Snapshot

\* Adding the movements of a request to sums of integers leaves integers.
LEMMA PostedType ==
  ASSUME TypeOK, NEW r \in Request, NEW sums \in [Product -> Int]
  PROVE  Posted(r, sums) \in [Product -> Int]
  BY DEF TypeOK, Posted, Call

\* The rows a commit makes visible are well typed: no staged level is negative.
LEMMA PostStockType ==
  ASSUME TypeOK, StagedRowsHeld, NEW r \in Request, PostStock(r)
  PROVE  /\ product' \in [Product -> Row]
         /\ ledger' \in [Product -> Int]
  <1>1. ASSUME NEW p \in staged[r] PROVE NewLevel(r, p) \in Nat /\ seen[r][p].version + 1 \in Nat
    BY <1>1 DEF TypeOK, StagedRowsHeld, NewLevel, Call, Snapshot
  <1>2. QED BY <1>1, PostedType DEF PostStock, TypeOK, Row

\* The movements booked on an order stay integers.
LEMMA BookOnOrderType ==
  ASSUME TypeOK, NEW r \in Request, call[r].order \in Order, BookOnOrder(r)
  PROVE  booked' \in [Order -> [Product -> Int]]
  BY PostedType DEF TypeOK, BookOnOrder

\* The empty database is well typed.
LEMMA TypeInit == Init => TypeOK
  <1>1. [op |-> "none", order |-> "none", status |-> "pending", change |-> NoLines] \in Call
    BY DEF Call, Status, NoLines
  <1>2. QED BY <1>1 DEF Init, TypeOK, Row, OrderRow, Snapshot, NoLines

\* Every step keeps the types, given that staged rows still match what was read.
LEMMA TypeStep == TypeOK /\ StagedRowsHeld /\ OrderInHand /\ [Next]_vars => TypeOK'
  <1> SUFFICES ASSUME TypeOK, StagedRowsHeld, OrderInHand, [Next]_vars
               PROVE  TypeOK'
    OBVIOUS
  <1> USE BoundsAssumption
  <1>1. ASSUME NEW p \in Product, NEW s \in 0..MaxStock, CreateProduct(p, s)
        PROVE  TypeOK'
    BY <1>1 DEF CreateProduct, TypeOK, Row, work
  <1>2. ASSUME NEW p \in Product, DeleteProduct(p)
        PROVE  TypeOK'
    BY <1>2 DEF DeleteProduct, TypeOK, Row, work
  <1>3. ASSUME NEW r \in Request, NEW p \in Product,
               NEW d \in (-MaxQty .. MaxQty) \ {0}, BeginAdjust(r, p, d)
        PROVE  TypeOK'
    <2>1. [NoLines EXCEPT ![p] = d] \in [Product -> Int]
      BY DEF NoLines
    <2>2. seen' \in [Request -> [Product -> Snapshot]]
      BY <1>3, ReadType DEF BeginAdjust, TypeOK
    <2>3. QED BY <1>3, <2>1, <2>2, StartType DEF BeginAdjust, TypeOK, Status
  <1>4. ASSUME NEW r \in Request, NEW o \in Order, NEW lines \in OrderLines,
               NEW s \in Status, BeginCreateOrder(r, o, lines, s)
        PROVE  TypeOK'
    <2>1. [p \in Product |-> -lines[p]] \in [Product -> Int]
      BY DEF OrderLines
    <2>2. unread' \in [Request -> SUBSET Product] /\ seen' \in [Request -> [Product -> Snapshot]]
      BY <1>4 DEF BeginCreateOrder, TypeOK, LinesOf
    <2>3. QED BY <1>4, <2>1, <2>2, StartType DEF BeginCreateOrder
  <1>5. ASSUME NEW r \in Request, NEW o \in Order, NEW op \in {"status", "delete"},
               NEW s \in Status, NEW back \in {NoLines, order[o].lines},
               LoadOrder(r, o, op, s, back)
        PROVE  TypeOK'
    <2>1. back \in [Product -> Int]
      BY DEF NoLines, TypeOK, OrderRow
    <2>2. unread' \in [Request -> SUBSET Product] /\ seen' \in [Request -> [Product -> Snapshot]]
      BY <1>5 DEF LoadOrder, TypeOK, LinesOf
    <2>3. QED BY <1>5, <2>1, <2>2, StartType DEF LoadOrder
  <1>6. ASSUME NEW r \in Request, NEW p \in Product, ReadLine(r, p)
        PROVE  TypeOK'
    BY <1>6, ReadType DEF ReadLine, TypeOK, rows
  <1>7. ASSUME NEW r \in Request, LoadLines(r)
        PROVE  TypeOK'
    BY <1>7, ReadType DEF LoadLines, TypeOK, rows
  <1>8. ASSUME NEW r \in Request, NEW p \in Product, _change_stock(r, p)
        PROVE  TypeOK'
    BY <1>8 DEF _change_stock, TypeOK, rows
  <1>9. ASSUME NEW r \in Request, PostStock(r), booked' \in [Order -> [Product -> Int]],
               order' \in [Order -> OrderRow]
        PROVE  TypeOK'
    BY <1>9, PostStockType, FinishType DEF PostStock, TypeOK
  <1>10. ASSUME NEW r \in Request, CommitAdjust(r)
         PROVE  TypeOK'
    BY <1>9, <1>10 DEF CommitAdjust, TypeOK
  <1>11. ASSUME NEW r \in Request, CommitCreate(r)
         PROVE  TypeOK'
    <2>1. call[r].order \in Order /\ call[r] \in Call
          /\ \A p \in Product : -call[r].change[p] \in Nat
      BY <1>11 DEF CommitCreate, Ready, OrderInHand, TypeOK, Call
    <2>2. order' \in [Order -> OrderRow]
      BY <1>11, <2>1 DEF CommitCreate, TypeOK, Call, OrderRow
    <2>3. QED BY <1>9, <1>11, <2>1, <2>2, BookOnOrderType DEF CommitCreate
  <1>12. ASSUME NEW r \in Request, CommitStatus(r) \/ CommitDelete(r)
         PROVE  TypeOK'
    <2>1. call[r].order \in Order /\ call[r] \in Call
      BY <1>12 DEF CommitStatus, CommitDelete, Ready, OrderInHand, TypeOK
    <2> DEFINE row == order[call[r].order]
    <2>2. row \in OrderRow /\ call[r].status \in Status
      BY <2>1 DEF TypeOK, Call
    <2>3. [row EXCEPT !.status = call[r].status] \in OrderRow
      BY <2>2 DEF OrderRow
    <2>4. [row EXCEPT !.deleted = TRUE] \in OrderRow
      BY <2>2 DEF OrderRow
    <2>5. order' \in [Order -> OrderRow]
      BY <1>12, <2>1, <2>3, <2>4 DEF CommitStatus, CommitDelete, TypeOK
    <2>6. QED BY <1>9, <1>12, <2>1, <2>5, BookOnOrderType DEF CommitStatus, CommitDelete
  <1>13. ASSUME NEW r \in Request, RollBack(r)
         PROVE  TypeOK'
    BY <1>13, FinishType DEF RollBack, TypeOK, rows
  <1>14. CASE UNCHANGED vars
    BY <1>14 DEF vars, rows, work, TypeOK
  <1>15. QED
    BY StepCases, <1>1, <1>2, <1>3, <1>4, <1>5, <1>6, <1>7, <1>8, <1>10, <1>11, <1>12,
       <1>13, <1>14 DEF LoadStep

-------------------------------------------------------------------------------
(* The inductive invariant, one lemma per part *)

\* The empty database satisfies the invariant.
LEMMA InvInit == Init => IInv
  <1> SUFFICES ASSUME Init PROVE IInv
    OBVIOUS
  <1>1. TypeOK
    BY TypeInit
  <1>2. VersionPinsStock /\ StagedRowsHeld /\ LinesCovered /\ OrderInHand
    BY DEF Init, VersionPinsStock, VersionMatches, StagedRowsHeld, LinesCovered,
           OrderInHand, Running
  <1>3. KnownProducts /\ AbsentRows /\ LedgerBalanced /\ DeductedAtMostOnce
    BY DEF Init, KnownProducts, AbsentRows, LedgerBalanced, DeductedAtMostOnce, NoLines
  <1>4. QED BY <1>1, <1>2, <1>3 DEF IInv

\* A version only grows when its row is written, and every read is of the
\* committed row, so equal versions still mean equal stock.
LEMMA VersionStep == IInv /\ [Next]_vars => VersionPinsStock'
  <1> SUFFICES ASSUME IInv, [Next]_vars, NEW q \in Request, NEW x \in Product
               PROVE  /\ seen'[q][x].version <= product'[x].version
                      /\ product'[x].version = seen'[q][x].version =>
                           seen'[q][x].stock = product'[x].stock
    BY DEF VersionPinsStock, VersionMatches
  <1> DEFINE Pinned == /\ seen'[q][x].version <= product'[x].version
                       /\ product'[x].version = seen'[q][x].version =>
                            seen'[q][x].stock = product'[x].stock
  <1> USE DEF IInv
  <1>0. /\ seen[q][x].version <= product[x].version
        /\ product[x].version = seen[q][x].version => seen[q][x].stock = product[x].stock
        /\ seen[q][x] \in Snapshot /\ product[x] \in Row
    BY DEF VersionPinsStock, VersionMatches, TypeOK
  <1>1. ASSUME NEW p \in Product, NEW s \in 0..MaxStock, CreateProduct(p, s)
        PROVE  Pinned
    BY <1>0, <1>1 DEF CreateProduct, AbsentRows, TypeOK, Row, Snapshot, work
  <1>2. ASSUME NEW p \in Product, DeleteProduct(p)
        PROVE  Pinned
    BY <1>0, <1>2 DEF DeleteProduct, TypeOK, work
  <1>3. ASSUME UNCHANGED product,
               seen'[q][x] = seen[q][x] \/ seen'[q][x] = Read(x)
        PROVE  Pinned
    BY <1>0, <1>3 DEF Read, Row, Snapshot
  <1>4. ASSUME NEW r \in Request, NEW p \in Product,
               NEW d \in (-MaxQty .. MaxQty) \ {0}, BeginAdjust(r, p, d)
        PROVE  Pinned
    BY <1>3, <1>4 DEF BeginAdjust, Start, rows, TypeOK
  <1>5. ASSUME NEW r \in Request, NEW p \in Product, ReadLine(r, p)
        PROVE  Pinned
    BY <1>3, <1>5 DEF ReadLine, rows, TypeOK
  <1>6. ASSUME NEW r \in Request, LoadLines(r)
        PROVE  Pinned
    BY <1>3, <1>6 DEF LoadLines, rows, TypeOK
  <1>7. ASSUME NEW r \in Request, PostStock(r)
        PROVE  Pinned
    <2>1. CASE x \in staged[r]
      <3>1. product'[x].version = product[x].version + 1
        BY <1>7, <2>1 DEF PostStock, StagedRowsHeld, VersionMatches
      <3>2. QED BY <1>0, <1>7, <3>1 DEF PostStock, Finish, Row, Snapshot
    <2>2. CASE x \notin staged[r]
      BY <1>0, <1>7, <2>2 DEF PostStock, Finish
    <2>3. QED BY <2>1, <2>2
  <1>8. ASSUME UNCHANGED <<product, seen>>
        PROVE  Pinned
    BY <1>0, <1>8
  <1>9. ASSUME NEW r \in Request, LoadStep(r) \/ RollBack(r)
               \/ \E o \in Order, lines \in OrderLines, s \in Status :
                    BeginCreateOrder(r, o, lines, s)
        PROVE  Pinned
    BY <1>8, <1>9 DEF LoadStep, LoadOrder, RollBack, BeginCreateOrder, Start, Finish, rows
  <1>10. ASSUME NEW r \in Request, NEW p \in Product, _change_stock(r, p)
         PROVE  Pinned
    BY <1>8, <1>10 DEF _change_stock, rows
  <1>11. QED
    BY StepCases, <1>1, <1>2, <1>4, <1>5, <1>6, <1>7, <1>8, <1>9, <1>10
       DEF CommitAdjust, CommitCreate, CommitStatus, CommitDelete, vars, rows, work

\* A staged row is locked, so nobody else writes it, and its request has read
\* all it needs, so nothing it compares with moves either.
LEMMA StagedStep == IInv /\ [Next]_vars => StagedRowsHeld'
  <1> SUFFICES ASSUME IInv, [Next]_vars
               PROVE  StagedRowsHeld'
    OBVIOUS
  <1>t. TypeOK'
    BY TypeStep DEF IInv
  <1> SUFFICES ASSUME NEW q \in Request, NEW x \in staged'[q], x \in Product
               PROVE  /\ step'[q] = "running" /\ unread'[q] = {}
                      /\ product'[x].version = seen'[q][x].version
                      /\ seen'[q][x].stock + call'[q].change[x] >= 0
                      /\ \A z \in Request : x \in staged'[z] => z = q
    BY <1>t DEF StagedRowsHeld, Running, VersionMatches, NewLevel, TypeOK
  <1> DEFINE Held == /\ step'[q] = "running" /\ unread'[q] = {}
                     /\ product'[x].version = seen'[q][x].version
                     /\ seen'[q][x].stock + call'[q].change[x] >= 0
                     /\ \A z \in Request : x \in staged'[z] => z = q
  <1> USE DEF IInv
  <1>0. x \in staged[q] => /\ step[q] = "running" /\ unread[q] = {}
                          /\ product[x].version = seen[q][x].version
                          /\ seen[q][x].stock + call[q].change[x] >= 0
                          /\ seen[q][x].stock = product[x].stock
                          /\ \A z \in Request : x \in staged[z] => z = q
    BY DEF StagedRowsHeld, VersionPinsStock, VersionMatches, NewLevel, Running
  <1>1. ASSUME NEW p \in Product, NEW s \in 0..MaxStock, CreateProduct(p, s)
        PROVE  Held
    <2>1. x # p
      BY <1>0, <1>1 DEF CreateProduct, KnownProducts, work, TypeOK
    <2>2. QED BY <1>0, <1>1, <2>1 DEF CreateProduct, work, TypeOK
  <1>2. ASSUME NEW p \in Product, DeleteProduct(p)
        PROVE  Held
    BY <1>0, <1>2 DEF DeleteProduct, work, TypeOK
  <1>3. ASSUME UNCHANGED <<product, staged>>, step'[q] = step[q], call'[q] = call[q],
               seen'[q] = seen[q], unread'[q] = unread[q]
        PROVE  Held
    BY <1>0, <1>3
  <1>4. ASSUME NEW r \in Request, NEW op, NEW o, NEW s, NEW change,
               Start(r, op, o, s, change)
        PROVE  /\ q # r /\ step[r] = "new" /\ UNCHANGED <<product, staged>>
               /\ step'[q] = step[q] /\ call'[q] = call[q]
    BY <1>0, <1>4 DEF Start, rows, TypeOK
  <1>5. ASSUME NEW r \in Request, NEW p \in Product,
               NEW d \in (-MaxQty .. MaxQty) \ {0}, BeginAdjust(r, p, d)
        PROVE  Held
    BY <1>3, <1>4, <1>5 DEF BeginAdjust, TypeOK
  <1>6. ASSUME NEW r \in Request, LoadStep(r)
               \/ \E o \in Order, lines \in OrderLines, s \in Status :
                    BeginCreateOrder(r, o, lines, s)
        PROVE  Held
    BY <1>3, <1>4, <1>6 DEF LoadStep, LoadOrder, BeginCreateOrder, TypeOK
  <1>8. ASSUME NEW r \in Request, NEW p \in Product, ReadLine(r, p)
        PROVE  Held
    BY <1>0, <1>3, <1>8 DEF ReadLine, rows, TypeOK
  <1>9. ASSUME NEW r \in Request, LoadLines(r)
        PROVE  Held
    BY <1>0, <1>3, <1>9 DEF LoadLines, rows, TypeOK
  <1>10. ASSUME NEW r \in Request, NEW p \in Product, _change_stock(r, p)
         PROVE  Held
    <2>1. \A z \in Request : p \notin staged[z]
      BY <1>10 DEF _change_stock, Locked, LockedBy, StagedRowsHeld
    <2>2. CASE x \in staged[q]
      BY <1>0, <1>10, <2>1, <2>2 DEF _change_stock, rows, TypeOK
    <2>3. CASE x \notin staged[q]
      <3>1. q = r /\ x = p
        BY <1>10, <2>3 DEF _change_stock, TypeOK
      <3>2. QED
        BY <1>10, <2>1, <3>1 DEF _change_stock, Writing, Running, VersionMatches, NewLevel,
                                 rows, TypeOK
    <2>4. QED BY <2>2, <2>3
  <1>11. ASSUME NEW r \in Request, NEW how \in {"committed", "failed"}, Finish(r, how)
         PROVE  /\ q # r /\ x \in staged[q] /\ x \notin staged[r]
                /\ step'[q] = step[q] /\ unread'[q] = unread[q] /\ UNCHANGED <<call, seen>>
                /\ \A z \in Request : x \in staged'[z] => x \in staged[z]
    <2>1. q # r /\ x \in staged[q]
      BY <1>11 DEF Finish, TypeOK
    <2>2. QED BY <1>0, <1>11, <2>1 DEF Finish, TypeOK
  <1>12. ASSUME NEW r \in Request, PostStock(r)
         PROVE  Held
    <2>1. /\ q # r /\ x \in staged[q] /\ x \notin staged[r]
          /\ step'[q] = step[q] /\ unread'[q] = unread[q] /\ UNCHANGED <<call, seen>>
          /\ \A z \in Request : x \in staged'[z] => x \in staged[z]
      BY <1>11, <1>12 DEF PostStock
    <2>2. product'[x] = product[x]
      BY <1>12, <2>1 DEF PostStock
    <2>3. QED BY <1>0, <2>1, <2>2
  <1>13. ASSUME NEW r \in Request, RollBack(r)
         PROVE  Held
    BY <1>0, <1>11, <1>13 DEF RollBack, rows
  <1>14. CASE UNCHANGED vars
    BY <1>3, <1>14 DEF vars, rows, work
  <1>15. QED
    BY StepCases, <1>1, <1>2, <1>5, <1>6, <1>8, <1>9, <1>10, <1>12, <1>13, <1>14
       DEF CommitAdjust, CommitCreate, CommitStatus, CommitDelete

\* A request stages exactly the lines its handler set out to change.
LEMMA LinesStep == IInv /\ [Next]_vars => LinesCovered'
  <1> SUFFICES ASSUME IInv, [Next]_vars, NEW q \in Request, step'[q] = "running"
               PROVE  staged'[q] \cup unwritten'[q] = LinesOf(call'[q].change)
    BY DEF LinesCovered, Running, LinesOf
  <1> DEFINE Covered == staged'[q] \cup unwritten'[q] = LinesOf(call'[q].change)
  <1> USE DEF IInv
  <1>0. step[q] = "running" => staged[q] \cup unwritten[q] = LinesOf(call[q].change)
    BY DEF LinesCovered, Running
  <1>1. ASSUME NEW r \in Request, NEW op, NEW o, NEW s, NEW change,
               Start(r, op, o, s, change)
        PROVE  Covered
    <2>1. staged[r] = {}
      BY <1>1 DEF Start, StagedRowsHeld, Running
    <2>2. QED BY <1>0, <1>1, <2>1 DEF Start, TypeOK
  <1>2. ASSUME UNCHANGED <<step, call, unwritten, staged>>
        PROVE  Covered
    BY <1>0, <1>2
  <1>3. ASSUME NEW r \in Request, NEW p \in Product, _change_stock(r, p)
        PROVE  Covered
    BY <1>0, <1>3 DEF _change_stock, Writing, TypeOK
  <1>4. ASSUME NEW r \in Request, NEW how \in {"committed", "failed"}, Finish(r, how)
        PROVE  Covered
    BY <1>0, <1>4 DEF Finish, TypeOK
  <1>5. QED
    BY StepCases, <1>1, <1>2, <1>3, <1>4
       DEF CreateProduct, DeleteProduct, BeginAdjust, BeginCreateOrder, LoadStep, LoadOrder,
           ReadLine, LoadLines, CommitAdjust, CommitCreate, CommitStatus, CommitDelete,
           PostStock, RollBack, vars, work

\* What a commit does to the order table, whatever the handler.
LEMMA CommitRows ==
  ASSUME IInv, NEW r \in Request, NEW o \in Order,
         CommitAdjust(r) \/ CommitCreate(r) \/ CommitStatus(r) \/ CommitDelete(r)
  PROVE  \/ order'[o] = order[o] /\ booked'[o] = booked[o]
         \/ /\ o = call[r].order /\ call[r].op = "create"
            /\ order[o].status = "absent" /\ order'[o].status \in Status
            /\ \A p \in Product : order'[o].lines[p] = -call[r].change[p]
            /\ booked'[o] = Posted(r, booked[o])
            /\ Ready(r, "create")
         \/ /\ o = call[r].order /\ call[r].op \in {"status", "delete"}
            /\ order[o].status # "absent" /\ order'[o].status \in Status
            /\ order'[o].lines = order[o].lines
            /\ call[r].change \in {NoLines, order[o].lines}
            /\ booked'[o] = Posted(r, booked[o])
  <1> USE DEF IInv
  <1>1. call[r] \in Call /\ order[o] \in OrderRow
    BY DEF TypeOK
  <1>2. CASE CommitAdjust(r)
    BY <1>2 DEF CommitAdjust
  <1>3. CASE CommitCreate(r)
    <2>1. call[r].order \in Order /\ order[call[r].order].status = "absent"
          /\ call[r].op = "create" /\ Ready(r, "create") /\ call[r].status \in Status
      BY <1>1, <1>3 DEF CommitCreate, Ready, OrderInHand, Call
    <2>2. CASE o # call[r].order
      BY <1>3, <2>1, <2>2 DEF CommitCreate, BookOnOrder, TypeOK
    <2>3. CASE o = call[r].order
      BY <1>3, <2>1, <2>3 DEF CommitCreate, BookOnOrder, TypeOK
    <2>4. QED BY <2>2, <2>3
  <1>4. CASE CommitStatus(r) \/ CommitDelete(r)
    <2>1. /\ call[r].order \in Order /\ order[call[r].order].status # "absent"
          /\ call[r].op \in {"status", "delete"} /\ call[r].status \in Status
          /\ call[r].change \in {NoLines, order[call[r].order].lines}
      BY <1>1, <1>4 DEF CommitStatus, CommitDelete, Ready, OrderInHand, Call
    <2>2. booked'[o] = IF o = call[r].order THEN Posted(r, booked[o]) ELSE booked[o]
      BY <1>4, <2>1 DEF CommitStatus, CommitDelete, BookOnOrder, TypeOK
    <2>3. CASE o # call[r].order
      BY <1>4, <2>1, <2>2, <2>3 DEF CommitStatus, CommitDelete, TypeOK
    <2>4. CASE o = call[r].order
      <3>1. order[o].status \in Status
        BY <1>1, <2>1, <2>4 DEF OrderRow
      <3>2. order'[o].status \in Status /\ order'[o].lines = order[o].lines
        <4> DEFINE row == order[o]
        <4>1. \/ order'[o] = [row EXCEPT !.status = call[r].status]
              \/ order'[o] = [row EXCEPT !.deleted = TRUE]
          BY <1>4, <2>1, <2>4 DEF CommitStatus, CommitDelete, TypeOK
        <4>2. row \in OrderRow
          BY <1>1
        <4> HIDE DEF row
        <4>3. /\ [row EXCEPT !.status = call[r].status].status = call[r].status
              /\ [row EXCEPT !.status = call[r].status].lines = row.lines
          BY <4>2 DEF OrderRow
        <4>4. /\ [row EXCEPT !.deleted = TRUE].status = row.status
              /\ [row EXCEPT !.deleted = TRUE].lines = row.lines
          BY <4>2 DEF OrderRow
        <4>5. QED BY <2>1, <3>1, <4>1, <4>3, <4>4 DEF row
      <3>3. QED BY <2>1, <2>2, <2>4, <3>2
    <2>5. QED BY <2>3, <2>4
  <1>5. QED BY <1>2, <1>3, <1>4

\* Steps other than commits leave orders and their movements alone.
LEMMA OtherRows ==
  ASSUME [Next]_vars,
         ~\E r \in Request :
            CommitAdjust(r) \/ CommitCreate(r) \/ CommitStatus(r) \/ CommitDelete(r)
  PROVE  UNCHANGED <<order, booked>>
  BY StepCases
     DEF CreateProduct, DeleteProduct, BeginAdjust, BeginCreateOrder, LoadStep, LoadOrder,
         ReadLine, LoadLines, _change_stock, RollBack, Start, vars, rows

\* A commit ends its request and touches no other.
LEMMA CommitEnds ==
  ASSUME IInv, NEW r \in Request,
         CommitAdjust(r) \/ CommitCreate(r) \/ CommitStatus(r) \/ CommitDelete(r)
  PROVE  PostStock(r) /\ Finish(r, "committed")
  BY DEF CommitAdjust, CommitCreate, CommitStatus, CommitDelete, PostStock

\* The order a running request works on stays its own, or stays committed.
LEMMA OrderStep == IInv /\ [Next]_vars => OrderInHand'
  <1> DEFINE Hand(q, c, n, st) ==
        /\ c[q].op # "none"
        /\ c[q].op # "adjust" => c[q].order \in Order
        /\ c[q].op = "adjust" =>
             \E p \in Product : \A x \in Product \ {p} : c[q].change[x] = 0
        /\ c[q].op = "create" =>
             /\ n[c[q].order].status = "absent"
             /\ \A p \in Product : c[q].change[p] <= 0
             /\ \A z \in Request : st[z] = "running" /\ c[z].order = c[q].order => z = q
        /\ c[q].op \in {"status", "delete"} =>
             /\ n[c[q].order].status # "absent"
             /\ c[q].change \in {NoLines, n[c[q].order].lines}
  <1> SUFFICES ASSUME IInv, [Next]_vars, NEW q \in Request, step'[q] = "running"
               PROVE  Hand(q, call', order', step')
    BY DEF OrderInHand, Running, NoLines
  <1> USE DEF IInv
  <1>0. step[q] = "running" => Hand(q, call, order, step)
    BY DEF OrderInHand, Running
  <1>1. ASSUME UNCHANGED <<step, call, order>>
        PROVE  Hand(q, call', order', step')
    BY <1>0, <1>1
  <1>2. ASSUME NEW r \in Request, NEW p \in Product,
               NEW d \in (-MaxQty .. MaxQty) \ {0}, BeginAdjust(r, p, d)
        PROVE  Hand(q, call', order', step')
    <2>1. /\ order' = order /\ step[r] = "new"
          /\ step' = [step EXCEPT ![r] = "running"]
          /\ call'[r].op = "adjust" /\ call'[r].order = "none"
          /\ call'[r].change = [NoLines EXCEPT ![p] = d]
          /\ \A z \in Request : z # r => call'[z] = call[z] /\ step'[z] = step[z]
      BY <1>2 DEF BeginAdjust, Start, rows, TypeOK
    <2>2. CASE q = r
      <3>1. \A x \in Product \ {p} : call'[q].change[x] = 0
        BY <2>1, <2>2 DEF NoLines
      <3>2. QED BY <2>1, <2>2, <3>1
    <2>3. CASE q # r
      <3>1. step[q] = "running" /\ call'[q] = call[q]
        BY <2>1, <2>3
      <3>2. ASSUME NEW z \in Request, step'[z] = "running", call'[z].order = call[q].order,
                   call[q].op = "create"
            PROVE  z = q
        BY <1>0, <2>1, <3>1, <3>2, OrderAssumption
      <3>3. QED BY <1>0, <2>1, <3>1, <3>2
    <2>4. QED BY <2>2, <2>3
  <1>3. ASSUME NEW r \in Request, NEW o \in Order, NEW lines \in OrderLines,
               NEW s \in Status, BeginCreateOrder(r, o, lines, s)
        PROVE  Hand(q, call', order', step')
    <2>1. /\ order' = order /\ order[o].status = "absent"
          /\ \A z \in Request : step[z] = "running" => call[z].order # o
          /\ step' = [step EXCEPT ![r] = "running"]
          /\ call' = [call EXCEPT ![r] = [op |-> "create", order |-> o, status |-> s,
                                         change |-> [p \in Product |-> -lines[p]]]]
      BY <1>3 DEF BeginCreateOrder, Start, rows, Running
    <2>2. CASE q = r
      <3>1. call'[q].op = "create" /\ call'[q].order = o
            /\ \A p \in Product : call'[q].change[p] <= 0
        BY <2>1, <2>2 DEF TypeOK, OrderLines
      <3>2. ASSUME NEW z \in Request, step'[z] = "running", call'[z].order = o
            PROVE  z = q
        BY <2>1, <2>2, <3>2 DEF TypeOK
      <3>3. QED BY <2>1, <3>1, <3>2
    <2>3. CASE q # r
      <3>1. step[q] = "running" /\ call'[q] = call[q]
        BY <2>1, <2>3 DEF TypeOK
      <3>2. ASSUME NEW z \in Request, step'[z] = "running", call'[z].order = call[q].order,
                   call[q].op = "create"
            PROVE  z = q
        BY <1>0, <2>1, <3>1, <3>2 DEF TypeOK
      <3>3. QED BY <1>0, <2>1, <3>1, <3>2
    <2>4. QED BY <2>2, <2>3
  <1>4. ASSUME NEW r \in Request, LoadStep(r)
        PROVE  Hand(q, call', order', step')
    <2>0. PICK o \in Order, op \in {"status", "delete"}, s \in Status :
            \E back \in {NoLines, order[o].lines} :
              order[o].status # "absent" /\ LoadOrder(r, o, op, s, back)
      BY <1>4 DEF LoadStep
    <2>1. PICK back \in {NoLines, order[o].lines} :
            order[o].status # "absent" /\ LoadOrder(r, o, op, s, back)
      BY <2>0
    <2>2. CASE q = r
      BY <2>1, <2>2 DEF LoadOrder, Start, rows, TypeOK
    <2>3. CASE q # r
      <3>1. step[q] = "running" /\ call'[q] = call[q] /\ order' = order
        BY <2>1, <2>3 DEF LoadOrder, Start, rows, TypeOK
      <3>2. ASSUME NEW z \in Request, call[q].op = "create", z # q, step'[z] = "running",
                   call'[z].order = call[q].order
            PROVE  FALSE
        <4>1. CASE z = r
          BY <1>0, <2>1, <3>1, <3>2, <4>1 DEF LoadOrder, Start, TypeOK
        <4>2. CASE z # r
          BY <1>0, <2>1, <3>1, <3>2, <4>2 DEF LoadOrder, Start, TypeOK
        <4>3. QED BY <4>1, <4>2
      <3>3. QED BY <1>0, <3>1, <3>2
    <2>4. QED BY <2>2, <2>3
  <1>5. ASSUME NEW r \in Request, NEW how \in {"committed", "failed"}, Finish(r, how)
        PROVE  /\ q # r /\ step[q] = "running" /\ call' = call
               /\ \A z \in Request : step'[z] = "running" => step[z] = "running"
    BY <1>5 DEF Finish, TypeOK
  <1>6. ASSUME NEW r \in Request, RollBack(r)
        PROVE  Hand(q, call', order', step')
    BY <1>0, <1>5, <1>6 DEF RollBack, rows
  <1>7. ASSUME NEW r \in Request,
               CommitAdjust(r) \/ CommitCreate(r) \/ CommitStatus(r) \/ CommitDelete(r)
        PROVE  Hand(q, call', order', step')
    <2>1. /\ q # r /\ step[q] = "running" /\ call' = call
          /\ \A z \in Request : step'[z] = "running" => step[z] = "running"
      BY <1>5, <1>7, CommitEnds
    <2>2. Hand(q, call, order, step)
      BY <1>0, <2>1
    <2>3. CASE call[q].op = "adjust"
      BY <2>1, <2>2, <2>3
    <2>4. CASE call[q].op # "adjust"
      <3> DEFINE o == call[q].order
      <3>1. o \in Order /\ Running(r)
        BY <2>2, <2>4, <1>7 DEF CommitAdjust, CommitCreate, CommitStatus, CommitDelete, Ready
      <3>2. \/ order'[o] = order[o]
            \/ o = call[r].order /\ call[r].op = "create" /\ order[o].status = "absent"
            \/ /\ order[o].status # "absent" /\ order'[o].status \in Status
               /\ order'[o].lines = order[o].lines
        BY <1>7, <3>1, CommitRows
      <3>3. ~(o = call[r].order /\ call[r].op = "create")
        BY <2>1, <3>1 DEF OrderInHand, Running
      <3>4. QED BY <2>1, <2>2, <2>4, <3>2, <3>3 DEF Status
    <2>5. QED BY <2>3, <2>4
  <1>8. QED
    BY StepCases, <1>1, <1>2, <1>3, <1>4, <1>6, <1>7
       DEF CreateProduct, DeleteProduct, ReadLine, LoadLines, _change_stock, vars, rows, work

\* No row is written, and none is named by an order, before it exists.
LEMMA KnownStep == IInv /\ [Next]_vars => KnownProducts'
  <1> SUFFICES ASSUME IInv, [Next]_vars, NEW x \in Product, product'[x].state = "absent"
               PROVE  /\ \A o \in Order : order'[o].lines[x] = 0
                      /\ \A q \in Request : x \in staged'[q] \cup unwritten'[q] =>
                           x \in unread'[q] /\ call'[q].op = "create"
    BY DEF KnownProducts
  <1> DEFINE Known == /\ \A o \in Order : order'[o].lines[x] = 0
                      /\ \A q \in Request : x \in staged'[q] \cup unwritten'[q] =>
                           x \in unread'[q] /\ call'[q].op = "create"
  <1> USE DEF IInv
  <1>0. product[x].state = "absent" =>
          /\ \A z \in Order : order[z].lines[x] = 0
          /\ \A r \in Request : x \in staged[r] \cup unwritten[r] =>
               x \in unread[r] /\ call[r].op = "create"
    BY DEF KnownProducts
  <1>1. ASSUME NEW p \in Product, NEW s \in 0..MaxStock, CreateProduct(p, s)
        PROVE  Known
    BY <1>0, <1>1 DEF CreateProduct, work, TypeOK
  <1>2. ASSUME NEW p \in Product, DeleteProduct(p)
        PROVE  Known
    BY <1>0, <1>2 DEF DeleteProduct, work, TypeOK
  <1>3. ASSUME NEW r \in Request, NEW p \in Product,
               NEW d \in (-MaxQty .. MaxQty) \ {0}, BeginAdjust(r, p, d)
        PROVE  Known
    <2>1. x # p
      BY <1>3 DEF BeginAdjust, Start, rows
    <2>2. x \notin LinesOf([NoLines EXCEPT ![p] = d])
      BY <2>1 DEF LinesOf, NoLines
    <2>3. staged[r] = {}
      BY <1>3 DEF BeginAdjust, Start, StagedRowsHeld, Running
    <2>4. QED BY <1>0, <1>3, <2>2, <2>3 DEF BeginAdjust, Start, rows, TypeOK
  <1>4. ASSUME NEW r \in Request, NEW z \in Order, NEW lines \in OrderLines,
               NEW s \in Status, BeginCreateOrder(r, z, lines, s)
        PROVE  Known
    <2>1. LinesOf([p \in Product |-> -lines[p]]) = LinesOf(lines)
      BY DEF LinesOf, OrderLines
    <2>2. staged[r] = {}
      BY <1>4 DEF BeginCreateOrder, Start, StagedRowsHeld, Running
    <2>3. QED BY <1>0, <1>4, <2>1, <2>2 DEF BeginCreateOrder, Start, rows, TypeOK
  <1>5. ASSUME NEW r \in Request, LoadStep(r)
        PROVE  Known
    <2>0. PICK z \in Order, op \in {"status", "delete"}, s \in Status :
            \E back \in {NoLines, order[z].lines} :
              order[z].status # "absent" /\ LoadOrder(r, z, op, s, back)
      BY <1>5 DEF LoadStep
    <2>1. PICK back \in {NoLines, order[z].lines} : LoadOrder(r, z, op, s, back)
      BY <2>0
    <2>2. product' = product /\ staged[r] = {}
      BY <2>1 DEF LoadOrder, Start, rows, StagedRowsHeld, Running
    <2>3. x \notin LinesOf(back)
      BY <1>0, <2>2 DEF LinesOf, NoLines
    <2>4. QED BY <1>0, <2>1, <2>2, <2>3 DEF LoadOrder, Start, rows, TypeOK
  <1>6. ASSUME NEW r \in Request, NEW p \in Product, ReadLine(r, p)
        PROVE  Known
    BY <1>0, <1>6 DEF ReadLine, rows, TypeOK
  <1>7. ASSUME NEW r \in Request, LoadLines(r)
        PROVE  Known
    BY <1>0, <1>7 DEF LoadLines, rows, TypeOK
  <1>8. ASSUME NEW r \in Request, NEW p \in Product, _change_stock(r, p)
        PROVE  Known
    BY <1>0, <1>8 DEF _change_stock, Writing, rows, TypeOK
  <1>9. ASSUME NEW r \in Request, NEW how \in {"committed", "failed"}, Finish(r, how),
               product[x].state = "absent", \A o \in Order : order'[o].lines[x] = 0
        PROVE  Known
    BY <1>0, <1>9 DEF Finish, TypeOK
  <1>10. ASSUME NEW r \in Request,
                CommitAdjust(r) \/ CommitCreate(r) \/ CommitStatus(r) \/ CommitDelete(r)
         PROVE  Known
    <2>1. product[x].state = "absent"
      BY <1>10, CommitEnds DEF PostStock
    <2>2. ASSUME NEW o \in Order PROVE order'[o].lines[x] = 0
      <3>1. \/ order'[o].lines = order[o].lines
            \/ Ready(r, "create") /\ order'[o].lines[x] = -call[r].change[x]
        BY <1>10, CommitRows
      <3>2. Ready(r, "create") => x \notin LinesOf(call[r].change)
        BY <1>0, <2>1 DEF Ready, LinesCovered
      <3>3. QED BY <1>0, <2>1, <3>1, <3>2 DEF LinesOf
    <2>3. QED BY <1>9, <1>10, <2>1, <2>2, CommitEnds
  <1>11. ASSUME NEW r \in Request, RollBack(r)
         PROVE  Known
    BY <1>0, <1>9, <1>11 DEF RollBack, rows
  <1>12. CASE UNCHANGED vars
    BY <1>0, <1>12 DEF vars, rows, work
  <1>13. QED
    BY StepCases, <1>1, <1>2, <1>3, <1>4, <1>5, <1>6, <1>7, <1>8, <1>10, <1>11, <1>12

\* A row that does not exist yet has no stock, no lines and no movements.
LEMMA AbsentStep == IInv /\ [Next]_vars => AbsentRows'
  <1> SUFFICES ASSUME IInv, [Next]_vars
               PROVE  AbsentRows'
    OBVIOUS
  <1> USE DEF IInv
  <1>1. ASSUME NEW x \in Product, product'[x].state = "absent"
        PROVE  product'[x].stock = 0 /\ product'[x].version = 0
    <2>1. ASSUME NEW r \in Request, PostStock(r)
          PROVE  product'[x].stock = 0 /\ product'[x].version = 0
      <3>1. product[x].state = "absent"
        BY <1>1, <2>1 DEF PostStock
      <3>2. x \notin staged[r]
        BY <3>1 DEF KnownProducts, StagedRowsHeld
      <3>3. QED BY <2>1, <3>1, <3>2 DEF PostStock, AbsentRows
    <2>2. ASSUME NEW p \in Product, NEW s \in 0..MaxStock, CreateProduct(p, s)
          PROVE  product'[x].stock = 0 /\ product'[x].version = 0
      BY <1>1, <2>2 DEF CreateProduct, AbsentRows, TypeOK
    <2>3. ASSUME NEW p \in Product, DeleteProduct(p)
          PROVE  product'[x].stock = 0 /\ product'[x].version = 0
      BY <1>1, <2>3 DEF DeleteProduct, AbsentRows, TypeOK
    <2>4. ASSUME UNCHANGED product
          PROVE  product'[x].stock = 0 /\ product'[x].version = 0
      BY <1>1, <2>4 DEF AbsentRows
    <2>5. QED
      <3>1. CASE \E r \in Request :
                   CommitAdjust(r) \/ CommitCreate(r) \/ CommitStatus(r) \/ CommitDelete(r)
        BY <3>1, <2>1 DEF CommitAdjust, CommitCreate, CommitStatus, CommitDelete
      <3>2. QED BY <2>2, <2>3, <2>4, <3>1, OtherProducts
  <1>2. ASSUME NEW o \in Order, order'[o].status = "absent"
        PROVE  order'[o].lines = NoLines /\ booked'[o] = NoLines
    <2>1. ASSUME NEW r \in Request,
                 CommitAdjust(r) \/ CommitCreate(r) \/ CommitStatus(r) \/ CommitDelete(r)
          PROVE  order'[o].lines = NoLines /\ booked'[o] = NoLines
      BY <1>2, <2>1, CommitRows DEF AbsentRows, Status
    <2>2. QED BY <1>2, <2>1, OtherRows DEF AbsentRows
  <1>3. QED BY <1>1, <1>2 DEF AbsentRows

\* The heart of the argument: when a request commits, every level it writes
\* is the level of that moment plus its own change.
LEMMA CommitMoves ==
  ASSUME IInv, NEW r \in Request, NEW op, Ready(r, op), PostStock(r), NEW p \in Product
  PROVE  /\ product'[p].stock = product[p].stock + call[r].change[p]
         /\ product'[p].stock >= 0
         /\ ledger'[p] = ledger[p] + call[r].change[p]
         /\ Posted(r, ledger)[p] = ledger[p] + call[r].change[p]
  <1> USE DEF IInv
  <1>1. staged[r] = LinesOf(call[r].change)
    BY DEF Ready, LinesCovered, TypeOK
  <1>2. /\ product[p] \in Row /\ ledger[p] \in Int /\ call[r].change[p] \in Int
    BY DEF TypeOK, Call
  <1>3. CASE p \in staged[r]
    <2>1. seen[r][p].stock = product[p].stock /\ NewLevel(r, p) >= 0
      BY <1>3 DEF StagedRowsHeld, VersionPinsStock
    <2>2. QED BY <1>2, <1>3, <2>1 DEF PostStock, Posted, NewLevel
  <1>4. CASE p \notin staged[r]
    <2>1. call[r].change[p] = 0
      BY <1>1, <1>4 DEF LinesOf
    <2>2. QED BY <1>2, <1>4, <2>1 DEF PostStock, Posted, Row
  <1>5. QED BY <1>3, <1>4

\* The same for the movements booked on an order.
LEMMA CommitBooks ==
  ASSUME IInv, NEW r \in Request, NEW op, Ready(r, op), NEW p \in Product,
         NEW sums \in [Product -> Int]
  PROVE  Posted(r, sums)[p] = sums[p] + call[r].change[p]
  <1> USE DEF IInv
  <1>1. staged[r] = LinesOf(call[r].change) /\ call[r].change[p] \in Int
    BY DEF Ready, LinesCovered, TypeOK, Call
  <1>2. QED BY <1>1 DEF LinesOf, Posted

\* A commit finds its request with nothing left to read or to write.
LEMMA CommitReady ==
  ASSUME NEW r \in Request,
         CommitAdjust(r) \/ CommitCreate(r) \/ CommitStatus(r) \/ CommitDelete(r)
  PROVE  \E op \in {"adjust", "create", "status", "delete"} : Ready(r, op)
  BY DEF CommitAdjust, CommitCreate, CommitStatus, CommitDelete

\* Steps other than commits and the creation of a product leave stock alone.
LEMMA OtherStock ==
  ASSUME IInv, [Next]_vars,
         ~\E r \in Request :
            CommitAdjust(r) \/ CommitCreate(r) \/ CommitStatus(r) \/ CommitDelete(r),
         ~\E p \in Product, s \in 0..MaxStock : CreateProduct(p, s)
  PROVE  ledger' = ledger /\ \A p \in Product : product'[p].stock = product[p].stock
  <1>1. ASSUME NEW x \in Product, DeleteProduct(x)
        PROVE  ledger' = ledger /\ \A p \in Product : product'[p].stock = product[p].stock
    BY <1>1 DEF DeleteProduct, IInv, TypeOK
  <1>2. QED BY <1>1, OtherProducts

\* Every step moves stock and ledger by the same amount.
LEMMA LedgerStep == IInv /\ [Next]_vars => LedgerBalanced'
  <1> SUFFICES ASSUME IInv, [Next]_vars, NEW x \in Product
               PROVE  product'[x].stock = ledger'[x]
    BY DEF LedgerBalanced
  <1>0. product[x].stock = ledger[x] /\ ledger[x] \in Int
    BY DEF IInv, LedgerBalanced, TypeOK
  <1>1. ASSUME NEW p \in Product, NEW s \in 0..MaxStock, CreateProduct(p, s)
        PROVE  product'[x].stock = ledger'[x]
    BY <1>0, <1>1 DEF CreateProduct, IInv, AbsentRows, TypeOK
  <1>2. ASSUME NEW r \in Request,
               CommitAdjust(r) \/ CommitCreate(r) \/ CommitStatus(r) \/ CommitDelete(r)
        PROVE  product'[x].stock = ledger'[x]
    BY <1>0, <1>2, CommitEnds, CommitReady, CommitMoves
  <1>3. QED BY <1>0, <1>1, <1>2, OtherStock

\* Every step keeps what was taken for an order within its lines.
LEMMA DeductedStep == IInv /\ [Next]_vars => DeductedAtMostOnce'
  <1> SUFFICES ASSUME IInv, [Next]_vars, NEW o \in Order, NEW p \in Product
               PROVE  booked'[o][p] >= -order'[o].lines[p]
    BY DEF DeductedAtMostOnce
  <1>0. /\ booked[o][p] >= -order[o].lines[p] /\ booked[o] \in [Product -> Int]
        /\ order[o].lines \in [Product -> Nat]
    BY DEF IInv, DeductedAtMostOnce, TypeOK, OrderRow
  <1>1. ASSUME NEW r \in Request,
               CommitAdjust(r) \/ CommitCreate(r) \/ CommitStatus(r) \/ CommitDelete(r)
        PROVE  booked'[o][p] >= -order'[o].lines[p]
    <2>1. Posted(r, booked[o])[p] = booked[o][p] + call[r].change[p]
          /\ call[r].change[p] \in Int
      BY <1>0, <1>1, CommitReady, CommitBooks DEF IInv, TypeOK, Call
    <2>2. order[o].status = "absent" => booked[o][p] = 0
      BY DEF IInv, AbsentRows, NoLines
    <2>3. call[r].change \in {NoLines, order[o].lines} => call[r].change[p] >= 0
      BY <1>0 DEF NoLines
    <2>4. \/ order'[o] = order[o] /\ booked'[o] = booked[o]
          \/ /\ order[o].status = "absent" /\ booked'[o] = Posted(r, booked[o])
             /\ order'[o].lines[p] = -call[r].change[p]
          \/ /\ order'[o].lines = order[o].lines /\ booked'[o] = Posted(r, booked[o])
             /\ call[r].change \in {NoLines, order[o].lines}
      BY <1>1, CommitRows
    <2>5. QED BY <1>0, <2>1, <2>2, <2>3, <2>4
  <1>2. QED BY <1>0, <1>1, OtherRows

\* Every step keeps the invariant.
LEMMA InvStep == IInv /\ [Next]_vars => IInv'
  <1> SUFFICES ASSUME IInv, [Next]_vars PROVE IInv'
    OBVIOUS
  <1>1. TypeOK'
    BY TypeStep DEF IInv
  <1>2. QED
    BY <1>1, VersionStep, StagedStep, LinesStep, OrderStep, KnownStep, AbsentStep,
       LedgerStep, DeductedStep DEF IInv

-------------------------------------------------------------------------------
(* The theorems *)

\* The inductive invariant holds in every reachable state.
THEOREM Invariance == Spec => []IInv
  BY InvInit, InvStep, PTL DEF Spec

\* Types hold, and with them the promise that stock is never negative
\* (_change_stock refuses a change below zero, and the level it checked is
\* still the committed one when it writes).
THEOREM TypeCorrect == Spec => []TypeOK
  <1>1. IInv => TypeOK
    BY DEF IInv
  <1>2. QED BY <1>1, Invariance, PTL

\* However the handlers interleave, current_stock is the sum of the ledger.
THEOREM LedgerAlwaysBalanced == Spec => []LedgerBalanced
  <1>1. IInv => LedgerBalanced
    BY DEF IInv
  <1>2. QED BY <1>1, Invariance, PTL

\* No order is ever charged more than its lines, nor charged before it exists.
THEOREM OrdersDeductedAtMostOnce == Spec => []DeductedAtMostOnce
  <1>1. IInv => DeductedAtMostOnce
    BY DEF IInv
  <1>2. QED BY <1>1, Invariance, PTL

\* An order is committed in the step that takes all of its lines from stock.
THEOREM PlacedWholeAlways == Spec => OrdersPlacedWhole
  <1>1. IInv /\ [Next]_vars => PlacedWhole \/ UNCHANGED vars
    <2> SUFFICES ASSUME IInv, [Next]_vars, NEW o \in Order,
                        order[o].status = "absent", order'[o].status # "absent",
                        NEW p \in Product
                 PROVE  product'[p].stock = product[p].stock - order'[o].lines[p]
      BY DEF PlacedWhole
    <2>1. PICK r \in Request :
            CommitAdjust(r) \/ CommitCreate(r) \/ CommitStatus(r) \/ CommitDelete(r)
      BY OtherRows
    <2>2. order'[o].lines[p] = -call[r].change[p]
      BY <2>1, CommitRows
    <2>3. product'[p].stock = product[p].stock + call[r].change[p]
      BY <2>1, CommitEnds, CommitReady, CommitMoves
    <2>4. product[p].stock \in Int /\ call[r].change[p] \in Int
      BY DEF IInv, TypeOK, Row, Call
    <2>5. QED BY <2>2, <2>3, <2>4
  <1>2. QED BY <1>1, Invariance, PTL DEF Spec, OrdersPlacedWhole

\* The handlers implement the atomic stock book of StockBook.
THEOREM Refinement == Spec => StockIsAtomic
  <1> DEFINE stockOf == [p \in Product |-> product[p].stock]
             takenOf == [o \in Order |-> order[o].lines]
  <1>1. Init => Book!Init
    BY DEF Init, Book!Init, Book!Nothing, NoLines
  <1>2. IInv /\ [Next]_vars => [Book!Next]_(Book!vars)
    <2> SUFFICES ASSUME IInv, [Next]_vars
                 PROVE  Book!Next \/ (stockOf' = stockOf /\ takenOf' = takenOf)
      BY DEF Book!vars
    <2>0. \A p \in Product : product[p].stock \in Nat /\ product'[p].stock \in Nat
      BY InvStep DEF IInv, TypeOK, Row
    <2>1. ASSUME NEW p \in Product, NEW s \in 0..MaxStock, CreateProduct(p, s)
          PROVE  Book!Adjust(p)
      <3>1. stockOf' = [stockOf EXCEPT ![p] = stockOf'[p]]
        BY <2>1 DEF CreateProduct, IInv, TypeOK
      <3>2. takenOf' = takenOf /\ stockOf'[p] \in Nat
        BY <2>0, <2>1 DEF CreateProduct
      <3>3. QED BY <3>1, <3>2 DEF Book!Adjust
    <2>2. ASSUME NEW r \in Request,
                 CommitAdjust(r) \/ CommitCreate(r) \/ CommitStatus(r) \/ CommitDelete(r)
          PROVE  Book!Next \/ (stockOf' = stockOf /\ takenOf' = takenOf)
      <3>1. \A p \in Product : /\ product'[p].stock = product[p].stock + call[r].change[p]
                               /\ call[r].change[p] \in Int
        BY <2>2, CommitEnds, CommitReady, CommitMoves DEF IInv, TypeOK, Call
      <3>2. CASE CommitAdjust(r)
        <4>1. PICK p \in Product : \A x \in Product \ {p} : call[r].change[x] = 0
          BY <3>2 DEF CommitAdjust, Ready, IInv, OrderInHand
        <4>2. stockOf' = [stockOf EXCEPT ![p] = stockOf'[p]]
          <5>1. \A x \in Product \ {p} : product'[x].stock = product[x].stock
            BY <2>0, <3>1, <4>1
          <5>2. QED BY <5>1
        <4>3. takenOf' = takenOf /\ stockOf'[p] \in Nat
          BY <2>0, <3>2 DEF CommitAdjust
        <4>4. QED BY <4>2, <4>3 DEF Book!Adjust, Book!Next
      <3>3. CASE CommitCreate(r)
        <4> DEFINE o == call[r].order
        <4>1. o \in Order /\ order[o].status = "absent"
          BY <3>3 DEF CommitCreate, Ready, IInv, OrderInHand
        <4>2. order' = [order EXCEPT ![o] = [status |-> call[r].status, deleted |-> FALSE,
                          lines |-> [p \in Product |-> -call[r].change[p]]]]
          BY <3>3 DEF CommitCreate
        <4>3. takenOf' = [takenOf EXCEPT ![o] = takenOf'[o]] /\ takenOf[o] = Book!Nothing
          BY <4>1, <4>2 DEF IInv, TypeOK, AbsentRows, NoLines, Book!Nothing
        <4>4. \A p \in Product : takenOf'[o][p] = -call[r].change[p]
          BY <4>1, <4>2 DEF IInv, TypeOK
        <4>5. \A p \in Product : takenOf'[o][p] \in 0..stockOf[p]
          <5>1. \A p \in Product : call[r].change[p] <= 0
            BY <3>3 DEF CommitCreate, Ready, IInv, OrderInHand
          <5>2. QED BY <2>0, <3>1, <4>4, <5>1
        <4>6. stockOf' = [p \in Product |-> stockOf[p] - takenOf'[o][p]]
          <5>1. \A p \in Product : product'[p].stock = product[p].stock - takenOf'[o][p]
            <6>1. ASSUME NEW p \in Product
                  PROVE  product'[p].stock = product[p].stock - takenOf'[o][p]
              <7> HIDE DEF takenOf, stockOf, o
              <7>1. takenOf'[o][p] = -call[r].change[p]
                BY <4>4
              <7>2. QED BY <2>0, <3>1, <7>1
            <6>2. QED BY <6>1
          <5>2. QED BY <5>1
        <4>7. QED BY <4>1, <4>3, <4>5, <4>6 DEF Book!Place, Book!Next
      <3>4. CASE CommitStatus(r) \/ CommitDelete(r)
        <4> DEFINE o == call[r].order
        <4>1. o \in Order /\ call[r].change \in {NoLines, order[o].lines}
          BY <3>4 DEF CommitStatus, CommitDelete, Ready, IInv, OrderInHand
        <4>2. \A z \in Order : order'[z].lines = order[z].lines
          <5>1. ~(call[r].op = "create")
            BY <3>4 DEF CommitStatus, CommitDelete, Ready
          <5>2. QED BY <3>4, <5>1, CommitRows
        <4>3. takenOf' = takenOf
          BY <4>2
        <4>4. CASE call[r].change = NoLines
          BY <2>0, <3>1, <4>3, <4>4 DEF NoLines
        <4>5. CASE call[r].change = order[o].lines
          <5>1. stockOf' = [p \in Product |-> stockOf[p] + takenOf[o][p]]
            BY <3>1, <4>1, <4>5
          <5>2. QED BY <4>1, <4>3, <5>1 DEF Book!PutBack, Book!Next
        <4>6. QED BY <4>1, <4>4, <4>5
      <3>5. QED BY <2>2, <3>2, <3>3, <3>4
    <2>3. ASSUME ~\E r \in Request :
                    CommitAdjust(r) \/ CommitCreate(r) \/ CommitStatus(r) \/ CommitDelete(r),
                 ~\E p \in Product, s \in 0..MaxStock : CreateProduct(p, s)
          PROVE  stockOf' = stockOf /\ takenOf' = takenOf
      <3>1. \A p \in Product : product'[p].stock = product[p].stock
        BY <2>3, OtherStock
      <3>2. order' = order
        BY <2>3, OtherRows
      <3>3. QED BY <3>1, <3>2
    <2>4. QED BY <2>1, <2>2, <2>3 DEF Book!Next
  <1>3. QED BY <1>1, <1>2, Invariance, PTL DEF Spec, StockIsAtomic, Book!Spec
===============================================================================
