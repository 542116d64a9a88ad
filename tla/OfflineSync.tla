------------------------------ MODULE OfflineSync ------------------------------
(***************************************************************************)
(* One desktop that writes offline and syncs: the local repositories and   *)
(* the push queue (electron/db), the sync engine (electron/sync.js and     *)
(* frontend/src/sync), the network, and the cloud's push and pull handlers *)
(* (backend/sync.py, backend/pull.py) beside the cloud's other users.      *)
(*                                                                         *)
(* There is one product, created on this device and synced before; every   *)
(* order has one line.  An order and its item are keyed by the order, a    *)
(* stock movement by its position in the queue: a fresh client_id.         *)
(* A transaction of the server reads rows and later writes back what it    *)
(* made of them: `seen` is what it has read, and the step that serves a    *)
(* push, or commits another user's request, is its commit.                 *)
(***************************************************************************)
EXTENDS Integers, FiniteSets, Sequences

CONSTANTS
    Order,      \* client ids of the orders created on this device
    Opening,    \* the stock both sides agree on at the start
    MaxQty,     \* largest line quantity or adjustment
    BatchSize,  \* operations per push; 200 in the code
    MaxOps,     \* bound on the queue
    MaxOthers,  \* bound on the changes other users make in the cloud
    MaxLate,    \* bound on abandoned requests the server has still to process
    CommitFails \* whether the server may stop between an answer and its commit

ASSUME SyncAssumption ==
    /\ Opening \in Nat /\ MaxOps \in Nat /\ MaxOthers \in Nat /\ MaxLate \in Nat
    /\ MaxQty \in Nat \ {0} /\ BatchSize \in Nat \ {0}
    /\ Order \cap {"none", "stock"} = {} /\ CommitFails \in BOOLEAN

VARIABLES
    local,         \* SQLite mirror: order statuses, quantities, stock
    queue,         \* SQLite sync_queue, resolved rows included
    step,          \* renderer: idle, push, replied, pull or ingest
    needFullPull,  \* renderer
    wire,          \* push requests the server has not done with, and what they saw
    reply,         \* the push summary on its way to the renderer
    payload,       \* the pull payload on its way to the renderer
    cloud,         \* orders, items, movements, stock; rows no pull has read
    rest,          \* another user's request under way, and what it saw
    others,        \* history: what other users changed in the cloud
    effect,        \* history: how often each operation was applied
    lost,          \* history: changes of stock that were overwritten unseen
    overtaken      \* history: orders whose status was overwritten unseen

device == <<local, queue>>
net == <<step, needFullPull, wire, reply, payload>>
past == <<others, effect, lost, overtaken>>
server == <<cloud, rest, past>>
vars == <<device, net, server>>

-------------------------------------------------------------------------------
Status == {"pending", "confirmed", "shipped", "delivered", "cancelled"}

ALLOWED_ORDER_TRANSITIONS ==
    [pending   |-> {"confirmed", "cancelled"},
     confirmed |-> {"shipped", "cancelled"},
     shipped   |-> {"delivered"},
     delivered |-> {},
     cancelled |-> {}]

Legal(from, to) == from \in Status /\ to \in ALLOWED_ORDER_TRANSITIONS[from]

NoCause == [reason |-> "none", status |-> "none", stock |-> 0]

\* A queue row.  `to` is the status an order operation carries, `change` the
\* signed change of a movement.
Op(entity, operation, o, to, change) ==
    [entity |-> entity, operation |-> operation, order |-> o, to |-> to,
     change |-> change, state |-> "pending", cause |-> NoCause]

Client(i) ==
    <<queue[i].entity, IF queue[i].entity = "stock_movement" THEN i ELSE queue[i].order>>

Rows == Order \cup {"stock"}

NoOrders == [o \in Order |-> "absent"]

NoReply == [ids |-> {}, conflicts |-> {}]

NoPayload == [rows |-> {}, full |-> FALSE, order |-> NoOrders, item |-> {},
              move |-> {}, stock |-> 0]

NoRest == [order |-> "none", from |-> "none", to |-> "none", change |-> 0, stock |-> 0]

Init ==
    /\ local = [order |-> NoOrders, qty |-> [o \in Order |-> 0],
                stock |-> Opening, corrected |-> FALSE]
    /\ queue = <<>>
    /\ step = "idle" /\ needFullPull = FALSE
    /\ wire = {}
    /\ reply = NoReply
    /\ payload = NoPayload
    /\ cloud = [order |-> NoOrders, item |-> {}, move |-> {},
                stock |-> Opening, changed |-> {}]
    /\ rest = NoRest
    /\ others = [changes |-> 0, stock |-> 0]
    /\ effect = [i \in 1..MaxOps |-> 0]
    /\ lost = 0 /\ overtaken = {}

-------------------------------------------------------------------------------
(* Local writes: the row and its queue entries *)

Enqueue(ops) ==
    /\ Len(queue) + Len(ops) <= MaxOps
    /\ queue' = queue \o ops

\* _adjustInline: a change that would drive local stock negative is skipped,
\* movement and all.
_adjustInline(change, o) ==
    IF local.stock + change < 0
      THEN [stock |-> local.stock, ops |-> <<>>]
      ELSE [stock |-> local.stock + change,
            ops |-> <<Op("stock_movement", "create", o, "none", change)>>]

\* OrderRepository.create: item, movement and order, in one transaction.
CreateOrder(o, q) ==
    /\ local.order[o] = "absent"
    /\ LET deducted == _adjustInline(-q, o) IN
         /\ Enqueue(<<Op("order_item", "create", o, "none", 0)>> \o deducted.ops
                      \o <<Op("order", "create", o, "pending", 0)>>)
         /\ local' = [local EXCEPT !.order[o] = "pending", !.qty[o] = q,
                                   !.stock = deducted.stock]
    /\ UNCHANGED <<net, server>>

\* OrderRepository.setStatus: the row, the operation, then the restore.
setStatus(o, s) ==
    LET restored == IF s = "cancelled" /\ local.order[o] # "cancelled"
                      THEN _adjustInline(local.qty[o], o)
                      ELSE [stock |-> local.stock, ops |-> <<>>]
    IN [local |-> [local EXCEPT !.order[o] = s, !.stock = restored.stock],
        ops |-> <<Op("order", "update", o, s, 0)>> \o restored.ops]

\* The pages offer the legal next statuses of the local row.
SetStatus(o, s) ==
    /\ Legal(local.order[o], s)
    /\ Enqueue(setStatus(o, s).ops)
    /\ local' = setStatus(o, s).local
    /\ UNCHANGED <<net, server>>

AdjustStock(d) ==
    /\ local.stock + d >= 0
    /\ Enqueue(_adjustInline(d, "none").ops)
    /\ local' = [local EXCEPT !.stock = @ + d]
    /\ UNCHANGED <<net, server>>

-------------------------------------------------------------------------------
(* The sync cycle: push, then pull *)

InState(s) == {i \in DOMAIN queue : queue[i].state = s}

\* pending().slice(0, 200): the oldest pending operations.  (No operation the
\* repositories enqueue is ever answered `failed`, so retryFailed has no part.)
Batch == {i \in InState("pending") :
            Cardinality({j \in InState("pending") : j < i}) < BatchSize}

\* What a transaction finds in the tables when it looks now.
Sight == [order |-> cloud.order, item |-> cloud.item, move |-> cloud.move,
          stock |-> cloud.stock]

\* The server takes the request up at once; a row it reads later is Look.
StartCycle ==
    /\ step = "idle"
    /\ IF Batch = {}
         THEN step' = "pull" /\ UNCHANGED wire
         ELSE /\ step' = "push"
              /\ wire' = wire \cup {[ops |-> Batch, live |-> TRUE, seen |-> Sight]}
    /\ UNCHANGED <<device, needFullPull, reply, payload, server>>

\* A push reads orders first, then items, then movements and stock: what it has
\* still to read is read later.
StillToRead(w) ==
    {Sight,
     [Sight EXCEPT !.order = w.seen.order],
     [Sight EXCEPT !.order = w.seen.order, !.item = w.seen.item]}

Look(w, seen) ==
    /\ w \in wire
    /\ seen # w.seen
    /\ wire' = (wire \ {w}) \cup {[w EXCEPT !.seen = seen]}
    /\ UNCHANGED <<device, step, needFullPull, reply, payload, server>>

\* What the server holds while it applies a batch, operation by operation: the
\* tables as they will be, and as this transaction sees them.
Applying(seen) ==
    [cloud |-> cloud, seen |-> seen, lost |-> lost, overtaken |-> overtaken,
     ids |-> {}, conflicts |-> {}, done |-> {}]

Skip(a, i) == [a EXCEPT !.ids = @ \cup {Client(i)}]

Applied(a, i) == [Skip(a, i) EXCEPT !.done = @ \cup {i}]

\* Mutant of WriteOrder: a cancellation restores the stock itself.
RestoresInline(a, i) ==
    LET o == queue[i].order
        back == IF queue[i].to = "cancelled" THEN local.qty[o] ELSE 0
    IN Applied([a EXCEPT !.cloud.order[o] = queue[i].to, !.cloud.changed = @ \cup {o, "stock"},
                         !.cloud.stock = @ + back,
                         !.seen.order[o] = queue[i].to, !.seen.stock = @ + back], i)

\* The row is written over whatever it has become since it was read.
WriteOrder(a, i) ==
    LET o == queue[i].order
        unseen == IF a.seen.order[o] = a.cloud.order[o] THEN {} ELSE {o}
    IN Applied([a EXCEPT !.cloud.order[o] = queue[i].to, !.cloud.changed = @ \cup {o},
                         !.seen.order[o] = queue[i].to,
                         !.overtaken = @ \cup unseen], i)

WriteItem(a, i) ==
    LET o == queue[i].order
    IN Applied([a EXCEPT !.cloud.item = @ \cup {o}, !.seen.item = @ \cup {o}], i)

WriteStock(a, i) ==
    LET level == a.seen.stock + queue[i].change
    IN Applied([a EXCEPT !.cloud.move = @ \cup {i}, !.cloud.stock = level,
                         !.cloud.changed = @ \cup {"stock"},
                         !.seen.move = @ \cup {i}, !.seen.stock = level,
                         !.lost = @ + a.cloud.stock - a.seen.stock], i)

\* A later conflict of the same client_id replaces an earlier one.
Conflict(a, i, reason) ==
    [a EXCEPT !.conflicts = {c \in @ : c.client # Client(i)} \cup
        {[client |-> Client(i),
          cause |-> [reason |-> reason,
                     status |-> IF reason = "invalid_transition"
                                  THEN a.seen.order[queue[i].order] ELSE "none",
                     stock |-> IF reason = "insufficient_stock" THEN a.seen.stock ELSE 0]]}]

\* Mutant of _apply_order: a status is written without the transition check.
TrustsClient(a, i) ==
    LET op == queue[i] IN
    IF op.operation = "update" /\ a.seen.order[op.order] = "absent"
      THEN Conflict(a, i, "not_found")
    ELSE IF op.operation = "create" /\ a.seen.order[op.order] # "absent"
      THEN Skip(a, i)
    ELSE WriteOrder(a, i)

_apply_order(a, i) ==
    LET op == queue[i]
        current == a.seen.order[op.order]
    IN IF op.operation = "create"
         THEN IF current = "absent" THEN WriteOrder(a, i) ELSE Skip(a, i)
       ELSE IF current = "absent" THEN Conflict(a, i, "not_found")
       ELSE IF op.to = current THEN Skip(a, i)
       ELSE IF Legal(current, op.to) THEN WriteOrder(a, i)
       ELSE Conflict(a, i, "invalid_transition")

_apply_order_item(a, i) ==
    LET o == queue[i].order IN
    IF o \in a.seen.item THEN Skip(a, i)
    ELSE IF a.seen.order[o] = "absent" THEN Conflict(a, i, "not_found")
    ELSE WriteItem(a, i)

\* Mutant of _apply_stock_movement: stock may go negative.
Unvalidated(a, i) == IF i \in a.seen.move THEN Skip(a, i) ELSE WriteStock(a, i)

_apply_stock_movement(a, i) ==
    IF i \in a.seen.move THEN Skip(a, i)
    ELSE IF a.seen.stock + queue[i].change < 0 THEN Conflict(a, i, "insufficient_stock")
    ELSE WriteStock(a, i)

Apply(a, i) ==
    IF queue[i].entity = "order" THEN _apply_order(a, i)
    ELSE IF queue[i].entity = "order_item" THEN _apply_order_item(a, i)
    ELSE _apply_stock_movement(a, i)

\* The operations of one kind, in queue order.
Pass(kind, from, ops) ==
    LET run[n \in 0..Len(queue)] ==
          IF n = 0 THEN from
          ELSE IF n \in ops /\ queue[n].entity = kind THEN Apply(run[n - 1], n)
          ELSE run[n - 1]
    IN run[Len(queue)]

\* PRIORITY: orders first, then items, then movements.
apply_push(ops, seen) ==
    LET ordered == Pass("order", Applying(seen), ops)
        itemised == Pass("order_item", ordered, ops)
    IN Pass("stock_movement", itemised, ops)

\* The row of an operation is in the cloud.
InCloud(i) ==
    IF queue[i].entity = "order" THEN cloud.order[queue[i].order] # "absent"
    ELSE IF queue[i].entity = "order_item" THEN queue[i].order \in cloud.item
    ELSE i \in cloud.move

\* Mutant of Unique: a client_id is looked up and nothing more.
LookedUp(a) == TRUE

\* client_id is unique: a row that another push has committed since the look-up
\* fails the whole batch (LoseRequest).
Unique(a) == \A i \in a.done : queue[i].operation = "create" => ~InCloud(i)

\* The server commits a push and answers; nobody hears of it unless the renderer
\* is still waiting for this very request.
ServePush(w) ==
    /\ w \in wire
    /\ LET a == apply_push(w.ops, w.seen) IN
         /\ Unique(a)
         /\ cloud' = a.cloud /\ lost' = a.lost /\ overtaken' = a.overtaken
         /\ effect' = [i \in DOMAIN effect |-> effect[i] + IF i \in a.done THEN 1 ELSE 0]
         /\ IF w.live
              THEN step' = "replied" /\ reply' = [ids |-> a.ids, conflicts |-> a.conflicts]
              ELSE UNCHANGED <<step, reply>>
    /\ wire' = wire \ {w}
    /\ UNCHANGED <<device, needFullPull, payload, rest, others>>

\* get_db commits after the response: FastAPI 0.104 runs the code behind a
\* dependency's yield once the answer is out.  The server may stop in between.
AnswerUncommitted(w) ==
    /\ CommitFails
    /\ w \in wire /\ w.live
    /\ LET a == apply_push(w.ops, w.seen) IN
         /\ Unique(a)
         /\ reply' = [ids |-> a.ids, conflicts |-> a.conflicts]
    /\ step' = "replied"
    /\ wire' = wire \ {w}
    /\ UNCHANGED <<device, needFullPull, payload, server>>

\* Mutant of markPushOutcome: what is not a conflict is synced.
MarksTheRest ==
    /\ step = "replied"
    /\ queue' = [i \in DOMAIN queue |->
         LET found == {c \in reply.conflicts : c.client = Client(i)} IN
         IF queue[i].state # "pending" THEN queue[i]
         ELSE IF found # {}
           THEN [queue[i] EXCEPT !.state = "conflict", !.cause = (CHOOSE c \in found : TRUE).cause]
         ELSE [queue[i] EXCEPT !.state = "synced"]]
    /\ step' = "pull" /\ reply' = NoReply
    /\ UNCHANGED <<local, needFullPull, wire, payload, server>>

\* markPushOutcome goes through the operations pending now, by client_id.
markPushOutcome ==
    /\ step = "replied"
    /\ queue' = [i \in DOMAIN queue |->
         LET found == {c \in reply.conflicts : c.client = Client(i)} IN
         IF queue[i].state # "pending" THEN queue[i]
         ELSE IF found # {}
           THEN [queue[i] EXCEPT !.state = "conflict", !.cause = (CHOOSE c \in found : TRUE).cause]
         ELSE IF Client(i) \in reply.ids THEN [queue[i] EXCEPT !.state = "synced"]
         ELSE queue[i]]
    /\ step' = "pull" /\ reply' = NoReply
    /\ UNCHANGED <<local, needFullPull, wire, payload, server>>

\* build_pull_payload: every row, or those changed since the cursor and, as the
\* floor is a second earlier, some that were pulled before.  A delta's items and
\* movements are left out: the mirror has no state for them.
ServePull ==
    /\ step = "pull"
    /\ step' = "ingest"
    /\ \E again \in SUBSET Rows :
         LET rows == IF needFullPull THEN Rows ELSE cloud.changed \cup again IN
         payload' = [rows |-> rows, full |-> needFullPull,
                     order |-> [o \in Order |-> IF o \in rows THEN cloud.order[o] ELSE "absent"],
                     item |-> IF needFullPull THEN cloud.item ELSE {},
                     move |-> IF needFullPull THEN cloud.move ELSE {},
                     stock |-> IF "stock" \in rows THEN cloud.stock ELSE 0]
    /\ cloud' = [cloud EXCEPT !.changed = {}]
    /\ UNCHANGED <<device, needFullPull, wire, reply, rest, past>>

\* Rows the mirror holds and the payload does not: created here and not in the
\* cloud, or movements that only record a local correction.
LocalOnly ==
    \/ local.corrected
    \/ \E o \in Order : local.order[o] # "absent" /\
         (payload.order[o] = "absent" \/ o \notin payload.item)
    \/ \E i \in DOMAIN queue :
         queue[i].entity = "stock_movement" /\ i \notin payload.move

\* applyPull in one SQLite transaction: upsert, verify the counts of a full
\* pull, store the cursor.
applyPull ==
    /\ step = "ingest" /\ ~(payload.full /\ LocalOnly)
    /\ local' = [local EXCEPT
         !.order = [o \in Order |-> IF o \in payload.rows /\ payload.order[o] # "absent"
                                      THEN payload.order[o] ELSE @[o]],
         !.stock = IF "stock" \in payload.rows THEN payload.stock ELSE @]
    /\ step' = "idle" /\ needFullPull' = FALSE /\ payload' = NoPayload
    /\ UNCHANGED <<queue, wire, reply, server>>

\* Mutant of Unread: the cursor moves on although the ingest failed.
CursorMoved == cloud

\* The cursor stays where it was: the rows are still to be pulled.
Unread == IF step = "ingest" THEN [cloud EXCEPT !.changed = @ \cup payload.rows] ELSE cloud

Abandoned == {[w EXCEPT !.live = FALSE] : w \in wire}

\* Mutant of Catch: the running flag is not cleared when the cycle fails.
KeepsRunning ==
    /\ needFullPull' = TRUE
    /\ wire' = Abandoned /\ cloud' = Unread
    /\ reply' = NoReply /\ payload' = NoPayload
    /\ UNCHANGED <<device, step, rest, past>>

\* The cycle's catch block: a timeout, a dropped connection, a failed ingest.
Catch ==
    /\ step' = "idle" /\ needFullPull' = TRUE
    /\ wire' = Abandoned /\ cloud' = Unread
    /\ reply' = NoReply /\ payload' = NoPayload
    /\ UNCHANGED <<device, rest, past>>

RejectPull == step = "ingest" /\ payload.full /\ LocalOnly /\ Catch

GiveUp == step # "idle" /\ Cardinality(wire) <= MaxLate /\ Catch

\* axios stops waiting after 30 seconds.
TimeOut == step = "push" /\ GiveUp

\* A request that never reaches the server, or whose transaction is rolled back.
LoseRequest(w) ==
    /\ w \in wire
    /\ wire' = wire \ {w}
    /\ UNCHANGED <<device, step, needFullPull, reply, payload, server>>

\* The application stops and starts again: only what SQLite holds survives.
Forget ==
    /\ Cardinality(wire) <= MaxLate
    /\ step' = "idle" /\ needFullPull' = FALSE
    /\ wire' = Abandoned /\ cloud' = Unread
    /\ reply' = NoReply /\ payload' = NoPayload
    /\ UNCHANGED <<rest, past>>

Restart == Forget /\ UNCHANGED device

\* setStatus is not one transaction: the application can stop after the row is
\* written, or after the operation is queued but before stock is restored.
CrashInSetStatus(o, s, queued) ==
    /\ Legal(local.order[o], s)
    /\ queued => s = "cancelled"
    /\ local' = [local EXCEPT !.order[o] = s]
    /\ IF queued THEN Enqueue(<<Op("order", "update", o, s, 0)>>) ELSE UNCHANGED queue
    /\ Forget

-------------------------------------------------------------------------------
(* The Sync Center: what the user can do about a parked conflict *)

Resolved(q, i) == [q EXCEPT ![i].state = "resolved"]

Parked(i, reason) ==
    i \in InState("conflict") /\ queue[i].cause.reason = reason

requeue(i) ==
    /\ Parked(i, "insufficient_stock")
    /\ queue' = [queue EXCEPT ![i].state = "pending", ![i].cause = NoCause]
    /\ UNCHANGED <<local, net, server>>

\* Local stock is set to the level the conflict recorded, with a movement that
\* is never queued.
DiscardMovement(i) ==
    /\ Parked(i, "insufficient_stock")
    /\ local' = [local EXCEPT !.stock = queue[i].cause.stock,
                              !.corrected = @ \/ local.stock # queue[i].cause.stock]
    /\ queue' = Resolved(queue, i)
    /\ UNCHANGED <<net, server>>

\* "Keep cloud" sets the cloud's status; otherwise a legal next one.
ResolveTransition(i, s) ==
    /\ Parked(i, "invalid_transition")
    /\ s = queue[i].cause.status \/ Legal(queue[i].cause.status, s)
    /\ LET write == setStatus(queue[i].order, s) IN
         /\ Len(queue) + Len(write.ops) <= MaxOps
         /\ local' = write.local
         /\ queue' = Resolved(queue, i) \o write.ops
    /\ UNCHANGED <<net, server>>

DiscardUnfounded(i) ==
    /\ Parked(i, "not_found")
    /\ queue' = Resolved(queue, i)
    /\ UNCHANGED <<local, net, server>>

-------------------------------------------------------------------------------
(* Other users of the cloud, one request at a time: CloudStock has what they *)
(* do to each other.  A push neither checks nor advances the product's       *)
(* version, so the guard on it does not see one.                             *)

Visit(request) ==
    /\ rest = NoRest
    /\ others.changes < MaxOthers
    /\ rest' = request
    /\ others' = [others EXCEPT !.changes = @ + 1]
    /\ UNCHANGED <<device, net, cloud, effect, lost, overtaken>>

\* The order is loaded with its items, the transition checked.
CloudStatus(o, s) ==
    /\ Legal(cloud.order[o], s)
    /\ LET back == IF s = "cancelled" /\ o \in cloud.item THEN local.qty[o] ELSE 0 IN
         Visit([order |-> o, from |-> cloud.order[o], to |-> s, change |-> back,
                stock |-> cloud.stock])

CloudAdjust(d) ==
    /\ cloud.stock + d >= 0
    /\ Visit([order |-> "none", from |-> "none", to |-> "none", change |-> d,
              stock |-> cloud.stock])

\* The products of an order are loaded behind it.
LoadProduct ==
    /\ rest.order # "none" /\ rest.change # 0 /\ rest.stock # cloud.stock
    /\ rest' = [rest EXCEPT !.stock = cloud.stock]
    /\ UNCHANGED <<device, net, cloud, past>>

\* The status is written without a guard, stock as the level made of the one read.
CommitRest ==
    /\ rest # NoRest
    /\ LET level == IF rest.change = 0 THEN cloud.stock ELSE rest.stock + rest.change
           rows == (IF rest.order = "none" THEN {} ELSE {rest.order})
                     \cup (IF rest.change = 0 THEN {} ELSE {"stock"})
           orders == {o \in Order : o = rest.order}
       IN /\ cloud' = [cloud EXCEPT
               !.order = [o \in Order |-> IF o \in orders THEN rest.to ELSE @[o]],
               !.stock = level, !.changed = @ \cup rows]
          /\ others' = [others EXCEPT !.stock = @ + rest.change]
          /\ lost' = lost + IF rest.change = 0 THEN 0 ELSE cloud.stock - rest.stock
          /\ overtaken' = overtaken \cup {o \in orders : cloud.order[o] # rest.from}
    /\ rest' = NoRest
    /\ UNCHANGED <<device, net, effect>>

\* Refused (409), or rolled back.
RefuseRest ==
    /\ rest # NoRest
    /\ rest' = NoRest
    /\ UNCHANGED <<device, net, cloud, past>>

Changes == (-MaxQty .. MaxQty) \ {0}

Next ==
    \/ \E o \in Order, q \in 1..MaxQty : CreateOrder(o, q)
    \/ \E o \in Order, s \in Status :
         \/ SetStatus(o, s) \/ CloudStatus(o, s)
         \/ \E queued \in BOOLEAN : CrashInSetStatus(o, s, queued)
    \/ \E d \in Changes : AdjustStock(d) \/ CloudAdjust(d)
    \/ StartCycle \/ markPushOutcome \/ ServePull \/ applyPull
    \/ RejectPull \/ GiveUp \/ Restart
    \/ \E w \in wire :
         \/ ServePush(w) \/ AnswerUncommitted(w) \/ LoseRequest(w)
         \/ \E seen \in StillToRead(w) : Look(w, seen)
    \/ LoadProduct \/ CommitRest \/ RefuseRest
    \/ \E i \in DOMAIN queue :
         \/ requeue(i) \/ DiscardMovement(i) \/ DiscardUnfounded(i)
         \/ \E s \in Status : ResolveTransition(i, s)

Spec == Init /\ [][Next]_vars

\* The renderer's timers and handlers run; the network lets a request through
\* now and again.  Nothing obliges users to act.
FairSpec ==
    /\ Spec
    /\ WF_vars(StartCycle) /\ WF_vars(RejectPull) /\ WF_vars(TimeOut)
    /\ SF_vars(\E w \in wire : w.live /\ ServePush(w))
    /\ SF_vars(markPushOutcome) /\ SF_vars(ServePull) /\ SF_vars(applyPull)

-------------------------------------------------------------------------------
(* Properties *)

OrderStatus == Status \cup {"absent"}

Cause == [reason : {"none", "not_found", "invalid_transition", "insufficient_stock"},
          status : Status \cup {"none"}, stock : Nat]

QueueRow ==
    [entity : {"order", "order_item", "stock_movement"}, operation : {"create", "update"},
     order : Order \cup {"none"}, to : Status \cup {"none"}, change : Int,
     state : {"pending", "synced", "conflict", "resolved"}, cause : Cause]

TypeOK ==
    /\ local.order \in [Order -> OrderStatus] /\ local.stock \in Nat
    /\ queue \in Seq(QueueRow) /\ Len(queue) <= MaxOps
    /\ step \in {"idle", "push", "replied", "pull", "ingest"}
    /\ \A w \in wire : w.ops \subseteq DOMAIN queue
    /\ payload.rows \subseteq Rows /\ cloud.changed \subseteq Rows
    /\ cloud.order \in [Order -> OrderStatus]
    /\ cloud.item \subseteq Order /\ cloud.move \subseteq DOMAIN queue
    /\ cloud.stock \in Nat /\ overtaken \subseteq Order

IsUpdate(i) == queue[i].entity = "order" /\ queue[i].operation = "update"

\* ADR-002, rule 4: whatever is lost, repeated or late, a created row is applied
\* at most once, and so is a status unless its order was overtaken.
EffectAtMostOnce ==
    \A i \in DOMAIN effect :
        effect[i] > 1 => IsUpdate(i) /\ queue[i].order \in overtaken

Total(q, moves) ==
    LET sum[n \in 0..Len(q)] ==
          IF n = 0 THEN 0 ELSE sum[n - 1] + IF n \in moves THEN q[n].change ELSE 0
    IN sum[Len(q)]

\* Stock syncs as operations: the cloud's stock is the opening level plus each
\* accepted movement once, plus what other users did, less nothing but the
\* changes that a transaction overwrote with a level it had read before them.
StockIsLedger == cloud.stock = Opening + others.stock + Total(queue, cloud.move) - lost

\* A row this device created and shows as synced is in the cloud, provided the
\* server commits what it answers.
CreatesDelivered ==
    \A i \in InState("synced") : queue[i].operation = "create" => InCloud(i)

Quiet == step = "idle" /\ cloud.changed = {}

\* When every operation is synced and every change pulled, the stock of the
\* mirror is the stock of the cloud.
StockConverges ==
    Quiet /\ InState("synced") = DOMAIN queue => local.stock = cloud.stock

\* The statuses a legal history can reach; one push may make several moves.
Later ==
    [absent    |-> Status,
     pending   |-> Status \ {"pending"},
     confirmed |-> {"shipped", "delivered", "cancelled"},
     shipped   |-> {"delivered"},
     delivered |-> {},
     cancelled |-> {}]

\* The statuses of an order that the transactions a step ends have read.
Read(o) ==
    {w.seen.order[o] : w \in wire \ wire'}
      \cup IF rest.order = o /\ rest' = NoRest THEN {rest.from} ELSE {}

\* The server never trusts the client: whatever is stale, repeated or late, an
\* order in the cloud only moves forward along the live route's machine, at
\* worst from a status that a transaction read before another one moved it.
CloudOrdersMoveForward ==
    [][\A o \in Order :
        \/ cloud'.order[o] = cloud.order[o]
        \/ cloud'.order[o] \in Later[cloud.order[o]]
        \/ \E from \in Read(o) : from # cloud.order[o] /\ cloud'.order[o] \in Later[from]]_vars

\* Whatever the network loses, a pending operation is in the end answered.
QueueDrains ==
    \A i \in 1..MaxOps : []<>(i \notin InState("pending"))
================================================================================
