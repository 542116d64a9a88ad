--------------------------------- MODULE Screens ---------------------------------
(* The desktop renderer's pages and the two id spaces behind them.  A row has  *)
(* an id in the cloud and another in the SQLite mirror; a page shows ids that  *)
(* it read from one side, and a repository sends an id to the side that it     *)
(* chose when the page was last rendered (frontend repositories/*.ts).  The    *)
(* gate between the sides (repositories/localMode.ts) may turn while a page is *)
(* open, while a read is under way and while a write is under way.             *)
EXTENDS Integers, Sequences, FiniteSets, SequencesExt

CONSTANTS
    Customer, Product, Order,   \* rows, by the identity both sides agree on
    Opening,                    \* the cloud's tables at the start
    Foreign,                    \* an id that is not a row of this business
    Drafts,                     \* what the assistant drafts: sets of products
    MaxReads,                   \* bound: reads that a page is made to start
    MaxWrites,                  \* bound: writes under way at a time
    MaxVisits,                  \* bound: pages that are opened from the menu
    MaxFlips                    \* bound: turns of the gate

Row == Customer \cup Product \cup Order
Kind == {"customer", "product", "order"}
Side == {"cloud", "local"}
Of(k) == IF k = "customer" THEN Customer ELSE IF k = "product" THEN Product ELSE Order

ASSUME ScreensAssumption ==
    /\ Opening \in [Kind -> Seq(Row \cup {Foreign})] /\ Foreign \notin Row
    /\ \A j, k \in Kind : j # k => Of(j) \cap Of(k) = {}
    /\ MaxReads \in Nat /\ MaxWrites \in Nat 
    /\ Drafts \subseteq SUBSET Product /\ MaxVisits \in Nat /\ MaxFlips \in Nat

VARIABLES
    ids,      \* ids[side][kind]: the rows of a table, in the order of their ids
    queue,    \* rows created on the device, to be pushed
    pulled,   \* the main process: the mirror was populated
    ready,    \* localMirrorReady, the gate
    flips,    \* history: how often the gate turned
    page,     \* the page that is mounted
    reads,    \* its reads under way
    writes,   \* writes under way, of this page or of one that was left
    made,     \* history: the orders created, for what was picked
    astray    \* history: writes that went elsewhere although the gate had not turned

vars == <<ids, queue, pulled, ready, flips, page, reads, writes, made, astray>>

Names == {"home", "products", "inventory", "customers", "orders", "details", "profile", "create"}
Ref == [kind: Kind, id: Nat \ {0}, row: Row]
NoRef == [kind |-> "none", id |-> 0, row |-> Foreign]

\* local and at: the repository's isLocal, and the turn of the gate at the last render.
\* since: the turn at which the read of the shown rows began.
Blank == [name |-> "home", visit |-> 0, rows |-> {}, since |-> 0, local |-> FALSE, at |-> 0, opened |-> 0,
          watching |-> FALSE, latest |-> [k \in Kind |-> 0],
          target |-> NoRef, targetAt |-> 0, customer |-> NoRef, lines |-> {}, draft |-> {},
          step |-> "form", stuck |-> FALSE, made |-> NoRef, madeAt |-> 0, saved |-> FALSE]

Page == [name: Names, visit: 0..MaxVisits, rows: SUBSET Ref, since: 0..MaxFlips, local: BOOLEAN, at: 0..MaxFlips,
         opened: 0..MaxFlips, watching: BOOLEAN,
         latest: [Kind -> 0..MaxReads + 2],
         target: Ref \cup {NoRef}, targetAt: 0..MaxFlips, customer: Ref \cup {NoRef},
         lines: SUBSET Ref, draft: SUBSET Ref, step: {"form", "payment", "success", "failure"},
         stuck: BOOLEAN, made: Ref \cup {NoRef}, madeAt: 0..MaxFlips, saved: BOOLEAN]

Read == [kind: Kind, n: 1..MaxReads + 2, side: Side, since: 0..MaxFlips]
Verb == {"edit", "delete", "adjust", "status", "remove", "update", "drop", "customer", "order"}
Write == [verb: Verb, side: Side, picks: SUBSET Ref, calm: BOOLEAN, at: 0..MaxFlips, heard: BOOLEAN]

TypeOK ==
    /\ ids \in [Side -> [Kind -> Seq(Row \cup {Foreign})]]
    /\ queue \in Seq(Row)
    /\ pulled \in BOOLEAN /\ ready \in BOOLEAN /\ flips \in 0..MaxFlips
    /\ page \in Page
    /\ reads \subseteq Read
    /\ writes \subseteq Write
    /\ made \subseteq [order: Order, side: Side, picked: SUBSET Row, refers: SUBSET Row, calm: BOOLEAN]
    /\ astray \subseteq Verb

Init ==
    /\ ids = [s \in Side |-> IF s = "cloud" THEN Opening ELSE [k \in Kind |-> <<>>]]
    /\ queue = <<>>
    /\ pulled = FALSE /\ ready = FALSE /\ flips = 0
    /\ page = Blank /\ reads = {} /\ writes = {}
    /\ made = {} /\ astray = {}

-----------------------------------------------------------------------------
(* The two sides.                                                              *)

\* makeProductRepo, makeOrderRepo, ...: the side that takes the calls.
Repo(local) == IF local THEN "local" ELSE "cloud"

\* What an id means on a side: a row of this business, or nothing it can find.
Means(side, kind, id) == IF id \in DOMAIN ids[side][kind] THEN ids[side][kind][id] ELSE Foreign

Hit(side, ref) == Means(side, ref.kind, ref.id)

\* Mutant of Listed: the rows of every business.
ListedForAll(side, kind) ==
    {[kind |-> kind, id |-> i, row |-> ids[side][kind][i]] : i \in DOMAIN ids[side][kind]}

\* The rows of a table as a list shows them.
Listed(side, kind) ==
    {r \in {[kind |-> kind, id |-> i, row |-> ids[side][kind][i]] : i \in DOMAIN ids[side][kind]} :
        r.row # Foreign}

KindOf(row) == CHOOSE k \in Kind : row \in Of(k)
Holds(side, row) == row \in Range(ids[side][KindOf(row)])
Unused(row) == ~Holds("cloud", row) /\ ~Holds("local", row)

\* AUTOINCREMENT on both sides: a new row takes the next id of its table.
Inserted(side, row) == [ids EXCEPT ![side][KindOf(row)] = Append(@, row)]

\* A queued row is pushed; its references travel as client ids or server ids.
Push ==
    /\ queue # <<>>
    /\ ids' = Inserted("cloud", Head(queue))
    /\ queue' = Tail(queue)
    /\ UNCHANGED <<pulled, ready, flips, page, reads, writes, made, astray>>

\* The rows of a table that the mirror does not hold yet, in an order no ORDER BY settles.
Missing(k) == SetToSeqs(Range(ids["cloud"][k]) \ (Range(ids["local"][k]) \cup {Foreign}))

\* A pull is ingested: rows the mirror knows keep their local id.
IngestPull ==
    /\ \E c \in Missing("customer"), p \in Missing("product"), o \in Missing("order") :
         ids' = [ids EXCEPT !["local"]["customer"] = @ \o c, !["local"]["product"] = @ \o p,
                            !["local"]["order"] = @ \o o]
    /\ pulled' = TRUE
    /\ UNCHANGED <<queue, ready, flips, page, reads, writes, made, astray>>

-----------------------------------------------------------------------------
(* Rendering, reading and leaving a page.                                      *)

\* A state update renders the page: its repositories are made anew.
Drawn(p) == [p EXCEPT !.local = ready, !.at = flips]

Shows(name) == page.name = name
ListKind == IF page.name \in {"products", "inventory"} THEN "product"
            ELSE IF page.name \in {"customers", "profile"} THEN "customer" ELSE "order"

\* A read that begins with the gate as it is; the catalogs and a profile always ask the cloud.
Asks(kind, n, side) == [kind |-> kind, n |-> n, side |-> side, since |-> flips]

\* The load of a page's hook, begun once more.
Reload(p, k, side) ==
    /\ page' = [Drawn(p) EXCEPT !.latest[k] = @ + 1]
    /\ reads' = reads \cup {Asks(k, p.latest[k] + 1, side)}

New == [Blank EXCEPT !.visit = page.visit]

\* The page is replaced by another; what it had sent still arrives, unheard.
Mount(name, p, asked) ==
    /\ ~Shows(name)
    /\ page' = [Drawn(p) EXCEPT !.name = name, !.opened = flips,
                                !.latest = [k \in Kind |-> IF \E r \in asked : r.kind = k THEN 1 ELSE 0]]
    /\ reads' = asked
    /\ writes' = {[w EXCEPT !.heard = FALSE] : w \in writes}
    /\ UNCHANGED <<ids, queue, pulled, ready, flips, made, astray>>

\* A page that is opened from the menu.
Visit == [New EXCEPT !.visit = @ + 1]

OpenList(name, k) ==
    /\ page.visit < MaxVisits
    /\ Mount(name, [Visit EXCEPT !.watching = ~ready], {Asks(k, 1, Repo(ready))})

OpenProducts == OpenList("products", "product")
OpenInventory == OpenList("inventory", "product")
OpenCustomers == OpenList("customers", "customer")
OpenOrders == OpenList("orders", "order")

\* Mutant of OpenDetails: an order is always read over HTTP.
OpenDetailsOverHttp(ref, at) ==
    Mount("details", [New EXCEPT !.target = ref, !.targetAt = at], {Asks("order", 1, "cloud")})

\* A row of the orders list, or the order that was just created.
OpenDetails(ref, at) ==
    Mount("details", [New EXCEPT !.target = ref, !.targetAt = at], {Asks("order", 1, Repo(ready))})

OpenOrder(r) == Shows("orders") /\ r \in page.rows /\ OpenDetails(r, page.since)

ViewOrder == Shows("create") /\ page.step = "success" /\ OpenDetails(page.made, page.madeAt)

\* The profile of a listed customer is read from the cloud, whatever its id means there.
OpenProfile(r) ==
    /\ Shows("customers") /\ r \in page.rows
    /\ Mount("profile", [New EXCEPT !.target = r, !.targetAt = page.since], {Asks("customer", 1, "cloud")})

\* The draft of the assistant names rows of the cloud; its products are fetched.
OpenCreate(customer, draft) ==
    /\ customer \in Listed("cloud", "customer") \cup {NoRef}
    /\ {r.row : r \in draft} \in Drafts
    /\ page.visit < MaxVisits
    /\ Mount("create", [Visit EXCEPT !.customer = customer, !.draft = draft],
             {Asks(k, 1, "cloud") : k \in {"customer", "product"}})

\* The sync status arrives; a list that was opened before the gate reads again.
Refresh(ok) ==
    /\ ready' = (ok /\ pulled)
    /\ ready' # ready => flips < MaxFlips
    /\ flips' = IF ready' = ready THEN flips ELSE flips + 1
    /\ IF page.watching /\ ready'
       THEN /\ page' = [page EXCEPT !.watching = FALSE, !.local = TRUE, !.at = flips',
                                    !.latest[ListKind] = @ + 1]
            /\ reads' = reads \cup {[kind |-> ListKind, n |-> page.latest[ListKind] + 1,
                                     side |-> "local", since |-> flips']}
       ELSE UNCHANGED <<page, reads>>
    /\ UNCHANGED <<ids, queue, pulled, writes, made, astray>>

\* Typing in a list's search box.
Search ==
    /\ page.name \in {"products", "inventory", "customers", "orders"}
    /\ page.target = NoRef /\ page.latest[ListKind] < MaxReads
    /\ Reload(page, ListKind, Repo(ready))
    /\ UNCHANGED <<ids, queue, pulled, ready, flips, writes, made, astray>>

-----------------------------------------------------------------------------
(* Answers to reads: none of the lists looks whether a newer read was begun.   *)

\* What a read finds on the side it asks.
Found(r) == Listed(r.side, r.kind)

ListAnswered(r) ==
    /\ r \in reads /\ page.name \in {"products", "inventory", "customers", "orders"}
    /\ page' = [Drawn(page) EXCEPT !.rows = Found(r), !.since = r.since]
    /\ reads' = reads \ {r}
    /\ UNCHANGED <<ids, queue, pulled, ready, flips, writes, made, astray>>

\* The catalogs of customers and of products, each asked once; a search narrows the same rows.
CatalogAnswered(r) ==
    /\ r \in reads /\ Shows("create")
    /\ page' = [Drawn(page) EXCEPT !.rows = {x \in @ : x.kind # r.kind} \cup Found(r)]
    /\ reads' = reads \ {r}
    /\ UNCHANGED <<ids, queue, pulled, ready, flips, writes, made, astray>>

\* The order, or the customer, that the id in the address names.
ViewAnswered(r) ==
    /\ r \in reads /\ page.name \in {"details", "profile"}
    /\ page' = [Drawn(page) EXCEPT !.rows = {x \in Found(r) : x.id = page.target.id},
                                    !.since = r.since]
    /\ reads' = reads \ {r}
    /\ UNCHANGED <<ids, queue, pulled, ready, flips, writes, made, astray>>

ReadFails(r) ==
    /\ r \in reads
    /\ reads' = reads \ {r}
    /\ page' = Drawn(page)
    /\ UNCHANGED <<ids, queue, pulled, ready, flips, writes, made, astray>>

-----------------------------------------------------------------------------
(* Writes of the lists, of the order's page and of the profile.                *)

Idle == \A w \in writes : ~w.heard

\* at: the turn of the gate at which the side was chosen.
Send(verb, side, at, picks, calm) ==
    /\ Cardinality(writes) < MaxWrites
    /\ writes' = writes \cup {[verb |-> verb, side |-> side, at |-> at, picks |-> picks,
                               calm |-> calm, heard |-> TRUE]}
    /\ page' = Drawn(page)
    /\ UNCHANGED <<ids, queue, pulled, ready, flips, reads, made, astray>>

\* openEdit, setDeleting, the adjust dialog: a listed product is kept aside.
Choose(r) ==
    /\ page.name \in {"products", "inventory"} /\ page.target = NoRef
    /\ page.latest[ListKind] < MaxReads
    /\ r \in page.rows
    /\ page' = [Drawn(page) EXCEPT !.target = r, !.targetAt = page.since]
    /\ UNCHANGED <<ids, queue, pulled, ready, flips, reads, writes, made, astray>>

\* Mutant of Chosen: products are written over HTTP in local mode too.
ChosenOverHttp(name, verb) ==
    /\ Shows(name) /\ page.target # NoRef /\ Idle
    /\ Send(verb, "cloud", page.at, {page.target}, page.targetAt = page.at)

\* The chosen row goes to the repository of the last render.
Chosen(name, verb) ==
    /\ Shows(name) /\ page.target # NoRef /\ Idle
    /\ Send(verb, Repo(page.local), page.at, {page.target}, page.targetAt = page.at)

SaveProduct == Chosen("products", "edit")
DeleteProduct == Chosen("products", "delete")
AdjustStock == Chosen("inventory", "adjust")

\* The order's page asks the gate again when a status is set, and never when it deletes.
SetStatus == \E r \in page.rows :
    /\ Shows("details") /\ Idle /\ page.latest["order"] < MaxReads
    /\ Send("status", Repo(ready), flips, {r}, page.since = flips)

RemoveOrder == \E r \in page.rows :
    Shows("details") /\ Idle /\ Send("remove", "cloud", flips, {r}, page.since = flips)

UpdateProfile == \E r \in page.rows :
    /\ Shows("profile") /\ Idle /\ page.latest["customer"] < MaxReads
    /\ Send("update", "cloud", flips, {r}, TRUE)

DropProfile == \E r \in page.rows :
    Shows("profile") /\ Idle /\ Send("drop", "cloud", flips, {r}, TRUE)

\* The rows a write changes, other than the ones shown.
Elsewhere(w) == {r \in w.picks : Hit(w.side, r) # r.row}
Reaches(w) == \A r \in w.picks : Hit(w.side, r) # Foreign

Changes(w) ==
    /\ w \in writes /\ w.verb \notin {"customer", "order"} /\ Reaches(w)
    /\ writes' = writes \ {w}
    /\ astray' = IF w.calm /\ Elsewhere(w) # {} THEN astray \cup {w.verb} ELSE astray

\* A list closes its dialog and reads again, the profile too.
Saved(w) ==
    /\ Changes(w) /\ w.heard /\ w.verb \in {"edit", "delete", "adjust", "update"}
    /\ IF w.verb = "update"
       THEN Reload(page, "customer", "cloud")
       ELSE Reload([page EXCEPT !.target = NoRef, !.targetAt = 0], ListKind, Repo(ready))
    /\ UNCHANGED <<ids, queue, pulled, ready, flips, made>>

\* In local mode the order is read again; otherwise the answer is the order.
StatusSet(w) ==
    /\ Changes(w) /\ w.heard /\ w.verb = "status"
    /\ IF w.side = "local"
       THEN Reload(page, "order", Repo(ready))
       ELSE /\ page' = [Drawn(page) EXCEPT !.rows = {[r EXCEPT !.row = Hit(w.side, r)] : r \in w.picks},
                                           !.since = w.at]
            /\ UNCHANGED reads
    /\ UNCHANGED <<ids, queue, pulled, ready, flips, made>>

\* A deletion leads back to the list.
Removed(w) ==
    LET back == IF w.verb = "drop" THEN "customers" ELSE "orders"
        k == IF w.verb = "drop" THEN "customer" ELSE "order"
    IN /\ Changes(w) /\ w.heard /\ w.verb \in {"remove", "drop"}
       /\ page' = [Drawn(New) EXCEPT !.name = back, !.opened = flips, !.watching = ~ready, !.latest[k] = 1]
       /\ reads' = {Asks(k, 1, Repo(ready))}
       /\ UNCHANGED <<ids, queue, pulled, ready, flips, made>>

\* The write took place, but its page has gone or its answer is lost.
Unheard(w) ==
    /\ Changes(w) /\ (w.heard => w.side = "cloud")
    /\ page' = IF w.heard THEN Drawn(page) ELSE page
    /\ UNCHANGED <<ids, queue, pulled, ready, flips, reads, made>>

-----------------------------------------------------------------------------
(* The order workflow.                                                         *)

PickCustomer(r) ==
    /\ Shows("create") /\ page.step = "form" /\ page.customer = NoRef
    /\ r \in page.rows /\ r.kind = "customer"
    /\ page' = [Drawn(page) EXCEPT !.customer = r]
    /\ UNCHANGED <<ids, queue, pulled, ready, flips, reads, writes, made, astray>>

ChangeCustomer ==
    /\ Shows("create") /\ page.step = "form" /\ page.customer # NoRef
    /\ page' = [Drawn(page) EXCEPT !.customer = NoRef]
    /\ UNCHANGED <<ids, queue, pulled, ready, flips, reads, writes, made, astray>>

\* addLine and quickAdd: a product that has a line keeps it.
AddLines(new) ==
    /\ Shows("create") /\ page.step = "form"
    /\ new # {} /\ new \subseteq {r \in page.rows : r.kind = "product"}
    /\ page' = [Drawn(page) EXCEPT !.lines = @ \cup {r \in new : \A l \in @ : l.id # r.id}]
    /\ UNCHANGED <<ids, queue, pulled, ready, flips, reads, writes, made, astray>>

RemoveLine(l) ==
    /\ Shows("create") /\ page.step = "form" /\ l \in page.lines
    /\ page' = [Drawn(page) EXCEPT !.lines = @ \ {l}]
    /\ UNCHANGED <<ids, queue, pulled, ready, flips, reads, writes, made, astray>>

\* The products of the draft are in; they replace the lines.
DraftArrives(found) ==
    /\ Shows("create") /\ page.draft # {} /\ found \subseteq page.draft
    /\ page' = [Drawn(page) EXCEPT !.draft = {}, !.lines = IF found = {} THEN @ ELSE found]
    /\ UNCHANGED <<ids, queue, pulled, ready, flips, reads, writes, made, astray>>

\* Mutant of CreateCustomer: a device creates locally before its mirror is ready.
CreateOnDevice ==
    /\ Shows("create") /\ page.step = "form" /\ page.customer = NoRef
    /\ \A w \in writes : w.heard => w.verb # "customer"
    /\ Send("customer", "local", page.at, {}, FALSE)

CreateCustomer ==
    /\ Shows("create") /\ page.step = "form" /\ page.customer = NoRef
    /\ \A w \in writes : w.heard => w.verb # "customer"
    /\ Send("customer", Repo(page.local), page.at, {}, FALSE)

\* goToPayment, Back and Try Again.
GoTo(step) ==
    /\ Shows("create")
    /\ \/ page.step = "form" /\ step = "payment" /\ page.customer # NoRef /\ page.lines # {}
       \/ page.step = "payment" /\ step = "form"
       \/ page.step = "failure" /\ step = "payment"
    /\ page' = [Drawn(page) EXCEPT !.step = step]
    /\ UNCHANGED <<ids, queue, pulled, ready, flips, reads, writes, made, astray>>

\* Confirm Order: nothing is validated here, and a confirmation under way takes no other.
Confirms ==
    /\ Shows("create") /\ page.step = "payment" /\ ~page.stuck
    /\ \A w \in writes : w.heard => w.verb # "order"

\* Without a customer submit throws before its try, and submitting is never reset.
SubmitThrows ==
    /\ Confirms /\ page.customer = NoRef
    /\ page' = [Drawn(page) EXCEPT !.stuck = TRUE]
    /\ UNCHANGED <<ids, queue, pulled, ready, flips, reads, writes, made, astray>>

\* calm: the gate was closed from the opening of the page to its last render.
Submit ==
    /\ Confirms /\ page.customer # NoRef
    /\ Send("order", Repo(page.local), page.at, {page.customer} \cup page.lines,
            page.opened = page.at /\ ~page.local)

\* A row is created; a local one is queued.
Creates(w, row) ==
    /\ w \in writes /\ Unused(row)
    /\ ids' = Inserted(w.side, row)
    /\ queue' = IF w.side = "local" THEN Append(queue, row) ELSE queue
    /\ writes' = writes \ {w}
    /\ UNCHANGED <<pulled, ready, flips, reads, astray>>

NewRef(w, row) ==
    [kind |-> KindOf(row), id |-> Len(ids[w.side][KindOf(row)]) + 1, row |-> row]

\* The new customer is picked, whatever was picked meanwhile.
CustomerCreated(w, row, told) ==
    /\ w.verb = "customer" /\ row \in Customer /\ Creates(w, row)
    /\ told \/ w.side = "cloud"
    /\ page' = IF ~w.heard THEN page
               ELSE IF told THEN [Drawn(page) EXCEPT !.customer = NewRef(w, row)]
               ELSE Drawn(page)
    /\ UNCHANGED made

\* Mutant of OrderCreated: the message asks the gate again.
SaysGate(w, row, told) ==
    /\ w.verb = "order" /\ row \in Order /\ Reaches(w) /\ Creates(w, row)
    /\ w.side = "cloud" => \E r \in w.picks : r.kind = "product"
    /\ told \/ w.side = "cloud"
    /\ made' = made \cup {[order |-> row, side |-> w.side, calm |-> w.calm,
                           picked |-> {r.row : r \in w.picks},
                           refers |-> {Hit(w.side, r) : r \in w.picks}]}
    /\ page' = IF ~w.heard THEN page
               ELSE IF told
               THEN [Drawn(page) EXCEPT !.step = "success", !.made = NewRef(w, row), !.madeAt = w.at,
                                        !.saved = ready]
               ELSE [Drawn(page) EXCEPT !.step = "failure"]

\* The side takes every id for one of its own rows and refuses an id that it cannot find;
\* an order without lines is refused by the cloud alone.
OrderCreated(w, row, told) ==
    /\ w.verb = "order" /\ row \in Order /\ Reaches(w) /\ Creates(w, row)
    /\ w.side = "cloud" => \E r \in w.picks : r.kind = "product"
    /\ told \/ w.side = "cloud"
    /\ made' = made \cup {[order |-> row, side |-> w.side, calm |-> w.calm,
                           picked |-> {r.row : r \in w.picks},
                           refers |-> {Hit(w.side, r) : r \in w.picks}]}
    /\ page' = IF ~w.heard THEN page
               ELSE IF told
               THEN [Drawn(page) EXCEPT !.step = "success", !.made = NewRef(w, row), !.madeAt = w.at,
                                        !.saved = (w.side = "local")]
               ELSE [Drawn(page) EXCEPT !.step = "failure"]

\* Nothing was written: a lost request, a refusal, an id that is not there.
WriteFails(w) ==
    /\ w \in writes
    /\ writes' = writes \ {w}
    /\ page' = IF ~w.heard THEN page
               ELSE IF w.verb = "order" THEN [Drawn(page) EXCEPT !.step = "failure"]
               ELSE Drawn(page)
    /\ UNCHANGED <<ids, queue, pulled, ready, flips, reads, made, astray>>

-----------------------------------------------------------------------------
Sync ==
    \/ Push \/ IngestPull
    \/ \E ok \in BOOLEAN : Refresh(ok)

Navigate ==
    \/ OpenProducts \/ OpenInventory \/ OpenCustomers \/ OpenOrders
    \/ \E r \in page.rows : OpenOrder(r) \/ OpenProfile(r)
    \/ ViewOrder
    \/ \E c \in Listed("cloud", "customer") \cup {NoRef} :
       \E draft \in SUBSET Listed("cloud", "product") : OpenCreate(c, draft)

ReadStep ==
    \/ Search
    \/ \E r \in reads : ListAnswered(r) \/ CatalogAnswered(r) \/ ViewAnswered(r) \/ ReadFails(r)

Edit ==
    \/ \E r \in page.rows : Choose(r)
    \/ SaveProduct \/ DeleteProduct \/ AdjustStock
    \/ SetStatus \/ RemoveOrder \/ UpdateProfile \/ DropProfile
    \/ \E w \in writes : Saved(w) \/ StatusSet(w) \/ Removed(w) \/ Unheard(w) \/ WriteFails(w)

Workflow ==
    \/ \E r \in page.rows : PickCustomer(r)
    \/ ChangeCustomer \/ CreateCustomer \/ Submit \/ SubmitThrows
    \/ \E new \in SUBSET page.rows : AddLines(new)
    \/ \E l \in page.lines : RemoveLine(l)
    \/ \E found \in SUBSET page.draft : DraftArrives(found)
    \/ \E step \in {"form", "payment"} : GoTo(step)
    \/ \E w \in writes, row \in Customer \cup Order, told \in BOOLEAN :
           CustomerCreated(w, row, told) \/ OrderCreated(w, row, told)

Next == Sync \/ Navigate \/ ReadStep \/ Edit \/ Workflow
Spec == Init /\ [][Next]_vars

-----------------------------------------------------------------------------
(* A product that is edited, deleted or adjusted, an order whose status is     *)
(* set, and a customer changed on the profile is the one the page shows, as    *)
(* long as the gate did not turn between the beginning of the read and the     *)
(* render whose repository took the write (useProducts.ts, useInventory.ts,    *)
(* OrderDetailsPage.tsx, CustomerProfilePage.tsx).  The deletion of an order   *)
(* is the exception: it goes to the cloud with an id of either side.           *)
EditsReachTheShownRow == astray \subseteq {"remove"}

(* The order's page shows the order that was clicked in the list, or the one   *)
(* just created, if the gate did not turn since their ids were read            *)
(* (Orders/index.tsx openOrder, CreateOrderPage.tsx "View Order").             *)
ViewedIsMeant ==
    (page.name = "details" /\ page.since = page.targetAt) =>
        \A r \in page.rows : r.row = page.target.row

(* With the gate closed from the opening of the page to the confirmation, the  *)
(* order names the customer and the products that were picked, whatever is     *)
(* created, pulled and pushed beside it (CreateOrderPage.tsx submit).          *)
ClosedGateOrders == \A m \in made : m.calm => m.refers = m.picked

(* "Saved on this device" is said exactly of an order that the device's        *)
(* database took, however the gate turned before the answer                    *)
(* (CreateOrderPage.tsx setLocalCreated).                                      *)
SavedHonestly ==
    page.step = "success" =>
        \E m \in made : m.order = page.made.row /\ page.saved = (m.side = "local")

(* An order names the customer and the products that were picked.  This does   *)
(* not hold: the pickers show ids of the cloud, and in local mode the          *)
(* repository takes them for ids of the mirror.                                *)
PickedIsOrdered == \A m \in made : m.refers = m.picked
================================================================================
