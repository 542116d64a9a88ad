------------------------------ MODULE ScreensProofs ------------------------------
(* The pages over two id spaces, for any number of rows, reads, writes, visits  *)
(* and turns of the gate.                                                       *)
(*                                                                              *)
(* Ids only ever gain a meaning, so a row that was read from a side is still    *)
(* what that side calls by its id.  What a page keeps is therefore known on the *)
(* side it was read from, and the number of turns says which side that was: if  *)
(* no turn lies between a read and the render whose repository takes a write,   *)
(* both took the same side.                                                     *)
EXTENDS Screens, TLAPS, FiniteSetTheorems

-----------------------------------------------------------------------------
(* The inductive invariant.                                                    *)

\* The gate starts closed and every turn opens or closes it, so the number of turns tells
\* which side the repositories of that time took.
Gate(n) == n % 2 = 1
SideAt(n) == Repo(Gate(n))

\* On this side the id of ref is the row that it was read as.
Known(side, ref) == Hit(side, ref) = ref.row

Lists == {"products", "inventory", "customers", "orders"}
CloudPages == {"create", "profile"}

\* The verbs that a page sends.
Sends == {<<"products", "edit">>, <<"products", "delete">>, <<"inventory", "adjust">>,
          <<"details", "status">>, <<"details", "remove">>,
          <<"profile", "update">>, <<"profile", "drop">>,
          <<"create", "customer">>, <<"create", "order">>}

Turns == ready <=> Gate(flips)

\* A page was opened, and last rendered, at a turn of the gate that has been.
Rendered ==
    /\ page.local <=> Gate(page.at)
    /\ page.opened <= page.at /\ page.at <= flips

\* A read goes to the side of its turn, or to the cloud from a page that knows no other.
AskFits(r) ==
    /\ r.side = IF page.name \in CloudPages THEN "cloud" ELSE SideAt(r.since)
    /\ page.name # "create" => r.kind = ListKind

AskedOfASide == \A r \in reads : AskFits(r)

\* The rows a page shows are what the side they came from calls by their ids.
RowFits(r) ==
    /\ Known(IF page.name \in CloudPages THEN "cloud" ELSE SideAt(page.since), r)
    /\ page.name # "create" => r.kind = ListKind
    /\ page.name = "details" => r.id = page.target.id

RowsAreKnown == \A r \in page.rows : RowFits(r)

\* What was chosen in a list, or brought from it, too.
TargetIsKnown ==
    /\ page.name \in {"products", "inventory", "details"} /\ page.target # NoRef =>
         Known(SideAt(page.targetAt), page.target)
    /\ page.name = "details" => page.target.kind = "order" /\ page.target # NoRef

\* The order just created, on the side that took it.
MadeIsKnown ==
    page.step = "success" =>
        /\ page.made # NoRef /\ page.made.kind = "order"
        /\ Known(SideAt(page.madeAt), page.made)

\* A write sent while the gate stood still knows its rows, the deletion of an order excepted.
WriteIsKnown(w) == w.calm /\ w.verb # "remove" => \A r \in w.picks : Known(w.side, r)
WritesAreKnown == \A w \in writes : WriteIsKnown(w)

\* What the mounted page has under way.
WriteFits(w) ==
    w.heard =>
        /\ <<page.name, w.verb>> \in Sends
        /\ w.verb \in {"status", "customer", "order"} => w.side = SideAt(w.at)
        /\ w.verb \in {"status", "update"} => page.latest[ListKind] < MaxReads
        /\ w.verb \in {"edit", "delete", "adjust"} => page.target # NoRef
        /\ w.verb = "status" => \A r \in w.picks : r.kind = "order" /\ r.id = page.target.id
        /\ w.verb = "customer" => page.opened <= w.at /\ w.at <= page.at

HeardFits == \A w \in writes : WriteFits(w)

\* A page waits for one write, but for the workflow, which may create two rows at once.
OneAtATime ==
    \A v, w \in writes : v.heard /\ w.heard /\ v.verb \notin {"customer", "order"} => v = w

\* What was picked for an order: the cloud's rows, as long as the gate stayed closed.
PicksAreKnown ==
    page.name = "create" =>
        /\ \A r \in page.draft : Known("cloud", r)
        /\ page.opened = page.at /\ ~page.local =>
             /\ \A r \in page.lines : Known("cloud", r)
             /\ page.customer # NoRef => Known("cloud", page.customer)

\* How often a page can have read: its searches, a dialog that closes, the gate that opens.
ReadsAreFew ==
    /\ page.watching => page.name \in Lists
    /\ \A k \in Kind : k # ListKind => page.latest[k] <= 1
    /\ page.name \in Lists =>
         page.latest[ListKind] <= MaxReads + (IF page.target = NoRef THEN 1 ELSE 0)
                                           + (IF page.watching THEN 0 ELSE 1)
    /\ page.name \notin Lists => page.latest[ListKind] <= MaxReads + 1

IInv ==
    /\ TypeOK
    /\ Turns
    /\ Rendered
    /\ AskedOfASide
    /\ RowsAreKnown
    /\ TargetIsKnown
    /\ MadeIsKnown
    /\ WritesAreKnown
    /\ HeardFits
    /\ OneAtATime
    /\ PicksAreKnown
    /\ ReadsAreFew
    /\ EditsReachTheShownRow
    /\ ClosedGateOrders
    /\ SavedHonestly

-----------------------------------------------------------------------------
(* The two sides.                                                              *)

\* The gate turns with every turn, and has not turned at the start.
LEMMA GateTurns ==
    /\ ~Gate(0)
    /\ \A n \in Nat : Gate(n + 1) <=> ~Gate(n)
BY DEF Gate

LEMMA SideAtType == \A n \in Nat : SideAt(n) \in Side
BY DEF SideAt, Repo, Side

\* What an id means is a row, or nothing of this business.
LEMMA HitType ==
    ASSUME TypeOK
    PROVE  \A s \in Side : \A r \in Ref : Hit(s, r) \in Row \cup {Foreign}
BY DEF TypeOK, Hit, Means, Ref

\* A table that gains rows at its end keeps the ids it has given out.
Gains ==
    \A s \in Side : \A k \in Kind : \A i \in DOMAIN ids[s][k] :
        i \in DOMAIN ids'[s][k] /\ ids'[s][k][i] = ids[s][k][i]

KnownStays == \A s \in Side : \A r \in Ref : Known(s, r) => Known(s, r)'

LEMMA GainsKeep == ASSUME TypeOK, Gains PROVE KnownStays
<1> SUFFICES ASSUME NEW s \in Side, NEW r \in Ref, Hit(s, r) = r.row PROVE Hit(s, r)' = r.row
  BY DEF KnownStays, Known
<1>1. r.kind \in Kind /\ r.row \in Row /\ r.row # Foreign
  BY ScreensAssumption DEF Ref
<1>2. r.id \in DOMAIN ids[s][r.kind] /\ ids[s][r.kind][r.id] = r.row
  BY <1>1 DEF Hit, Means
<1>3. r.id \in DOMAIN ids'[s][r.kind] /\ ids'[s][r.kind][r.id] = r.row
  BY <1>1, <1>2 DEF Gains
<1> QED BY <1>3 DEF Hit, Means

\* Where no table changes, everything is known that was.
LEMMA SameIdsKeep == ASSUME ids' = ids PROVE KnownStays
BY DEF KnownStays, Known, Hit, Means

\* The kind of a row.
LEMMA KindOfRow ==
    ASSUME NEW row \in Row
    PROVE  /\ KindOf(row) \in Kind /\ row \in Of(KindOf(row))
           /\ row \in Order => KindOf(row) = "order"
           /\ row \in Customer => KindOf(row) = "customer"
<1>1. \E k \in Kind : row \in Of(k)
  BY DEF Row, Kind, Of
<1>2. KindOf(row) \in Kind /\ row \in Of(KindOf(row))
  BY <1>1 DEF KindOf
<1>3. Of("order") = Order /\ Of("customer") = Customer /\ "order" \in Kind /\ "customer" \in Kind
  BY DEF Of, Kind
<1>4. \A k \in Kind : row \in Of(k) => k = KindOf(row)
  BY <1>2, ScreensAssumption
<1> QED BY <1>2, <1>3, <1>4

\* A new row takes the next id of its table.
LEMMA InsertGains ==
    ASSUME TypeOK, NEW s \in Side, NEW row \in Row, ids' = Inserted(s, row)
    PROVE  /\ ids' \in [Side -> [Kind -> Seq(Row \cup {Foreign})]]
           /\ Gains
           /\ ids'[s][KindOf(row)] = Append(ids[s][KindOf(row)], row)
<1> DEFINE k == KindOf(row)
<1>1. k \in Kind
  BY KindOfRow
<1> HIDE DEF k
<1>2. ids \in [Side -> [Kind -> Seq(Row \cup {Foreign})]]
  BY DEF TypeOK
<1>3. ids' = [ids EXCEPT ![s][k] = Append(ids[s][k], row)]
  BY DEF Inserted, k
<1>4. ids[s][k] \in Seq(Row \cup {Foreign}) /\ Append(ids[s][k], row) \in Seq(Row \cup {Foreign})
  BY <1>1, <1>2
<1>5. ids' \in [Side -> [Kind -> Seq(Row \cup {Foreign})]]
  BY <1>1, <1>2, <1>3, <1>4
<1>6. ids'[s][k] = Append(ids[s][k], row)
  BY <1>1, <1>2, <1>3
<1>7. Gains
  <2> SUFFICES ASSUME NEW t \in Side, NEW j \in Kind, NEW i \in DOMAIN ids[t][j]
               PROVE  i \in DOMAIN ids'[t][j] /\ ids'[t][j][i] = ids[t][j][i]
    BY DEF Gains
  <2>1. CASE t = s /\ j = k
    BY <1>4, <1>6, <2>1
  <2>2. CASE ~(t = s /\ j = k)
    <3>1. ids'[t][j] = ids[t][j]
      BY <1>1, <1>2, <1>3, <2>2
    <3> QED BY <3>1
  <2> QED BY <2>1, <2>2
<1> QED BY <1>5, <1>6, <1>7 DEF k

\* The rows a pull brings for one table, in some order.
LEMMA MissingType ==
    ASSUME TypeOK, NEW k \in Kind
    PROVE  \A new \in Missing(k) : new \in Seq(Row \cup {Foreign})
<1> DEFINE S == Range(ids["cloud"][k]) \ (Range(ids["local"][k]) \cup {Foreign})
<1> DEFINE q == ids["cloud"][k]
<1>1. q \in Seq(Row \cup {Foreign})
  BY DEF TypeOK, Side
<1>2. IsFiniteSet(Range(q))
  <2>1. IsFiniteSet(1..Len(q))
    BY <1>1, FS_Interval
  <2>2. q \in Surjection(1..Len(q), Range(q))
    BY <1>1 DEF Range, Surjection
  <2> QED BY <2>1, <2>2, FS_Surjection
<1>3. S \subseteq Row \cup {Foreign}
  BY <1>1 DEF Range
<1>4. Cardinality(S) \in Nat
  BY <1>2, FS_Subset, FS_CardinalityType
<1> SUFFICES ASSUME NEW new \in SetToSeqs(S) PROVE new \in Seq(Row \cup {Foreign})
  BY DEF Missing
<1>5. new \in [1..Cardinality(S) -> S]
  BY DEF SetToSeqs
<1> HIDE DEF S
<1> QED BY <1>3, <1>4, <1>5

-----------------------------------------------------------------------------
(* What keeps each part of the invariant.                                      *)

\* The gate stands still.
Still == ready' = ready /\ flips' = flips

\* The page stays as it was rendered, or is rendered with the gate as it is.
Renders ==
    \/ page'.local = page.local /\ page'.at = page.at
    \/ page'.local = ready /\ page'.at = flips

\* The same page stays mounted.
Stays == page'.name = page.name /\ page'.opened = page.opened /\ Renders

\* The fields of a page have their types.
LEMMA PageType ==
    ASSUME TypeOK
    PROVE  /\ page \in Page /\ page.name \in Names /\ page.rows \subseteq Ref
           /\ page.since \in Nat /\ page.at \in Nat /\ page.opened \in Nat
           /\ page.targetAt \in Nat /\ page.madeAt \in Nat /\ page.local \in BOOLEAN
           /\ page.latest \in [Kind -> 0..MaxReads + 2] /\ ListKind \in Kind
           /\ page.target \in Ref \cup {NoRef} /\ page.customer \in Ref \cup {NoRef}
           /\ page.made \in Ref \cup {NoRef}
           /\ page.lines \subseteq Ref /\ page.draft \subseteq Ref
           /\ flips \in Nat /\ ready \in BOOLEAN
BY ScreensAssumption DEF TypeOK, Page, ListKind, Kind

LEMMA Ground == ASSUME TypeOK PROVE page \in Page /\ ready \in BOOLEAN /\ flips \in 0..MaxFlips
BY DEF TypeOK

LEMMA NoRefIsNone == NoRef \notin Ref
BY DEF NoRef, Ref

LEMMA KeepRendered ==
    ASSUME TypeOK, Turns, Rendered, Still, Stays
    PROVE  Turns' /\ Rendered' /\ page.at <= page'.at
BY PageType DEF Turns, Rendered, Still, Stays, Renders

LEMMA KeepAsked ==
    ASSUME AskedOfASide, Stays, \A r \in reads' : r \in reads \/ AskFits(r)'
    PROVE  AskedOfASide'
<1> SUFFICES ASSUME NEW r \in reads' PROVE AskFits(r)'
  BY DEF AskedOfASide
<1>1. CASE r \in reads
  BY <1>1 DEF AskedOfASide, AskFits, Stays, ListKind
<1> QED BY <1>1

LEMMA KeepRows ==
    ASSUME TypeOK, RowsAreKnown, KnownStays, Stays, page'.rows = page.rows,
           page'.since = page.since, page.name = "details" => page'.target = page.target
    PROVE  RowsAreKnown'
<1> SUFFICES ASSUME NEW r \in page.rows PROVE RowFits(r)'
  BY DEF RowsAreKnown
<1>1. RowFits(r) /\ r \in Ref
  BY PageType DEF RowsAreKnown
<1>2. SideAt(page.since) \in Side /\ "cloud" \in Side /\ page'.name = page.name /\ page'.since = page.since
  BY PageType, SideAtType DEF Stays, Side
<1>3. \A s \in Side : Known(s, r) => Known(s, r)'
  BY <1>1 DEF KnownStays
<1>4. PICK s \in Side : s = IF page.name \in CloudPages THEN "cloud" ELSE SideAt(page.since)
  BY <1>2
<1>5. Known(s, r)'
  BY <1>1, <1>3, <1>4 DEF RowFits
<1>6. s = (IF page.name \in CloudPages THEN "cloud" ELSE SideAt(page.since))'
  BY <1>2, <1>4
<1> QED BY <1>1, <1>2, <1>5, <1>6 DEF RowFits, ListKind, Known

LEMMA KeepTarget ==
    ASSUME TypeOK, TargetIsKnown, KnownStays, Stays,
           page'.target = page.target, page'.targetAt = page.targetAt
    PROVE  TargetIsKnown'
<1>1. PICK s \in Side : s = SideAt(page.targetAt)
  BY PageType, SideAtType
<1>2. PICK r : r = page.target
  OBVIOUS
<1>3. r # NoRef => r \in Ref
  BY <1>2, PageType
<1>4. r # NoRef /\ Known(s, r) => Known(s, r)'
  BY <1>3 DEF KnownStays
<1>5. s = SideAt(page.targetAt)' /\ r = page'.target
  BY <1>1, <1>2
<1> QED BY <1>1, <1>2, <1>4, <1>5 DEF TargetIsKnown, Stays, Known

LEMMA KeepMade ==
    ASSUME TypeOK, MadeIsKnown, KnownStays,
           page'.step = "success" => page.step = "success",
           page'.made = page.made, page'.madeAt = page.madeAt
    PROVE  MadeIsKnown'
<1>1. PICK s \in Side : s = SideAt(page.madeAt)
  BY PageType, SideAtType
<1>2. PICK r : r = page.made
  OBVIOUS
<1>3. r # NoRef => r \in Ref
  BY <1>2, PageType
<1>4. r # NoRef /\ Known(s, r) => Known(s, r)'
  BY <1>3 DEF KnownStays
<1>5. s = SideAt(page.madeAt)' /\ r = page'.made
  BY <1>1, <1>2
<1> QED BY <1>1, <1>2, <1>4, <1>5 DEF MadeIsKnown, Known

LEMMA KeepWrites ==
    ASSUME TypeOK, WritesAreKnown, KnownStays,
           \A w \in writes' : w \in writes \/ WriteIsKnown(w)'
    PROVE  WritesAreKnown'
<1> SUFFICES ASSUME NEW w \in writes PROVE WriteIsKnown(w)'
  BY DEF WritesAreKnown
<1>1. w.side \in Side /\ w.picks \subseteq Ref /\ WriteIsKnown(w)
  BY DEF TypeOK, Write, WritesAreKnown
<1> QED BY <1>1 DEF WriteIsKnown, KnownStays

LEMMA KeepHeard ==
    ASSUME HeardFits, Stays, page'.latest = page.latest, page'.target = page.target,
           page.at <= page'.at, TypeOK, TypeOK',
           \A w \in writes' : w \in writes \/ WriteFits(w)'
    PROVE  HeardFits'
<1> SUFFICES ASSUME NEW w \in writes PROVE WriteFits(w)'
  BY DEF HeardFits
<1>1. WriteFits(w) /\ w.at \in Nat /\ page.at \in Nat /\ page'.at \in Nat
  BY PageType, ScreensAssumption DEF HeardFits, TypeOK, Write, Page
<1> QED BY <1>1 DEF WriteFits, Stays, ListKind

\* If the gate was closed from the opening to the render now, it was at the render before.
LEMMA KeepPicks ==
    ASSUME TypeOK, TypeOK', Rendered, Rendered', PicksAreKnown, KnownStays, Stays, page.at <= page'.at,
           page'.draft \subseteq page.draft,
           page'.opened = page'.at /\ ~page'.local =>
             /\ \A r \in page'.lines : r \in page.lines \/ Known("cloud", r)'
             /\ page'.customer \in {page.customer, NoRef}
                  \/ \E r \in Ref : page'.customer = r /\ Known("cloud", r)'
    PROVE  PicksAreKnown'
<1>1. page'.opened = page'.at /\ ~page'.local => page.opened = page.at /\ ~page.local
  BY PageType DEF Rendered, Stays
<1>2. page'.name = page.name /\ "cloud" \in Side
  BY DEF Stays, Side
<1>3. \A r \in Ref : Known("cloud", r) => Known("cloud", r)'
  BY <1>2 DEF KnownStays
<1> SUFFICES ASSUME page.name = "create" 
             PROVE  /\ \A r \in page'.draft : Known("cloud", r)'
                    /\ page'.opened = page'.at /\ ~page'.local =>
                         /\ \A r \in page'.lines : Known("cloud", r)'
                         /\ page'.customer # NoRef => Known("cloud", page.customer)'
  BY <1>2 DEF PicksAreKnown, Known
<1>4. \A r \in page'.draft : Known("cloud", r)'
  BY <1>3, PageType DEF PicksAreKnown
<1>5. ASSUME page'.opened = page'.at, ~page'.local PROVE \A r \in page'.lines : Known("cloud", r)'
  BY <1>1, <1>3, <1>5, PageType DEF PicksAreKnown
<1>6. ASSUME page'.opened = page'.at, ~page'.local, page'.customer # NoRef
      PROVE  Known("cloud", page.customer)'
  <2>1. CASE page'.customer = page.customer
    <3>1. PICK r \in Ref : r = page.customer
      BY <1>6, <2>1, PageType
    <3>2. Known("cloud", r)
      BY <1>1, <1>6, <2>1, <3>1 DEF PicksAreKnown
    <3>3. Known("cloud", r)'
      BY <1>3, <3>2
    <3>4. page'.customer = r
      BY <2>1, <3>1
    <3> QED BY <3>3, <3>4 DEF Known
  <2>2. CASE \E r \in Ref : page'.customer = r /\ Known("cloud", r)'
    <3>1. PICK r \in Ref : page'.customer = r /\ Known("cloud", r)'
      BY <2>2
    <3> QED BY <3>1 DEF Known
  <2> QED BY <1>6, <2>1, <2>2
<1> QED BY <1>4, <1>5, <1>6


LEMMA KeepFew ==
    ASSUME ReadsAreFew, Stays, page'.watching = page.watching, page'.latest = page.latest,
           page'.target = page.target
    PROVE  ReadsAreFew'
BY DEF ReadsAreFew, Stays, ListKind

LEMMA FewerWrites == ASSUME IInv, writes' \subseteq writes PROVE OneAtATime'
BY DEF IInv, OneAtATime

\* Everything that a step leaves alone which keeps the page, what it shows and what it has chosen.
Keeps ==
    /\ page'.rows = page.rows /\ page'.since = page.since
    /\ page'.target = page.target /\ page'.targetAt = page.targetAt
    /\ page'.watching = page.watching /\ page'.latest = page.latest
    /\ page'.made = page.made /\ page'.madeAt = page.madeAt /\ page'.saved = page.saved
    /\ page'.step = "success" => page.step = "success"
    /\ page'.draft \subseteq page.draft

\* What was picked is still picked, or known if the gate stayed closed.
PicksHold ==
    page'.opened = page'.at /\ ~page'.local =>
        /\ \A r \in page'.lines : r \in page.lines \/ Known("cloud", r)'
        /\ page'.customer \in {page.customer, NoRef}
             \/ \E r \in Ref : page'.customer = r /\ Known("cloud", r)'

LEMMA StayInv ==
    ASSUME IInv, TypeOK', Still, KnownStays, Stays, Keeps, PicksHold, reads' \subseteq reads,
           \A w \in writes' : w \in writes \/ (WriteIsKnown(w)' /\ WriteFits(w)'),
           OneAtATime', made \subseteq made', ClosedGateOrders', EditsReachTheShownRow'
    PROVE  IInv'
<1> USE DEF IInv
<1>1. Turns' /\ Rendered' /\ page.at <= page'.at
  BY KeepRendered
<1>2. AskedOfASide'
  BY KeepAsked
<1>3. RowsAreKnown' /\ TargetIsKnown' /\ MadeIsKnown'
  BY KeepRows, KeepTarget, KeepMade DEF Keeps
<1>4. WritesAreKnown'
  BY KeepWrites
<1>5. HeardFits'
  BY <1>1, KeepHeard DEF Keeps
<1>6. PicksAreKnown'
  BY <1>1, KeepPicks DEF Keeps, PicksHold
<1>7. ReadsAreFew'
  BY KeepFew DEF Keeps
<1>8. SavedHonestly'
  BY DEF SavedHonestly, Keeps
<1> QED BY <1>1, <1>2, <1>3, <1>4, <1>5, <1>6, <1>7, <1>8

\* The page as it is keeps everything.
LEMMA SamePage == ASSUME page' = page PROVE Stays /\ Keeps /\ PicksHold
BY DEF Stays, Renders, Keeps, PicksHold

\* The histories as they are.
LEMMA SameMade == ASSUME ClosedGateOrders, made' = made PROVE ClosedGateOrders'
BY DEF ClosedGateOrders

LEMMA SameAstray == ASSUME EditsReachTheShownRow, astray' = astray PROVE EditsReachTheShownRow'
BY DEF EditsReachTheShownRow

-----------------------------------------------------------------------------
(* Rows arrive on a side.                                                      *)

\* A pushed row takes the next id of the cloud.
LEMMA PushInv == ASSUME IInv, Push PROVE IInv'
<1>1. TypeOK
  BY DEF IInv
<1>2. PICK row \in Row : row = Head(queue)
  BY <1>1 DEF Push, TypeOK
<1>3. ids' = Inserted("cloud", row) /\ "cloud" \in Side
  BY <1>2 DEF Push, Side
<1>4. ids' \in [Side -> [Kind -> Seq(Row \cup {Foreign})]] /\ KnownStays
  BY <1>1, <1>3, InsertGains, GainsKeep
<1>5. TypeOK'
  BY <1>1, <1>4 DEF Push, TypeOK
<1>6. Still /\ Stays /\ Keeps /\ PicksHold
  BY SamePage DEF Push, Still
<1>7. ClosedGateOrders' /\ EditsReachTheShownRow'
  BY SameMade, SameAstray DEF Push, IInv
<1> QED BY <1>4, <1>5, <1>6, <1>7, FewerWrites, StayInv DEF Push

\* A pull adds rows to the mirror behind the ones it has.
LEMMA IngestPullInv == ASSUME IInv, IngestPull PROVE IInv'
<1>1. TypeOK
  BY DEF IInv
<1>2. PICK c \in Missing("customer"), p \in Missing("product"), o \in Missing("order") :
        ids' = [ids EXCEPT !["local"]["customer"] = @ \o c, !["local"]["product"] = @ \o p,
                           !["local"]["order"] = @ \o o]
  BY DEF IngestPull
<1> DEFINE S == Seq(Row \cup {Foreign})
<1>3. c \in S /\ p \in S /\ o \in S
  BY <1>1, MissingType DEF Kind
<1>4. /\ ids["local"]["customer"] \in S /\ ids["local"]["product"] \in S /\ ids["local"]["order"] \in S
      /\ ids \in [Side -> [Kind -> S]]
  BY <1>1 DEF TypeOK, Side, Kind
<1>5. /\ ids'["local"]["customer"] = ids["local"]["customer"] \o c
      /\ ids'["local"]["product"] = ids["local"]["product"] \o p
      /\ ids'["local"]["order"] = ids["local"]["order"] \o o
      /\ ids'["cloud"] = ids["cloud"]
  BY <1>2, <1>4 DEF Side, Kind
<1>6. ids' \in [Side -> [Kind -> S]]
  <2>1. ids["local"]["customer"] \o c \in S /\ ids["local"]["product"] \o p \in S /\ ids["local"]["order"] \o o \in S
    BY <1>3, <1>4
  <2> HIDE DEF S
  <2> QED BY <1>2, <1>4, <2>1 DEF Side, Kind
<1>7. Gains
  <2> SUFFICES ASSUME NEW k \in Kind, NEW i \in DOMAIN ids["local"][k]
               PROVE  i \in DOMAIN ids'["local"][k] /\ ids'["local"][k][i] = ids["local"][k][i]
    BY <1>5 DEF Gains, Side
  <2>1. PICK new \in S : ids'["local"][k] = ids["local"][k] \o new
    BY <1>3, <1>5 DEF Kind
  <2>2. ids["local"][k] \in S
    BY <1>4 DEF Side
  <2> QED BY <2>1, <2>2
<1>8. KnownStays
  BY <1>1, <1>7, GainsKeep
<1>9. TypeOK'
  BY <1>1, <1>6 DEF IngestPull, TypeOK
<1>10. Still /\ Stays /\ Keeps /\ PicksHold
  BY SamePage DEF IngestPull, Still
<1>11. ClosedGateOrders' /\ EditsReachTheShownRow'
  BY SameMade, SameAstray DEF IngestPull, IInv
<1> QED BY <1>8, <1>9, <1>10, <1>11, FewerWrites, StayInv DEF IngestPull


-----------------------------------------------------------------------------
(* Steps on a page that shows what it showed.                                  *)

\* A page that is only rendered again.
LEMMA OnlyDrawn ==
    ASSUME TypeOK, Still, page' = Drawn(page)
    PROVE  /\ page' \in Page /\ Stays /\ Keeps /\ PicksHold
           /\ page'.at = flips /\ page'.local = ready
BY ScreensAssumption DEF TypeOK, Page, Drawn, Stays, Renders, Keeps, PicksHold

LEMMA ReadFailsInv == ASSUME IInv, NEW r \in reads, ReadFails(r) PROVE IInv'
<1>1. TypeOK /\ Still
  BY DEF IInv, ReadFails, Still
<1>2. page' \in Page /\ Stays /\ Keeps /\ PicksHold
  BY <1>1, OnlyDrawn DEF ReadFails
<1>3. TypeOK'
  BY <1>1, <1>2 DEF ReadFails, TypeOK
<1>4. KnownStays
  BY SameIdsKeep DEF ReadFails
<1>5. ClosedGateOrders' /\ EditsReachTheShownRow'
  BY SameMade, SameAstray DEF ReadFails, IInv
<1> QED BY <1>1, <1>2, <1>3, <1>4, <1>5, FewerWrites, StayInv DEF ReadFails

\* A write that fails, heard or not.
LEMMA WriteFailsInv == ASSUME IInv, NEW w \in writes, WriteFails(w) PROVE IInv'
<1>1. TypeOK /\ Still
  BY DEF IInv, WriteFails, Still
<1>2. page' \in Page /\ Stays /\ Keeps /\ PicksHold
  <2>1. CASE ~w.heard
    BY <1>1, <2>1, SamePage DEF WriteFails, TypeOK
  <2>2. CASE w.heard /\ w.verb = "order"
    BY <1>1, <2>2, ScreensAssumption
       DEF WriteFails, TypeOK, Page, Drawn, Stays, Renders, Keeps, PicksHold
  <2>3. CASE w.heard /\ w.verb # "order"
    BY <1>1, <2>3, OnlyDrawn DEF WriteFails
  <2> QED BY <2>1, <2>2, <2>3
<1>3. TypeOK'
  BY <1>1, <1>2 DEF WriteFails, TypeOK
<1>4. KnownStays
  BY SameIdsKeep DEF WriteFails
<1>5. ClosedGateOrders' /\ EditsReachTheShownRow'
  BY SameMade, SameAstray DEF WriteFails, IInv
<1> QED BY <1>1, <1>2, <1>3, <1>4, <1>5, FewerWrites, StayInv DEF WriteFails

\* A change that takes place while the gate stood still since the read changes the rows shown.
LEMMA ChangesKeep ==
    ASSUME IInv, NEW w \in writes, Changes(w)
    PROVE  EditsReachTheShownRow' /\ astray' \subseteq Verb /\ writes' = writes \ {w}
<1>1. w.verb \in Verb /\ WriteIsKnown(w) /\ astray \subseteq {"remove"} /\ astray \subseteq Verb
  BY DEF IInv, TypeOK, Write, WritesAreKnown, EditsReachTheShownRow
<1>2. w.calm /\ Elsewhere(w) # {} => w.verb = "remove"
  BY <1>1 DEF WriteIsKnown, Elsewhere, Known
<1> QED BY <1>1, <1>2 DEF Changes, EditsReachTheShownRow

LEMMA UnheardInv == ASSUME IInv, NEW w \in writes, Unheard(w) PROVE IInv'
<1>1. TypeOK /\ Still
  BY DEF IInv, Unheard, Still
<1>2. page' \in Page /\ Stays /\ Keeps /\ PicksHold
  <2>1. CASE ~w.heard
    BY <1>1, <2>1, SamePage DEF Unheard, TypeOK
  <2>2. CASE w.heard
    BY <1>1, <2>2, OnlyDrawn DEF Unheard
  <2> QED BY <2>1, <2>2
<1>3. EditsReachTheShownRow' /\ astray' \subseteq Verb /\ writes' = writes \ {w}
  BY ChangesKeep DEF Unheard
<1>4. TypeOK'
  BY <1>1, <1>2, <1>3 DEF Unheard, TypeOK
<1>5. KnownStays /\ ClosedGateOrders'
  BY SameIdsKeep, SameMade DEF Unheard, IInv
<1> QED BY <1>1, <1>2, <1>3, <1>4, <1>5, FewerWrites, StayInv DEF Unheard


-----------------------------------------------------------------------------
(* The order workflow.                                                         *)

\* What a step of the workflow leaves alone.
WorkflowOnly == UNCHANGED <<ids, queue, pulled, ready, flips, reads, writes, made, astray>>

\* What it picks is the cloud's.
PicksFromCloud ==
    /\ \A r \in page'.lines : r \in page.lines \/ Known("cloud", r)
    /\ page'.customer \in {page.customer, NoRef}
         \/ \E r \in Ref : page'.customer = r /\ Known("cloud", r)

LEMMA WorkflowInv ==
    ASSUME IInv, page' \in Page, Stays, Keeps, PicksFromCloud, WorkflowOnly PROVE IInv'
<1> USE DEF WorkflowOnly
<1>1. TypeOK /\ Still
  BY DEF IInv, Still
<1>2. TypeOK'
  BY <1>1 DEF TypeOK
<1>3. KnownStays /\ "cloud" \in Side
  BY SameIdsKeep DEF Side
<1>4. PicksHold
  BY <1>2, <1>3, PageType DEF PicksHold, KnownStays, PicksFromCloud, Page
<1>5. ClosedGateOrders' /\ EditsReachTheShownRow'
  BY SameMade, SameAstray DEF IInv
<1> QED BY <1>1, <1>2, <1>3, <1>4, <1>5, FewerWrites, StayInv

\* What the workflow's page shows, and what the assistant drafted, is the cloud's.
LEMMA CatalogIsKnown ==
    ASSUME IInv, Shows("create")
    PROVE  \A r \in page.rows \cup page.draft : r \in Ref /\ Known("cloud", r)
BY PageType DEF IInv, RowsAreKnown, RowFits, PicksAreKnown, Shows, CloudPages

LEMMA PickCustomerInv == ASSUME IInv, NEW r \in page.rows, PickCustomer(r) PROVE IInv'
<1>1. TypeOK /\ r \in Ref /\ Known("cloud", r)
  BY CatalogIsKnown DEF IInv, PickCustomer
<1>2. page' \in Page /\ Stays /\ Keeps /\ page'.customer = r /\ page'.lines = page.lines
  BY <1>1, Ground DEF PickCustomer, Page, Drawn, Stays, Renders, Keeps
<1> QED BY <1>1, <1>2, WorkflowInv DEF PickCustomer, WorkflowOnly, PicksFromCloud

LEMMA ChangeCustomerInv == ASSUME IInv, ChangeCustomer PROVE IInv'
<1>1. TypeOK
  BY DEF IInv
<1>2. page' \in Page /\ Stays /\ Keeps /\ page'.customer = NoRef /\ page'.lines = page.lines
  BY <1>1, Ground DEF ChangeCustomer, Page, Drawn, Stays, Renders, Keeps
<1> QED BY <1>2, WorkflowInv DEF ChangeCustomer, WorkflowOnly, PicksFromCloud

LEMMA AddLinesInv == ASSUME IInv, NEW new \in SUBSET page.rows, AddLines(new) PROVE IInv'
<1>1. TypeOK /\ \A r \in new : r \in Ref /\ Known("cloud", r)
  BY CatalogIsKnown DEF IInv, AddLines
<1>2. page.lines \cup {r \in new : \A l \in page.lines : l.id # r.id} \subseteq Ref
  BY <1>1, PageType
<1>3. /\ page' \in Page /\ Stays /\ Keeps /\ page'.customer = page.customer
      /\ page'.lines = page.lines \cup {r \in new : \A l \in page.lines : l.id # r.id}
  BY <1>1, <1>2, Ground DEF AddLines, Page, Drawn, Stays, Renders, Keeps
<1> QED BY <1>1, <1>3, WorkflowInv DEF AddLines, WorkflowOnly, PicksFromCloud

LEMMA RemoveLineInv == ASSUME IInv, NEW l \in page.lines, RemoveLine(l) PROVE IInv'
<1>1. TypeOK
  BY DEF IInv
<1>2. page' \in Page /\ Stays /\ Keeps /\ page'.customer = page.customer /\ page'.lines = page.lines \ {l}
  BY <1>1, Ground DEF RemoveLine, Page, Drawn, Stays, Renders, Keeps
<1> QED BY <1>2, WorkflowInv DEF RemoveLine, WorkflowOnly, PicksFromCloud

LEMMA DraftArrivesInv == ASSUME IInv, NEW found \in SUBSET page.draft, DraftArrives(found) PROVE IInv'
<1>1. TypeOK /\ \A r \in found : r \in Ref /\ Known("cloud", r)
  BY CatalogIsKnown DEF IInv, DraftArrives
<1>2. /\ page' \in Page /\ Stays /\ Keeps /\ page'.customer = page.customer
      /\ page'.lines = page.lines \/ page'.lines = found
  BY <1>1, Ground DEF DraftArrives, Page, Drawn, Stays, Renders, Keeps
<1> QED BY <1>1, <1>2, WorkflowInv DEF DraftArrives, WorkflowOnly, PicksFromCloud

LEMMA SubmitThrowsInv == ASSUME IInv, SubmitThrows PROVE IInv'
<1>1. TypeOK
  BY DEF IInv
<1>2. page' \in Page /\ Stays /\ Keeps /\ page'.customer = page.customer /\ page'.lines = page.lines
  BY <1>1, Ground DEF SubmitThrows, Page, Drawn, Stays, Renders, Keeps
<1> QED BY <1>2, WorkflowInv DEF SubmitThrows, WorkflowOnly, PicksFromCloud

LEMMA GoToInv == ASSUME IInv, NEW step \in {"form", "payment"}, GoTo(step) PROVE IInv'
<1>1. TypeOK
  BY DEF IInv
<1>2. page' \in Page /\ Stays /\ Keeps /\ page'.customer = page.customer /\ page'.lines = page.lines
  BY <1>1, Ground DEF GoTo, Page, Drawn, Stays, Renders, Keeps
<1> QED BY <1>2, WorkflowInv DEF GoTo, WorkflowOnly, PicksFromCloud

-----------------------------------------------------------------------------
(* Writes are sent.                                                            *)

\* A write that fits the page that sends it.
LEMMA SendInv ==
    ASSUME IInv, NEW w \in Write, WriteIsKnown(w), WriteFits(w), w.heard,
           Idle \/ page.name = "create",
           writes' = writes \cup {w}, page' = Drawn(page),
           UNCHANGED <<ids, queue, pulled, ready, flips, reads, made, astray>>
    PROVE  IInv'
<1>1. TypeOK /\ Still
  BY DEF IInv, Still
<1>2. page' \in Page /\ Stays /\ Keeps /\ PicksHold
  BY <1>1, OnlyDrawn
<1>3. TypeOK'
  BY <1>1, <1>2 DEF TypeOK
<1>4. KnownStays /\ ClosedGateOrders' /\ EditsReachTheShownRow'
  BY SameIdsKeep, SameMade, SameAstray DEF IInv
<1>5. WriteIsKnown(w)'
  BY <1>4 DEF WriteIsKnown, KnownStays, Write
<1>6. page.at <= page'.at /\ w.at \in Nat
  BY <1>1, KeepRendered, <1>2, ScreensAssumption DEF IInv, Write
<1>7. WriteFits(w)'
  <2>1. page.at \in Nat /\ page'.at \in Nat
    BY <1>1, <1>2, PageType, ScreensAssumption DEF Page
  <2> QED BY <1>2, <1>6, <2>1 DEF WriteFits, Stays, Keeps, ListKind
<1>8. OneAtATime'
  BY DEF IInv, OneAtATime, HeardFits, WriteFits, Sends, Idle
<1> QED BY <1>1, <1>2, <1>3, <1>4, <1>5, <1>7, <1>8, StayInv

\* The turn of the last render tells the side that the page's repositories take.
LEMMA RenderSide ==
    ASSUME IInv
    PROVE  /\ Repo(page.local) = SideAt(page.at) /\ Repo(ready) = SideAt(flips)
           /\ Repo(page.local) \in Side /\ Repo(ready) \in Side
           /\ page.at \in 0..MaxFlips /\ flips \in 0..MaxFlips /\ page.opened <= page.at
BY PageType, Ground DEF IInv, Rendered, Turns, SideAt, Repo, Side, Page

\* The product that was chosen, on the side of the last render.
LEMMA ChosenInv ==
    ASSUME IInv, NEW name, NEW verb,
           <<name, verb>> \in {<<"products", "edit">>, <<"products", "delete">>, <<"inventory", "adjust">>},
           Chosen(name, verb)
    PROVE  IInv'
<1>1. PICK w : w = [verb |-> verb, side |-> Repo(page.local), at |-> page.at, picks |-> {page.target},
                    calm |-> page.targetAt = page.at, heard |-> TRUE]
  OBVIOUS
<1>2. verb \in {"edit", "delete", "adjust"} /\ page.target \in Ref /\ page.name = name /\ page.target # NoRef
  BY PageType DEF IInv, Chosen, Shows
<1>3. w \in Write
  BY <1>1, <1>2, RenderSide DEF Write, Verb
<1>4. WriteIsKnown(w)
  BY <1>1, <1>2, RenderSide DEF WriteIsKnown, IInv, TargetIsKnown
<1>5. WriteFits(w)
  BY <1>1, <1>2 DEF WriteFits, Sends
<1> QED BY <1>1, <1>3, <1>4, <1>5, SendInv DEF Chosen, Send

\* The order's page asks the gate again.
LEMMA SetStatusInv == ASSUME IInv, SetStatus PROVE IInv'
<1>1. PICK r \in page.rows :
        /\ Shows("details") /\ Idle /\ page.latest["order"] < MaxReads
        /\ Send("status", Repo(ready), flips, {r}, page.since = flips)
  BY DEF SetStatus
<1>2. PICK w : w = [verb |-> "status", side |-> Repo(ready), at |-> flips, picks |-> {r},
                    calm |-> page.since = flips, heard |-> TRUE]
  OBVIOUS
<1>3. r \in Ref /\ page.name = "details" /\ RowFits(r)
  BY <1>1, PageType DEF IInv, RowsAreKnown, Shows
<1>4. w \in Write
  BY <1>2, <1>3, RenderSide DEF Write, Verb
<1>5. WriteIsKnown(w)
  BY <1>2, <1>3, RenderSide DEF WriteIsKnown, RowFits, CloudPages
<1>6. ListKind = "order"
  BY <1>3 DEF ListKind
<1>7. WriteFits(w)
  BY <1>1, <1>2, <1>3, <1>6, RenderSide DEF WriteFits, Sends, RowFits
<1> QED BY <1>1, <1>2, <1>4, <1>5, <1>7, SendInv DEF Send

\* The page of an order deletes in the cloud whatever it shows.
LEMMA RemoveOrderInv == ASSUME IInv, RemoveOrder PROVE IInv'
<1>1. PICK r \in page.rows :
        Shows("details") /\ Idle /\ Send("remove", "cloud", flips, {r}, page.since = flips)
  BY DEF RemoveOrder
<1>2. PICK w : w = [verb |-> "remove", side |-> "cloud", at |-> flips, picks |-> {r},
                    calm |-> page.since = flips, heard |-> TRUE]
  OBVIOUS
<1>3. r \in Ref /\ page.name = "details"
  BY <1>1, PageType DEF IInv, Shows
<1>4. w \in Write
  BY <1>2, <1>3, RenderSide DEF Write, Verb, Side
<1>5. WriteIsKnown(w) /\ WriteFits(w)
  BY <1>2, <1>3 DEF WriteIsKnown, WriteFits, Sends
<1> QED BY <1>1, <1>2, <1>4, <1>5, SendInv DEF Send

\* A profile shows a customer of the cloud, and writes to the cloud.
LEMMA ProfileInv == ASSUME IInv, UpdateProfile \/ DropProfile PROVE IInv'
<1>1. PICK r \in page.rows, verb \in {"update", "drop"} :
        /\ Shows("profile") /\ Idle /\ (verb = "update" => page.latest["customer"] < MaxReads)
        /\ Send(verb, "cloud", flips, {r}, TRUE)
  BY DEF UpdateProfile, DropProfile
<1>2. PICK w : w = [verb |-> verb, side |-> "cloud", at |-> flips, picks |-> {r},
                    calm |-> TRUE, heard |-> TRUE]
  OBVIOUS
<1>3. r \in Ref /\ page.name = "profile" /\ RowFits(r)
  BY <1>1, PageType DEF IInv, RowsAreKnown, Shows
<1>4. w \in Write
  BY <1>1, <1>2, <1>3, RenderSide DEF Write, Verb, Side
<1>5. WriteIsKnown(w)
  BY <1>2, <1>3 DEF WriteIsKnown, RowFits, CloudPages
<1>6. ListKind = "customer"
  BY <1>3 DEF ListKind
<1>7. WriteFits(w)
  BY <1>1, <1>2, <1>3, <1>6 DEF WriteFits, Sends
<1> QED BY <1>1, <1>2, <1>4, <1>5, <1>7, SendInv DEF Send

\* The inline customer.
LEMMA CreateCustomerInv == ASSUME IInv, CreateCustomer PROVE IInv'
<1>1. PICK w : w = [verb |-> "customer", side |-> Repo(page.local), at |-> page.at, picks |-> {},
                    calm |-> FALSE, heard |-> TRUE]
  OBVIOUS
<1>2. w \in Write
  BY <1>1, RenderSide DEF Write, Verb
<1>3. WriteIsKnown(w)
  BY <1>1 DEF WriteIsKnown
<1>4. WriteFits(w)
  BY <1>1, RenderSide DEF WriteFits, Sends, CreateCustomer, Shows
<1> QED BY <1>1, <1>2, <1>3, <1>4, SendInv DEF CreateCustomer, Send, Shows

\* An order that was picked and confirmed with the gate closed names rows of the cloud.
LEMMA SubmitInv == ASSUME IInv, Submit PROVE IInv'
<1>1. PICK w : w = [verb |-> "order", side |-> Repo(page.local), at |-> page.at,
                    picks |-> {page.customer} \cup page.lines,
                    calm |-> page.opened = page.at /\ ~page.local, heard |-> TRUE]
  OBVIOUS
<1>2. page.name = "create" /\ page.customer # NoRef /\ page.customer \in Ref /\ page.lines \subseteq Ref
  BY PageType DEF IInv, Submit, Confirms, Shows
<1>3. w \in Write
  BY <1>1, <1>2, RenderSide DEF Write, Verb
<1>4. WriteIsKnown(w)
  BY <1>1, <1>2 DEF WriteIsKnown, IInv, PicksAreKnown, Repo
<1>5. WriteFits(w)
  BY <1>1, <1>2, RenderSide DEF WriteFits, Sends
<1> QED BY <1>1, <1>2, <1>3, <1>4, <1>5, SendInv DEF Submit, Send


-----------------------------------------------------------------------------
(* Rows are created.                                                           *)

\* A new row has the id that its side gives it, and everything else is known as before.
LEMMA CreatesRow ==
    ASSUME IInv, NEW w \in writes, NEW row \in Customer \cup Order, Creates(w, row)
    PROVE  /\ row \in Row /\ w \in Write /\ WriteFits(w) /\ WriteIsKnown(w)
           /\ ids' \in [Side -> [Kind -> Seq(Row \cup {Foreign})]] /\ queue' \in Seq(Row)
           /\ KnownStays /\ Still
           /\ \E ref \in Ref : /\ ref = NewRef(w, row) /\ ref.row = row /\ ref.kind = KindOf(row)
                               /\ Known(w.side, ref)'
<1>1. row \in Row /\ w \in Write /\ w.side \in Side /\ TypeOK /\ WriteFits(w) /\ WriteIsKnown(w)
  BY DEF Row, IInv, TypeOK, Write, HeardFits, WritesAreKnown
<1>2. /\ ids' \in [Side -> [Kind -> Seq(Row \cup {Foreign})]] /\ Gains
      /\ ids'[w.side][KindOf(row)] = Append(ids[w.side][KindOf(row)], row)
  BY <1>1, InsertGains DEF Creates
<1>3. queue' \in Seq(Row) /\ Still /\ KnownStays
  BY <1>1, <1>2, GainsKeep DEF Creates, TypeOK, Still
<1>4. PICK ref : ref = NewRef(w, row)
  OBVIOUS
<1> DEFINE q == ids[w.side][KindOf(row)]
<1>5. KindOf(row) \in Kind /\ q \in Seq(Row \cup {Foreign})
  BY <1>1, KindOfRow DEF TypeOK
<1>6. ref = [kind |-> KindOf(row), id |-> Len(q) + 1, row |-> row]
  BY <1>4 DEF NewRef
<1>7. Len(q) \in Nat /\ Len(q) + 1 \in Nat \ {0}
  BY <1>5
<1> HIDE DEF q
<1>8. ref \in Ref /\ ref.row = row /\ ref.kind = KindOf(row) /\ ref.id = Len(q) + 1
  BY <1>1, <1>5, <1>6, <1>7 DEF Ref
<1>9. /\ Len(q) + 1 \in DOMAIN ids'[w.side][KindOf(row)]
      /\ ids'[w.side][KindOf(row)][Len(q) + 1] = row
  BY <1>2, <1>5, <1>7 DEF q
<1>10. Hit(w.side, ref)' = row
  BY <1>8, <1>9 DEF Hit, Means
<1>11. Known(w.side, ref)'
  BY <1>8, <1>10 DEF Known
<1> QED BY <1>1, <1>2, <1>3, <1>4, <1>8, <1>11

\* The new customer is picked; with the gate closed since the page opened it is the cloud's.
LEMMA CustomerCreatedInv ==
    ASSUME IInv, NEW w \in writes, NEW row \in Customer \cup Order, NEW told \in BOOLEAN,
           CustomerCreated(w, row, told)
    PROVE  IInv'
<1>1. /\ row \in Row /\ w \in Write /\ WriteFits(w)
      /\ ids' \in [Side -> [Kind -> Seq(Row \cup {Foreign})]] /\ queue' \in Seq(Row)
      /\ KnownStays /\ Still /\ TypeOK
  BY CreatesRow DEF CustomerCreated, IInv
<1>2. PICK ref \in Ref : ref = NewRef(w, row) /\ Known(w.side, ref)'
  BY CreatesRow DEF CustomerCreated
<1>3. page' \in Page /\ Stays /\ Keeps /\ PicksHold
  <2>1. CASE ~w.heard
    BY <1>1, <2>1, SamePage, Ground DEF CustomerCreated
  <2>2. CASE w.heard /\ ~told
    BY <1>1, <2>2, OnlyDrawn DEF CustomerCreated
  <2>3. CASE w.heard /\ told
    <3>1. page' = [Drawn(page) EXCEPT !.customer = ref]
      BY <1>2, <2>3 DEF CustomerCreated
    <3>2. /\ page' \in Page /\ Stays /\ Keeps /\ page'.customer = ref /\ page'.lines = page.lines
          /\ page'.at = flips /\ page'.local = ready /\ page'.opened = page.opened
      BY <1>1, <3>1, Ground DEF Page, Drawn, Stays, Renders, Keeps
    <3>3. page.opened <= w.at /\ w.at <= page.at /\ w.side = SideAt(w.at) /\ w.at \in Nat
      BY <1>1, <2>3, ScreensAssumption DEF CustomerCreated, WriteFits, Write
    <3>4. page.at <= flips /\ page.at \in Nat /\ page.opened \in Nat /\ flips \in Nat
      BY <1>1, PageType DEF IInv, Rendered
    <3>5. ASSUME page'.opened = page'.at, ~page'.local PROVE Known("cloud", ref)'
      <4>1. w.at = flips
        BY <3>2, <3>3, <3>4, <3>5
      <4>2. w.side = "cloud"
        BY <3>2, <3>3, <3>5, <4>1 DEF IInv, Turns, SideAt, Repo
      <4> QED BY <1>2, <4>2
    <3>6. PicksHold
      BY <3>2, <3>5 DEF PicksHold
    <3> QED BY <3>2, <3>6
  <2> QED BY <2>1, <2>2, <2>3
<1>4. TypeOK'
  BY <1>1, <1>3 DEF CustomerCreated, Creates, TypeOK
<1>5. ClosedGateOrders' /\ EditsReachTheShownRow'
  BY SameMade, SameAstray DEF CustomerCreated, Creates, IInv
<1> QED BY <1>1, <1>3, <1>4, <1>5, FewerWrites, StayInv DEF CustomerCreated, Creates


\* An order is recorded with what was picked and with what its side takes the ids for.
LEMMA OrderIsMade ==
    ASSUME IInv, NEW w \in writes, NEW row \in Customer \cup Order, NEW told \in BOOLEAN,
           OrderCreated(w, row, told)
    PROVE  /\ made \subseteq made'
           /\ made' \subseteq [order: Order, side: Side, picked: SUBSET Row, refers: SUBSET Row, calm: BOOLEAN]
           /\ \E m \in made' : m.order = row /\ m.side = w.side
           /\ ClosedGateOrders'
<1>1. PICK m : m = [order |-> row, side |-> w.side, calm |-> w.calm,
                    picked |-> {r.row : r \in w.picks}, refers |-> {Hit(w.side, r) : r \in w.picks}]
  OBVIOUS
<1>2. made' = made \cup {m} /\ row \in Order /\ Reaches(w) /\ w.verb = "order"
  BY <1>1 DEF OrderCreated
<1>3. w \in Write /\ WriteIsKnown(w) /\ TypeOK
  BY DEF IInv, TypeOK, WritesAreKnown
<1>4. w.picks \subseteq Ref /\ w.side \in Side /\ w.calm \in BOOLEAN
  BY <1>3 DEF Write
<1>5. {r.row : r \in w.picks} \subseteq Row
  BY <1>4 DEF Ref
<1>6. {Hit(w.side, r) : r \in w.picks} \subseteq Row
  BY <1>2, <1>3, <1>4, HitType DEF Reaches
<1>7. m \in [order: Order, side: Side, picked: SUBSET Row, refers: SUBSET Row, calm: BOOLEAN]
  BY <1>1, <1>2, <1>4, <1>5, <1>6
<1>8. m.calm => m.refers = m.picked
  BY <1>1, <1>2, <1>3 DEF WriteIsKnown, Known
<1>9. ClosedGateOrders'
  BY <1>2, <1>8 DEF IInv, ClosedGateOrders
<1>10. m.order = row /\ m.side = w.side
  BY <1>1
<1>11. made \subseteq [order: Order, side: Side, picked: SUBSET Row, refers: SUBSET Row, calm: BOOLEAN]
  BY <1>3 DEF TypeOK
<1> QED BY <1>2, <1>7, <1>9, <1>10, <1>11

\* The success screen shows the order by the id its side gave it, and says which side that was.
LEMMA OrderCreatedInv ==
    ASSUME IInv, NEW w \in writes, NEW row \in Customer \cup Order, NEW told \in BOOLEAN,
           OrderCreated(w, row, told)
    PROVE  IInv'
<1>1. /\ row \in Row /\ w \in Write /\ WriteFits(w)
      /\ ids' \in [Side -> [Kind -> Seq(Row \cup {Foreign})]] /\ queue' \in Seq(Row)
      /\ KnownStays /\ Still /\ TypeOK
  BY CreatesRow DEF OrderCreated, IInv
<1>2. PICK ref \in Ref : ref = NewRef(w, row) /\ ref.row = row /\ ref.kind = KindOf(row) /\ Known(w.side, ref)'
  BY CreatesRow DEF OrderCreated
<1>3. made \subseteq made' /\ ClosedGateOrders' /\ EditsReachTheShownRow'
  BY OrderIsMade, SameAstray DEF OrderCreated, Creates, IInv
<1>4. ASSUME page' \in Page PROVE TypeOK'
  BY <1>1, <1>4, OrderIsMade DEF OrderCreated, Creates, TypeOK
<1>5. CASE ~(w.heard /\ told)
  <2>1. page' \in Page /\ Stays /\ Keeps /\ PicksHold
    <3>1. CASE ~w.heard
      BY <1>1, <3>1, SamePage, Ground DEF OrderCreated
    <3>2. CASE w.heard /\ ~told
      BY <1>1, <3>2, Ground DEF OrderCreated, Page, Drawn, Stays, Renders, Keeps, PicksHold
    <3> QED BY <1>5, <3>1, <3>2
  <2> QED BY <1>1, <1>3, <1>4, <2>1, FewerWrites, StayInv DEF OrderCreated, Creates
<1>6. CASE w.heard /\ told
  <2>1. PICK b \in BOOLEAN : b = (w.side = "local")
    OBVIOUS
  <2>2. w.at \in 0..MaxFlips /\ w.side = SideAt(w.at) /\ w.side \in Side
    BY <1>1, <1>6 DEF OrderCreated, WriteFits, Write
  <2>3. /\ page' \in Page /\ Stays
        /\ page'.rows = page.rows /\ page'.since = page.since
        /\ page'.target = page.target /\ page'.targetAt = page.targetAt
        /\ page'.watching = page.watching /\ page'.latest = page.latest
        /\ page'.draft = page.draft /\ page'.lines = page.lines /\ page'.customer = page.customer
        /\ page'.step = "success" /\ page'.made = ref /\ page'.madeAt = w.at
        /\ page'.saved = b
    <3>1. page' = [Drawn(page) EXCEPT !.step = "success", !.made = ref, !.madeAt = w.at, !.saved = b]
      BY <1>2, <1>6, <2>1 DEF OrderCreated
    <3>2. page' = [page EXCEPT !.local = ready, !.at = flips, !.step = "success", !.made = ref,
                               !.madeAt = w.at, !.saved = b]
      BY <1>1, <3>1, Ground DEF Page, Drawn
    <3>3. page' \in Page
      BY <1>1, <2>2, <3>2, Ground DEF Page
    <3> QED BY <1>1, <3>2, <3>3, Ground DEF Page, Stays, Renders
  <2>4. TypeOK' /\ reads' = reads /\ writes' \subseteq writes
    BY <1>4, <2>3 DEF OrderCreated, Creates
  <2>5. Turns' /\ Rendered' /\ page.at <= page'.at
    BY <1>1, <2>3, KeepRendered DEF IInv
  <2>6. AskedOfASide' /\ RowsAreKnown' /\ TargetIsKnown'
    BY <1>1, <2>3, <2>4, KeepAsked, KeepRows, KeepTarget DEF IInv
  <2>7. MadeIsKnown'
    <3>1. ref # NoRef /\ ref.kind = "order"
      BY <1>2, NoRefIsNone, KindOfRow DEF OrderCreated, Row
    <3> QED BY <1>2, <2>2, <2>3, <3>1 DEF MadeIsKnown, Known
  <2>8. WritesAreKnown' /\ HeardFits'
    BY <1>1, <2>3, <2>4, <2>5, KeepWrites, KeepHeard DEF IInv
  <2>9. PicksAreKnown'
    BY <1>1, <2>3, <2>4, <2>5, KeepPicks DEF IInv
  <2>10. ReadsAreFew'
    BY <2>3, KeepFew DEF IInv
  <2>11. SavedHonestly'
    <3>1. PICK m \in made' : m.order = row /\ m.side = w.side
      BY OrderIsMade
    <3> QED BY <1>2, <2>1, <2>3, <3>1 DEF SavedHonestly
  <2> QED BY <1>3, <2>4, <2>5, <2>6, <2>7, <2>8, <2>9, <2>10, <2>11, FewerWrites DEF IInv
<1> QED BY <1>5, <1>6


-----------------------------------------------------------------------------
(* A page reads, or is answered.                                               *)

\* A step that leaves the picks and the success screen as they are.
KeepsPicks ==
    /\ page'.made = page.made /\ page'.madeAt = page.madeAt /\ page'.saved = page.saved
    /\ page'.step = page.step /\ page'.draft = page.draft /\ page'.lines = page.lines
    /\ page'.customer = page.customer

LEMMA StepInv ==
    ASSUME IInv, TypeOK', UNCHANGED <<ids, ready, flips, made>>, Stays, KeepsPicks,
           AskedOfASide', RowsAreKnown', TargetIsKnown', HeardFits', ReadsAreFew',
           writes' \subseteq writes, EditsReachTheShownRow'
    PROVE  IInv'
<1>1. Still /\ KnownStays /\ TypeOK
  BY SameIdsKeep DEF Still, IInv
<1>2. Turns' /\ Rendered' /\ page.at <= page'.at
  BY <1>1, KeepRendered DEF IInv
<1>3. MadeIsKnown' /\ WritesAreKnown' /\ ClosedGateOrders'
  BY <1>1, KeepMade, KeepWrites, SameMade DEF IInv, KeepsPicks
<1>4. PicksAreKnown'
  BY <1>1, <1>2, KeepPicks DEF IInv, KeepsPicks
<1>5. SavedHonestly'
  BY DEF IInv, SavedHonestly, KeepsPicks
<1> QED BY <1>2, <1>3, <1>4, <1>5, FewerWrites DEF IInv

\* The rows of a table are known on their side.
LEMMA ListedAreKnown ==
    ASSUME TypeOK, NEW s \in Side, NEW k \in Kind
    PROVE  \A r \in Listed(s, k) : r \in Ref /\ r.kind = k /\ Known(s, r)
<1> SUFFICES ASSUME NEW i \in DOMAIN ids[s][k], ids[s][k][i] # Foreign,
                    NEW r, r = [kind |-> k, id |-> i, row |-> ids[s][k][i]]
             PROVE  r \in Ref /\ r.kind = k /\ Known(s, r)
  BY DEF Listed
<1>1. ids[s][k] \in Seq(Row \cup {Foreign})
  BY DEF TypeOK
<1>2. i \in Nat \ {0} /\ ids[s][k][i] \in Row
  BY <1>1
<1>3. r \in Ref
  BY <1>2 DEF Ref
<1>4. Hit(s, r) = r.row
  BY DEF Hit, Means
<1> QED BY <1>3, <1>4 DEF Known

\* What a read under way finds.
LEMMA FoundAreKnown ==
    ASSUME IInv, NEW r \in reads
    PROVE  /\ r \in Read /\ AskFits(r)
           /\ \A x \in Found(r) : x \in Ref /\ x.kind = r.kind /\ Known(r.side, x)
BY ListedAreKnown DEF IInv, AskedOfASide, TypeOK, Read, Found

\* An answer that changes the rows and nothing else.
LEMMA AnswerInv ==
    ASSUME IInv, page' \in Page, Stays, KeepsPicks, NEW r \in reads, reads' = reads \ {r},
           page'.target = page.target, page'.targetAt = page.targetAt,
           page'.watching = page.watching, page'.latest = page.latest, RowsAreKnown',
           UNCHANGED <<ids, queue, pulled, ready, flips, writes, made, astray>>
    PROVE  IInv'
<1>1. TypeOK /\ TypeOK' /\ KnownStays /\ Still
  BY SameIdsKeep DEF IInv, TypeOK, Still
<1>2. Rendered' /\ page.at <= page'.at
  BY <1>1, KeepRendered DEF IInv
<1>3. AskedOfASide' /\ TargetIsKnown' /\ HeardFits' /\ ReadsAreFew'
  BY <1>1, <1>2, KeepAsked, KeepTarget, KeepHeard, KeepFew DEF IInv
<1>4. EditsReachTheShownRow'
  BY SameAstray DEF IInv
<1> QED BY <1>1, <1>3, <1>4, StepInv

\* A list takes whatever answer arrives, and with it the turn at which that read began.
LEMMA ListAnsweredInv == ASSUME IInv, NEW r \in reads, ListAnswered(r) PROVE IInv'
<1>1. TypeOK /\ Found(r) \subseteq Ref /\ r.since \in 0..MaxFlips
  BY FoundAreKnown DEF IInv, Read
<1>2. /\ page' \in Page /\ Stays /\ KeepsPicks
      /\ page'.target = page.target /\ page'.targetAt = page.targetAt
      /\ page'.watching = page.watching /\ page'.latest = page.latest
      /\ page'.rows = Found(r) /\ page'.since = r.since
  BY <1>1, Ground DEF ListAnswered, Page, Drawn, Stays, Renders, KeepsPicks
<1>3. RowsAreKnown'
  <2> SUFFICES ASSUME NEW x \in Found(r) PROVE RowFits(x)'
    BY <1>2 DEF RowsAreKnown
  <2>1. page.name \in Lists /\ page'.name = page.name /\ ids' = ids
    BY <1>2 DEF ListAnswered, Lists, Stays
  <2>2. page.name \notin CloudPages /\ page.name # "details" /\ page.name # "create"
    BY <2>1 DEF Lists, CloudPages
  <2>3. Known(r.side, x) /\ x.kind = ListKind /\ r.side = SideAt(r.since)
    BY <2>2, FoundAreKnown DEF AskFits
  <2> QED BY <1>2, <2>1, <2>2, <2>3 DEF RowFits, Known, Hit, Means, ListKind
<1> QED BY <1>2, <1>3, AnswerInv DEF ListAnswered

\* A catalog replaces the rows of its kind.
LEMMA CatalogAnsweredInv == ASSUME IInv, NEW r \in reads, CatalogAnswered(r) PROVE IInv'
<1>1. TypeOK /\ Found(r) \subseteq Ref
  BY FoundAreKnown DEF IInv
<1>2. {x \in page.rows : x.kind # r.kind} \cup Found(r) \subseteq Ref
  BY <1>1, PageType
<1>3. /\ page' \in Page /\ Stays /\ KeepsPicks
      /\ page'.target = page.target /\ page'.targetAt = page.targetAt
      /\ page'.watching = page.watching /\ page'.latest = page.latest
      /\ page'.rows = {x \in page.rows : x.kind # r.kind} \cup Found(r)
  BY <1>1, <1>2, Ground DEF CatalogAnswered, Page, Drawn, Stays, Renders, KeepsPicks
<1>4. RowsAreKnown'
  <2> SUFFICES ASSUME NEW x \in page.rows \cup Found(r) PROVE RowFits(x)'
    BY <1>3 DEF RowsAreKnown
  <2>1. page.name = "create" /\ page'.name = page.name /\ ids' = ids
    BY <1>3 DEF CatalogAnswered, Shows, Stays
  <2>2. Known("cloud", x)
    BY <2>1, FoundAreKnown, CatalogIsKnown DEF AskFits, CloudPages, Shows
  <2> QED BY <2>1, <2>2 DEF RowFits, Known, Hit, Means, CloudPages
<1> QED BY <1>3, <1>4, AnswerInv DEF CatalogAnswered

\* A view shows what the id in the address names on the side that was asked.
LEMMA ViewAnsweredInv == ASSUME IInv, NEW r \in reads, ViewAnswered(r) PROVE IInv'
<1>1. TypeOK /\ Found(r) \subseteq Ref /\ r.since \in 0..MaxFlips
  BY FoundAreKnown DEF IInv, Read
<1>2. /\ page' \in Page /\ Stays /\ KeepsPicks
      /\ page'.target = page.target /\ page'.targetAt = page.targetAt
      /\ page'.watching = page.watching /\ page'.latest = page.latest
      /\ page'.rows = {x \in Found(r) : x.id = page.target.id} /\ page'.since = r.since
  BY <1>1, Ground DEF ViewAnswered, Page, Drawn, Stays, Renders, KeepsPicks
<1>3. RowsAreKnown'
  <2> SUFFICES ASSUME NEW x \in Found(r), x.id = page.target.id PROVE RowFits(x)'
    BY <1>2 DEF RowsAreKnown
  <2>1. page.name \in {"details", "profile"} /\ page'.name = page.name /\ ids' = ids
    BY <1>2 DEF ViewAnswered, Stays
  <2>2. Known(r.side, x) /\ x.kind = ListKind
    BY <2>1, FoundAreKnown DEF AskFits
  <2>3. r.side = IF page.name \in CloudPages THEN "cloud" ELSE SideAt(r.since)
    BY FoundAreKnown DEF AskFits
  <2> QED BY <1>2, <2>1, <2>2, <2>3 DEF RowFits, Known, Hit, Means, ListKind
<1> QED BY <1>2, <1>3, AnswerInv DEF ViewAnswered


\* A page that reads once more, with its dialog closed or not.
LEMMA ReloadInv ==
    ASSUME IInv, page' \in Page, Stays, KeepsPicks, NEW q \in Read, reads' = reads \cup {q},
           q.kind = ListKind, q.side = IF page.name \in CloudPages THEN "cloud" ELSE SideAt(q.since),
           page'.rows = page.rows /\ page'.since = page.since /\ page'.watching = page.watching,
           \/ page'.target = page.target /\ page'.targetAt = page.targetAt
           \/ page'.target = NoRef /\ page.name # "details",
           HeardFits', ReadsAreFew', writes' \subseteq writes, EditsReachTheShownRow', astray' \subseteq Verb,
           UNCHANGED <<ids, queue, pulled, ready, flips, made>>
    PROVE  IInv'
<1>1. TypeOK /\ KnownStays /\ Still
  BY SameIdsKeep DEF IInv, Still
<1>2. TypeOK'
  BY <1>1 DEF TypeOK
<1>3. AskFits(q)'
  BY DEF AskFits, Stays, ListKind
<1>4. AskedOfASide'
  BY <1>3, KeepAsked DEF IInv
<1>5. RowsAreKnown'
  BY <1>1, KeepRows, NoRefIsNone DEF IInv
<1>6. TargetIsKnown'
  BY <1>1, KeepTarget DEF IInv, TargetIsKnown, Stays
<1> QED BY <1>2, <1>4, <1>5, <1>6, StepInv

\* The bound on what a page has read, and so on what it reads next.
LEMMA FewReads ==
    ASSUME IInv
    PROVE  /\ page.latest[ListKind] \in 0..MaxReads + 2 /\ ListKind \in Kind
           /\ page.latest \in [Kind -> 0..MaxReads + 2] /\ MaxReads \in Nat
BY PageType, ScreensAssumption DEF IInv

LEMMA SearchInv == ASSUME IInv, Search PROVE IInv'
<1>1. PICK k \in Kind : k = ListKind
  BY FewReads
<1>2. PICK q : q = Asks(k, page.latest[k] + 1, Repo(ready))
  OBVIOUS
<1>3. q \in Read /\ q.kind = ListKind /\ q.side = SideAt(q.since) /\ page.latest[k] < MaxReads
  BY <1>1, <1>2, FewReads, RenderSide DEF Read, Asks, Search
<1>4. page' = [Drawn(page) EXCEPT !.latest[k] = @ + 1] /\ reads' = reads \cup {q}
  BY <1>1, <1>2 DEF Search, Reload
<1>5. page.latest[k] + 1 \in 0..MaxReads + 2
  BY <1>3, FewReads, <1>1
<1>6. /\ page' \in Page /\ Stays /\ KeepsPicks
      /\ page'.rows = page.rows /\ page'.since = page.since /\ page'.watching = page.watching
      /\ page'.target = page.target /\ page'.targetAt = page.targetAt
      /\ page'.latest = [page.latest EXCEPT ![k] = @ + 1] /\ page'.opened = page.opened
  BY <1>4, <1>5, Ground DEF IInv, Page, Drawn, Stays, Renders, KeepsPicks
<1>7. page.name \in Lists /\ page'.name = page.name
  BY <1>6 DEF Search, Lists, Stays
<1>8. page.name \notin CloudPages /\ page.name # "details"
  BY <1>7 DEF Lists, CloudPages
<1>9. HeardFits'
  <2> SUFFICES ASSUME NEW w \in writes PROVE WriteFits(w)'
    BY DEF HeardFits, Search
  <2>1. WriteFits(w) /\ w.at \in Nat
    BY ScreensAssumption DEF IInv, HeardFits, TypeOK, Write
  <2>2. w.heard => w.verb \in {"edit", "delete", "adjust"}
    BY <1>7, <2>1 DEF WriteFits, Sends, Lists
  <2> QED BY <1>6, <1>7, <2>1, <2>2 DEF WriteFits
<1>10. ReadsAreFew'
  BY <1>1, <1>3, <1>6, <1>7, FewReads DEF IInv, ReadsAreFew, ListKind
<1>11. EditsReachTheShownRow' /\ astray' \subseteq Verb
  BY SameAstray DEF IInv, TypeOK, Search
<1> QED BY <1>3, <1>4, <1>6, <1>8, <1>9, <1>10, <1>11, ReloadInv DEF Search


\* A listed product is kept aside, with the turn at which its row was read.
LEMMA ChooseInv == ASSUME IInv, NEW r \in page.rows, Choose(r) PROVE IInv'
<1>1. TypeOK /\ r \in Ref /\ RowFits(r) /\ page.since \in 0..MaxFlips
  BY PageType, Ground DEF IInv, RowsAreKnown, Page
<1>2. /\ page' \in Page /\ Stays /\ KeepsPicks
      /\ page'.rows = page.rows /\ page'.since = page.since /\ page'.watching = page.watching
      /\ page'.target = r /\ page'.targetAt = page.since /\ page'.latest = page.latest
  BY <1>1, Ground DEF Choose, Page, Drawn, Stays, Renders, KeepsPicks
<1>3. page.name \in {"products", "inventory"} /\ page'.name = page.name /\ r # NoRef
  BY <1>1, <1>2, NoRefIsNone DEF Choose, Stays
<1>4. TypeOK' /\ KnownStays /\ reads' = reads /\ writes' = writes /\ ids' = ids
  BY <1>1, <1>2, SameIdsKeep DEF Choose, TypeOK
<1>5. AskedOfASide' /\ RowsAreKnown'
  BY <1>1, <1>2, <1>3, <1>4, KeepAsked, KeepRows DEF IInv
<1>6. TargetIsKnown'
  BY <1>1, <1>2, <1>3, <1>4 DEF TargetIsKnown, RowFits, CloudPages, Known, Hit, Means
<1>7. HeardFits'
  <2> SUFFICES ASSUME NEW w \in writes PROVE WriteFits(w)'
    BY <1>4 DEF HeardFits
  <2>1. WriteFits(w) /\ page.target = NoRef
    BY DEF IInv, HeardFits, Choose
  <2> QED BY <1>2, <1>3, <2>1 DEF WriteFits, Sends
<1>8. ReadsAreFew'
  BY <1>2, <1>3, FewReads DEF Choose, IInv, ReadsAreFew, ListKind, Lists
<1>9. EditsReachTheShownRow'
  BY SameAstray DEF IInv, Choose
<1> QED BY <1>2, <1>4, <1>5, <1>6, <1>7, <1>8, <1>9, StepInv DEF Choose

\* The write of a dialog or of a profile is answered; the page reads again.
LEMMA SavedInv == ASSUME IInv, NEW w \in writes, Saved(w) PROVE IInv'
<1>1. PICK k \in Kind : k = ListKind
  BY FewReads
<1> DEFINE s == IF w.verb = "update" THEN "cloud" ELSE Repo(ready)
<1>2. PICK q : q = Asks(k, page.latest[k] + 1, s)
  OBVIOUS
<1>3. /\ w.heard /\ w.verb \in {"edit", "delete", "adjust", "update"} /\ WriteFits(w) /\ TypeOK
      /\ EditsReachTheShownRow' /\ astray' \subseteq Verb /\ writes' = writes \ {w}
  BY ChangesKeep DEF Saved, IInv, HeardFits
<1>4. CASE w.verb = "update"
  <2>1. page.name = "profile" /\ k = "customer" /\ page.latest[k] < MaxReads
    BY <1>1, <1>3, <1>4 DEF WriteFits, Sends, ListKind
  <2>2. q \in Read /\ q.kind = ListKind /\ q.side = "cloud"
    BY <1>1, <1>2, <1>4, <2>1, FewReads, RenderSide DEF Read, Asks, Side
  <2>3. page' = [Drawn(page) EXCEPT !.latest[k] = @ + 1] /\ reads' = reads \cup {q}
    BY <1>2, <1>4, <2>1 DEF Saved, Reload
  <2>4. page.latest[k] + 1 \in 0..MaxReads + 2
    BY <1>1, <2>1, FewReads
  <2>5. /\ page' \in Page /\ Stays /\ KeepsPicks
        /\ page'.rows = page.rows /\ page'.since = page.since /\ page'.watching = page.watching
        /\ page'.target = page.target /\ page'.targetAt = page.targetAt
        /\ page'.latest = [page.latest EXCEPT ![k] = @ + 1] /\ page'.name = page.name
    BY <1>3, <2>3, <2>4, Ground DEF Page, Drawn, Stays, Renders, KeepsPicks
  <2>6. HeardFits'
    <3> SUFFICES ASSUME NEW v \in writes \ {w} PROVE WriteFits(v)'
      BY <1>3 DEF HeardFits
    <3>1. ~v.heard
      BY <1>3, <1>4 DEF IInv, OneAtATime
    <3> QED BY <3>1 DEF WriteFits
  <2>7. ReadsAreFew'
    BY <1>1, <2>1, <2>5, FewReads DEF IInv, ReadsAreFew, ListKind, Lists
  <2> QED BY <1>3, <2>1, <2>2, <2>3, <2>5, <2>6, <2>7, ReloadInv DEF Saved, CloudPages
<1>5. CASE w.verb # "update"
  <2>1. page.name \in {"products", "inventory"} /\ page.target # NoRef
    BY <1>3, <1>5 DEF WriteFits, Sends
  <2>2. page.latest[k] <= MaxReads + 1
    BY <1>1, <2>1, FewReads DEF IInv, ReadsAreFew, Lists
  <2>3. q \in Read /\ q.kind = ListKind /\ q.side = SideAt(q.since)
    BY <1>1, <1>2, <1>5, <2>2, FewReads, RenderSide DEF Read, Asks
  <2>4. /\ page' = [Drawn([page EXCEPT !.target = NoRef, !.targetAt = 0]) EXCEPT !.latest[k] = @ + 1]
        /\ reads' = reads \cup {q}
    <3>1. [page EXCEPT !.target = NoRef, !.targetAt = 0].latest = page.latest
      BY <1>3, Ground DEF Page
    <3> QED BY <1>1, <1>2, <1>5, <3>1 DEF Saved, Reload
  <2>5. page.latest[k] + 1 \in 0..MaxReads + 2
    BY <1>1, <2>2, FewReads
  <2>6. /\ page' \in Page /\ Stays /\ KeepsPicks
        /\ page'.rows = page.rows /\ page'.since = page.since /\ page'.watching = page.watching
        /\ page'.target = NoRef /\ page'.name = page.name
        /\ page'.latest = [page.latest EXCEPT ![k] = @ + 1]
    <3>1. PICK L : L = [page.latest EXCEPT ![k] = @ + 1]
      OBVIOUS
    <3>2. L \in [Kind -> 0..MaxReads + 2]
      BY <2>5, <3>1, FewReads
    <3>3. page' = [page EXCEPT !.target = NoRef, !.targetAt = 0, !.local = ready, !.at = flips, !.latest = L]
      BY <1>3, <2>4, <3>1, Ground DEF Page, Drawn
    <3>4. page' \in Page
      <4>1. 0 \in 0..MaxFlips /\ NoRef \in Ref \cup {NoRef}
        BY ScreensAssumption
      <4>2. page \in Page /\ ready \in BOOLEAN /\ flips \in 0..MaxFlips
        BY <1>3, Ground
      <4> QED BY <3>2, <3>3, <4>1, <4>2 DEF Page
    <3> QED BY <1>3, <3>1, <3>3, <3>4, Ground DEF Page, Stays, Renders, KeepsPicks
  <2>7. HeardFits'
    <3> SUFFICES ASSUME NEW v \in writes \ {w} PROVE WriteFits(v)'
      BY <1>3 DEF HeardFits
    <3>1. ~v.heard
      BY <1>3, <1>5 DEF IInv, OneAtATime
    <3> QED BY <3>1 DEF WriteFits
  <2>8. ReadsAreFew'
    BY <1>1, <2>1, <2>6, FewReads DEF IInv, ReadsAreFew, ListKind, Lists
  <2>9. page.name \notin CloudPages /\ page.name # "details"
    BY <2>1 DEF CloudPages
  <2> QED BY <1>3, <2>3, <2>4, <2>6, <2>7, <2>8, <2>9, ReloadInv DEF Saved
<1> QED BY <1>4, <1>5


\* The status is set: in local mode the order is read again, otherwise the answer is the order.
LEMMA StatusSetInv == ASSUME IInv, NEW w \in writes, StatusSet(w) PROVE IInv'
<1>1. /\ w.heard /\ w.verb = "status" /\ WriteFits(w) /\ TypeOK /\ w \in Write /\ Reaches(w)
      /\ EditsReachTheShownRow' /\ astray' \subseteq Verb /\ writes' = writes \ {w}
  BY ChangesKeep DEF StatusSet, Changes, IInv, HeardFits, TypeOK
<1>2. page.name = "details" /\ ListKind = "order" /\ page.latest["order"] < MaxReads
  BY <1>1 DEF WriteFits, Sends, ListKind
<1>3. ASSUME page'.name = page.name PROVE HeardFits'
  <2> SUFFICES ASSUME NEW v \in writes \ {w} PROVE WriteFits(v)'
    BY <1>1 DEF HeardFits
  <2>1. ~v.heard
    BY <1>1 DEF IInv, OneAtATime
  <2> QED BY <2>1 DEF WriteFits
<1>4. CASE w.side = "local"
  <2>1. PICK q : q = Asks("order", page.latest["order"] + 1, Repo(ready))
    OBVIOUS
  <2>2. q \in Read /\ q.kind = ListKind /\ q.side = SideAt(q.since)
    BY <1>2, <2>1, FewReads, RenderSide DEF Read, Asks
  <2>3. page' = [Drawn(page) EXCEPT !.latest["order"] = @ + 1] /\ reads' = reads \cup {q}
    BY <1>4, <2>1 DEF StatusSet, Reload
  <2>4. page.latest["order"] + 1 \in 0..MaxReads + 2
    BY <1>2, FewReads
  <2>5. /\ page' \in Page /\ Stays /\ KeepsPicks
        /\ page'.rows = page.rows /\ page'.since = page.since /\ page'.watching = page.watching
        /\ page'.target = page.target /\ page'.targetAt = page.targetAt
        /\ page'.latest = [page.latest EXCEPT !["order"] = @ + 1] /\ page'.name = page.name
    BY <1>1, <2>3, <2>4, Ground DEF Page, Drawn, Stays, Renders, KeepsPicks
  <2>6. ReadsAreFew'
    BY <1>2, <2>5, FewReads DEF IInv, ReadsAreFew, ListKind, Lists
  <2>7. HeardFits' /\ writes' \subseteq writes
    BY <1>1, <1>3, <2>5
  <2>8. q.side = IF page.name \in CloudPages THEN "cloud" ELSE SideAt(q.since)
    BY <1>2, <2>2 DEF CloudPages
  <2>9. UNCHANGED <<ids, queue, pulled, ready, flips, made>>
    BY DEF StatusSet
  <2> QED BY <1>1, <2>2, <2>3, <2>5, <2>6, <2>7, <2>8, <2>9, ReloadInv
<1>5. CASE w.side # "local"
  <2>1. PICK R : R = {[r EXCEPT !.row = Hit(w.side, r)] : r \in w.picks}
    OBVIOUS
  <2>2. w.picks \subseteq Ref /\ w.side \in Side /\ w.at \in 0..MaxFlips /\ w.side = SideAt(w.at)
    BY <1>1 DEF Write, WriteFits
  <2>3. \A x \in R : /\ x \in Ref /\ Known(w.side, x) /\ x.kind = "order"
                     /\ x.id = page.target.id
    <3> SUFFICES ASSUME NEW r \in w.picks, NEW x, x = [r EXCEPT !.row = Hit(w.side, r)]
                 PROVE  x \in Ref /\ Known(w.side, x) /\ x.kind = "order" /\ x.id = page.target.id
      BY <2>1
    <3>1. r \in Ref /\ r.kind = "order" /\ r.id = page.target.id
      BY <1>1, <2>2 DEF WriteFits
    <3>2. Hit(w.side, r) \in Row
      BY <1>1, <2>2, <3>1, HitType DEF Reaches
    <3>3. x \in Ref /\ x.kind = r.kind /\ x.id = r.id /\ x.row = Hit(w.side, r)
      BY <3>1, <3>2 DEF Ref
    <3> QED BY <3>1, <3>3 DEF Known, Hit
  <2>4. page' = [Drawn(page) EXCEPT !.rows = R, !.since = w.at] /\ reads' = reads
    BY <1>5, <2>1 DEF StatusSet
  <2>5. /\ page' \in Page /\ Stays /\ KeepsPicks
        /\ page'.target = page.target /\ page'.targetAt = page.targetAt
        /\ page'.watching = page.watching /\ page'.latest = page.latest
        /\ page'.rows = R /\ page'.since = w.at /\ page'.name = page.name
    <3>1. R \subseteq Ref
      BY <2>3
    <3> QED BY <1>1, <2>2, <2>4, <3>1, Ground DEF Page, Drawn, Stays, Renders, KeepsPicks
  <2>6. TypeOK' /\ KnownStays /\ ids' = ids
    BY <1>1, <2>4, <2>5, SameIdsKeep DEF StatusSet, TypeOK
  <2>7. RowsAreKnown'
    <3> SUFFICES ASSUME NEW x \in R PROVE RowFits(x)'
      BY <2>5 DEF RowsAreKnown
    <3> QED BY <1>2, <2>2, <2>3, <2>5, <2>6 DEF RowFits, Known, Hit, Means, ListKind, CloudPages
  <2>8. AskedOfASide' /\ TargetIsKnown' /\ ReadsAreFew'
    BY <1>1, <2>4, <2>5, <2>6, KeepAsked, KeepTarget, KeepFew DEF IInv
  <2> QED BY <1>1, <1>3, <2>5, <2>6, <2>7, <2>8, StepInv DEF StatusSet
<1> QED BY <1>4, <1>5

-----------------------------------------------------------------------------
(* A page is replaced by another.                                              *)

\* What the page that was left had sent is still what it was, and nobody waits for it.
LEMMA ArriveInv ==
    ASSUME IInv, TypeOK', UNCHANGED <<ids, ready, flips, made>>,
           page'.local = ready /\ page'.at = flips /\ page'.opened = flips,
           page'.rows = {} /\ page'.lines = {} /\ page'.step = "form",
           \A k \in Kind : page'.latest[k] <= 1,
           page'.watching => page'.name \in Lists,
           page'.name \in Lists => page'.target = NoRef,
           page'.name = "details" =>
             page'.target \in Ref /\ page'.target.kind = "order" /\ Known(SideAt(page.targetAt), page.target)',
           page'.name = "create" =>
             /\ \A r \in page'.draft : Known("cloud", r)'
             /\ page'.customer # NoRef => Known("cloud", page.customer)',
           \A r \in reads' : AskFits(r)',
           \A w \in writes' : ~w.heard /\ \E v \in writes :
               w.verb = v.verb /\ w.side = v.side /\ w.picks = v.picks /\ w.calm = v.calm,
           EditsReachTheShownRow'
    PROVE  IInv'
<1>1. TypeOK /\ KnownStays /\ Turns
  BY SameIdsKeep DEF IInv
<1>2. Turns' /\ Rendered'
  BY <1>1, Ground DEF Turns, Rendered
<1>3. AskedOfASide' /\ RowsAreKnown' /\ MadeIsKnown' /\ SavedHonestly'
  BY DEF AskedOfASide, RowsAreKnown, MadeIsKnown, SavedHonestly
<1>4. TargetIsKnown'
  BY NoRefIsNone DEF TargetIsKnown, Lists
<1>5. WritesAreKnown'
  BY DEF IInv, WritesAreKnown, WriteIsKnown, Known, Hit, Means
<1>6. HeardFits' /\ OneAtATime'
  BY DEF HeardFits, WriteFits, OneAtATime
<1>7. PicksAreKnown'
  BY DEF PicksAreKnown
<1>8. ReadsAreFew'
  <2>1. ListKind' \in Kind /\ page'.latest \in [Kind -> 0..MaxReads + 2] /\ MaxReads \in Nat
    BY ScreensAssumption DEF TypeOK, Page, ListKind, Kind
  <2> QED BY <2>1 DEF ReadsAreFew
<1>9. ClosedGateOrders'
  BY SameMade DEF IInv
<1> QED BY <1>2, <1>3, <1>4, <1>5, <1>6, <1>7, <1>8, <1>9 DEF IInv

\* A page is mounted with its reads begun.
LEMMA MountInv ==
    ASSUME IInv, NEW name \in Names, NEW p \in Page, NEW asked \in SUBSET Read, Mount(name, p, asked),
           p.rows = {} /\ p.lines = {} /\ p.step = "form",
           p.watching => name \in Lists,
           name \in Lists => p.target = NoRef,
           name = "details" =>
             p.target \in Ref /\ p.target.kind = "order" /\ Known(SideAt(p.targetAt), p.target),
           name = "create" =>
             /\ \A r \in p.draft : Known("cloud", r)
             /\ p.customer # NoRef => Known("cloud", p.customer),
           \A r \in asked : /\ r.side = IF name \in CloudPages THEN "cloud" ELSE SideAt(r.since)
                            /\ name # "create" =>
                                 r.kind = IF name \in {"products", "inventory"} THEN "product"
                                          ELSE IF name \in {"customers", "profile"} THEN "customer"
                                          ELSE "order"
    PROVE  IInv'
<1>1. TypeOK /\ page \in Page /\ ready \in BOOLEAN /\ flips \in 0..MaxFlips
  BY Ground DEF IInv
<1>2. PICK L : L = [k \in Kind |-> IF \E r \in asked : r.kind = k THEN 1 ELSE 0]
  OBVIOUS
<1>3. L \in [Kind -> 0..MaxReads + 2] /\ \A k \in Kind : L[k] <= 1
  BY <1>2, ScreensAssumption
<1>4. page' = [p EXCEPT !.local = ready, !.at = flips, !.name = name, !.opened = flips, !.latest = L]
  BY <1>2 DEF Mount, Drawn
<1>5. page' \in Page
  BY <1>1, <1>3, <1>4 DEF Page
<1>6. /\ page'.local = ready /\ page'.at = flips /\ page'.opened = flips /\ page'.name = name
      /\ page'.latest = L /\ page'.rows = p.rows /\ page'.lines = p.lines /\ page'.step = p.step
      /\ page'.watching = p.watching /\ page'.target = p.target /\ page'.targetAt = p.targetAt
      /\ page'.draft = p.draft /\ page'.customer = p.customer
  BY <1>4 DEF Page
<1>7. /\ reads' = asked /\ writes' = {[w EXCEPT !.heard = FALSE] : w \in writes}
      /\ UNCHANGED <<ids, queue, pulled, ready, flips, made, astray>>
  BY DEF Mount
<1>8. \A w \in writes' : w \in Write /\ ~w.heard /\ \E v \in writes :
         w.verb = v.verb /\ w.side = v.side /\ w.picks = v.picks /\ w.calm = v.calm
  <2> SUFFICES ASSUME NEW v \in writes, NEW w, w = [v EXCEPT !.heard = FALSE]
               PROVE  /\ w \in Write /\ ~w.heard
                      /\ w.verb = v.verb /\ w.side = v.side /\ w.picks = v.picks /\ w.calm = v.calm
    BY <1>7
  <2> QED BY <1>1 DEF TypeOK, Write
<1>9. TypeOK'
  BY <1>1, <1>5, <1>7, <1>8 DEF TypeOK
<1>10. page'.name = "details" =>
         page'.target \in Ref /\ page'.target.kind = "order" /\ Known(SideAt(page.targetAt), page.target)'
  BY <1>6, <1>7 DEF Known, Hit, Means
<1>11. page'.name = "create" =>
         /\ \A r \in page'.draft : Known("cloud", r)'
         /\ page'.customer # NoRef => Known("cloud", page.customer)'
  BY <1>6, <1>7 DEF Known, Hit, Means
<1>12. \A r \in reads' : AskFits(r)'
  BY <1>6, <1>7 DEF AskFits, ListKind
<1>13. EditsReachTheShownRow'
  BY <1>7, SameAstray DEF IInv
<1> QED BY <1>3, <1>6, <1>7, <1>8, <1>9, <1>10, <1>11, <1>12, <1>13, ArriveInv

\* A page with nothing shown, picked or sent yet.
LEMMA NewPage ==
    ASSUME TypeOK
    PROVE  /\ New \in Page /\ New.rows = {} /\ New.lines = {} /\ New.step = "form" /\ New.target = NoRef
           /\ New.visit = page.visit /\ New.draft = {} /\ New.customer = NoRef /\ New.watching = FALSE
<1>1. /\ Blank.name = "home" /\ Blank.visit = 0 /\ Blank.rows = {} /\ Blank.lines = {}
      /\ Blank.step = "form" /\ Blank.target = NoRef /\ Blank.draft = {} /\ Blank.customer = NoRef
      /\ Blank.watching = FALSE
  BY DEF Blank
<1>2. Blank \in Page
  <2>1. MaxVisits \in Nat /\ MaxFlips \in Nat /\ MaxReads \in Nat
    BY ScreensAssumption
  <2>2. [k \in Kind |-> 0] \in [Kind -> 0..MaxReads + 2]
    BY <2>1
  <2>3. 0 \in 0..MaxFlips /\ 0 \in 0..MaxVisits /\ NoRef \in Ref \cup {NoRef} /\ "home" \in Names
    BY <2>1 DEF Names
  <2> HIDE DEF Ref, NoRef, Names
  <2> QED BY <2>2, <2>3 DEF Blank, Page
<1>3. page.visit \in 0..MaxVisits
  BY DEF TypeOK, Page
<1>4. New = [Blank EXCEPT !.visit = page.visit]
  BY DEF New
<1> HIDE DEF Blank, New
<1>5. New \in Page
  BY <1>2, <1>3, <1>4 DEF Page
<1> QED BY <1>1, <1>2, <1>4, <1>5 DEF Page


\* The page that is opened from the menu.
LEMMA VisitPage ==
    ASSUME TypeOK, page.visit < MaxVisits
    PROVE  /\ Visit \in Page /\ Visit.rows = {} /\ Visit.lines = {} /\ Visit.step = "form"
           /\ Visit.target = NoRef /\ Visit.watching = FALSE
<1>1. PICK n : n = New
  OBVIOUS
<1>2. n \in Page /\ n.visit + 1 \in 0..MaxVisits
  <2>1. page.visit \in Nat /\ MaxVisits \in Nat
    BY ScreensAssumption DEF TypeOK, Page
  <2> QED BY <1>1, <2>1, NewPage
<1>3. Visit = [n EXCEPT !.visit = n.visit + 1]
  BY <1>1 DEF Visit
<1>4. n.rows = {} /\ n.lines = {} /\ n.step = "form" /\ n.target = NoRef /\ n.watching = FALSE
  BY <1>1, NewPage
<1> QED BY <1>2, <1>3, <1>4 DEF Page

LEMMA OpenListInv ==
    ASSUME IInv, NEW name \in Lists, NEW k \in Kind, OpenList(name, k),
           k = IF name \in {"products", "inventory"} THEN "product"
               ELSE IF name = "customers" THEN "customer" ELSE "order"
    PROVE  IInv'
<1>1. PICK v : v = Visit
  OBVIOUS
<1>2. /\ v \in Page /\ v.rows = {} /\ v.lines = {} /\ v.step = "form" /\ v.target = NoRef
      /\ ready \in BOOLEAN
  BY <1>1, VisitPage, Ground DEF IInv, OpenList
<1>3. PICK b \in BOOLEAN : b = ~ready
  BY <1>2
<1>4. PICK p : p = [v EXCEPT !.watching = b]
  OBVIOUS
<1>5. p \in Page /\ p.rows = {} /\ p.lines = {} /\ p.step = "form" /\ p.target = NoRef
  <2>1. v \in Page /\ b \in BOOLEAN
    BY <1>2, <1>3
  <2>2. p \in Page
    BY <1>4, <2>1 DEF Page
  <2> QED BY <1>2, <1>4, <2>1, <2>2 DEF Page
<1>6. PICK r : r = Asks(k, 1, Repo(ready))
  OBVIOUS
<1>7. r \in Read /\ r.kind = k /\ r.side = SideAt(r.since)
  BY <1>6, RenderSide, FewReads DEF Read, Asks
<1>8. Mount(name, p, {r})
  BY <1>1, <1>3, <1>4, <1>6 DEF OpenList
<1>9. name \in Names /\ name \notin CloudPages /\ name \notin {"details", "create", "profile"}
  BY DEF Lists, Names, CloudPages
<1> QED BY <1>5, <1>7, <1>8, <1>9, MountInv

\* The order is read with the id that the list showed, or that its creation gave back.
LEMMA OpenDetailsInv ==
    ASSUME IInv, NEW ref \in Ref, NEW at \in 0..MaxFlips, OpenDetails(ref, at),
           ref.kind = "order", Known(SideAt(at), ref)
    PROVE  IInv'
<1>1. PICK v : v = New
  OBVIOUS
<1>2. /\ v \in Page /\ v.rows = {} /\ v.lines = {} /\ v.step = "form" /\ v.watching = FALSE
  BY <1>1, NewPage DEF IInv
<1>3. PICK p : p = [v EXCEPT !.target = ref, !.targetAt = at]
  OBVIOUS
<1>4. /\ p \in Page /\ p.rows = {} /\ p.lines = {} /\ p.step = "form" /\ p.watching = FALSE
      /\ p.target = ref /\ p.targetAt = at
  BY <1>2, <1>3 DEF Page
<1>5. PICK r : r = Asks("order", 1, Repo(ready))
  OBVIOUS
<1>6. r \in Read /\ r.kind = "order" /\ r.side = SideAt(r.since)
  BY <1>5, RenderSide, FewReads DEF Read, Asks, Kind
<1>7. Mount("details", p, {r})
  BY <1>1, <1>3, <1>5 DEF OpenDetails
<1>8. "details" \in Names /\ "details" \notin CloudPages /\ "details" \notin Lists
  BY DEF Lists, Names, CloudPages
<1> QED BY <1>4, <1>6, <1>7, <1>8, MountInv

LEMMA OpenOrderInv == ASSUME IInv, NEW r \in page.rows, OpenOrder(r) PROVE IInv'
<1>1. RowFits(r) /\ r \in Ref /\ page.name = "orders" /\ page.since \in 0..MaxFlips
  BY PageType, Ground DEF IInv, RowsAreKnown, OpenOrder, Shows, Page
<1>2. r.kind = "order" /\ Known(SideAt(page.since), r)
  BY <1>1 DEF RowFits, ListKind, CloudPages
<1>3. PICK at \in 0..MaxFlips : at = page.since
  BY <1>1
<1> QED BY <1>1, <1>2, <1>3, OpenDetailsInv DEF OpenOrder

LEMMA ViewOrderInv == ASSUME IInv, ViewOrder PROVE IInv'
<1>1. /\ page.made # NoRef /\ page.made.kind = "order" /\ Known(SideAt(page.madeAt), page.made)
  BY DEF IInv, MadeIsKnown, ViewOrder
<1>2. page.made \in Ref /\ page.madeAt \in 0..MaxFlips
  BY <1>1, PageType, Ground DEF IInv, Page
<1>3. PICK ref \in Ref, at \in 0..MaxFlips : ref = page.made /\ at = page.madeAt
  BY <1>2
<1> QED BY <1>1, <1>3, OpenDetailsInv DEF ViewOrder

\* The profile's rows are the cloud's, whatever the id of the list meant.
LEMMA OpenProfileInv == ASSUME IInv, NEW ref \in page.rows, OpenProfile(ref) PROVE IInv'
<1>1. ref \in Ref /\ page.since \in 0..MaxFlips
  BY PageType, Ground DEF IInv, Page
<1>2. PICK v : v = New
  OBVIOUS
<1>3. /\ v \in Page /\ v.rows = {} /\ v.lines = {} /\ v.step = "form" /\ v.watching = FALSE
  BY <1>2, NewPage DEF IInv
<1>4. PICK p : p = [v EXCEPT !.target = ref, !.targetAt = page.since]
  OBVIOUS
<1>5. /\ p \in Page /\ p.rows = {} /\ p.lines = {} /\ p.step = "form" /\ p.watching = FALSE
  BY <1>1, <1>3, <1>4 DEF Page
<1>6. PICK r : r = Asks("customer", 1, "cloud")
  OBVIOUS
<1>7. r \in Read /\ r.kind = "customer" /\ r.side = "cloud"
  BY <1>6, RenderSide, FewReads DEF Read, Asks, Kind, Side
<1>8. Mount("profile", p, {r})
  BY <1>2, <1>4, <1>6 DEF OpenProfile
<1>9. "profile" \in Names /\ "profile" \in CloudPages /\ "profile" \notin Lists
  BY DEF Lists, Names, CloudPages
<1> QED BY <1>5, <1>7, <1>8, <1>9, MountInv

\* What the assistant drafted names rows that the cloud has.
LEMMA OpenCreateInv ==
    ASSUME IInv, NEW c \in Listed("cloud", "customer") \cup {NoRef},
           NEW draft \in SUBSET Listed("cloud", "product"), OpenCreate(c, draft)
    PROVE  IInv'
<1>1. PICK v : v = Visit
  OBVIOUS
<1>2. /\ v \in Page /\ v.rows = {} /\ v.lines = {} /\ v.step = "form" /\ v.watching = FALSE
  BY <1>1, VisitPage DEF IInv, OpenCreate
<1>3. PICK p : p = [v EXCEPT !.customer = c, !.draft = draft]
  OBVIOUS
<1>4. /\ c # NoRef => c \in Ref /\ Known("cloud", c)
      /\ \A r \in draft : r \in Ref /\ Known("cloud", r)
  BY ListedAreKnown DEF IInv, Side, Kind
<1>5. c \in Ref \cup {NoRef} /\ draft \in SUBSET Ref
  BY <1>4
<1>6. /\ p \in Page /\ p.rows = {} /\ p.lines = {} /\ p.step = "form" /\ p.watching = FALSE
      /\ p.customer = c /\ p.draft = draft
  BY <1>2, <1>3, <1>5 DEF Page
<1>7. PICK asked : asked = {Asks(k, 1, "cloud") : k \in {"customer", "product"}}
  OBVIOUS
<1>8. asked \in SUBSET Read /\ \A r \in asked : r.side = "cloud"
  BY <1>7, RenderSide, FewReads DEF Read, Asks, Kind, Side
<1>9. Mount("create", p, asked)
  BY <1>1, <1>3, <1>7 DEF OpenCreate
<1>10. "create" \in Names /\ "create" \in CloudPages /\ "create" \notin Lists
  BY DEF Lists, Names, CloudPages
<1> QED BY <1>4, <1>6, <1>8, <1>9, <1>10, MountInv

\* A deletion is answered; nothing else that the page sent waits for an answer.
LEMMA RemovedInv == ASSUME IInv, NEW w \in writes, Removed(w) PROVE IInv'
<1>1. /\ w.heard /\ w.verb \in {"remove", "drop"} /\ TypeOK
      /\ EditsReachTheShownRow' /\ astray' \subseteq Verb /\ writes' = writes \ {w}
  BY ChangesKeep DEF Removed, IInv
<1>2. PICK back, k : /\ back = IF w.verb = "drop" THEN "customers" ELSE "orders"
                     /\ k = IF w.verb = "drop" THEN "customer" ELSE "order"
  OBVIOUS
<1>3. PICK v : v = New
  OBVIOUS
<1>4. PICK r : r = Asks(k, 1, Repo(ready))
  OBVIOUS
<1>5. /\ page' = [Drawn(v) EXCEPT !.name = back, !.opened = flips, !.watching = ~ready, !.latest[k] = 1]
      /\ reads' = {r} /\ UNCHANGED <<ids, queue, pulled, ready, flips, made>>
  BY <1>2, <1>3, <1>4 DEF Removed
<1>6. /\ v \in Page /\ v.rows = {} /\ v.lines = {} /\ v.step = "form" /\ v.target = NoRef
      /\ \A j \in Kind : v.latest[j] = 0
  <2>1. New.latest = [j \in Kind |-> 0]
    BY DEF New, Blank
  <2> QED BY <1>1, <1>3, <2>1, NewPage
<1>7. k \in Kind /\ back \in Names /\ back \in Lists /\ back \notin CloudPages
  BY <1>2 DEF Kind, Names, Lists, CloudPages
<1>8. PICK L : L = [v.latest EXCEPT ![k] = 1]
  OBVIOUS
<1>9. L \in [Kind -> 0..MaxReads + 2] /\ \A j \in Kind : L[j] <= 1
  <2>1. v.latest \in [Kind -> 0..MaxReads + 2] /\ 1 \in 0..MaxReads + 2
    BY <1>6, ScreensAssumption DEF Page
  <2>2. L \in [Kind -> 0..MaxReads + 2] /\ \A j \in Kind : L[j] = IF j = k THEN 1 ELSE v.latest[j]
    BY <1>7, <1>8, <2>1
  <2> QED BY <1>6, <2>2
<1>10. PICK b \in BOOLEAN :
         page' = [v EXCEPT !.local = ready, !.at = flips, !.name = back, !.opened = flips,
                           !.watching = b, !.latest = L]
  BY <1>5, <1>6, <1>8 DEF Drawn, Page
<1>11. page' \in Page
  <2>1. v \in Page /\ ready \in BOOLEAN /\ flips \in 0..MaxFlips /\ b \in BOOLEAN /\ back \in Names
    BY <1>1, <1>6, <1>7, Ground
  <2> QED BY <1>9, <1>10, <2>1 DEF Page
<1>12. /\ page'.local = ready /\ page'.at = flips /\ page'.opened = flips /\ page'.name = back
       /\ page'.latest = L /\ page'.rows = {} /\ page'.lines = {} /\ page'.step = "form"
       /\ page'.target = NoRef
  BY <1>6, <1>10 DEF Page
<1>13. r \in Read /\ r.kind = k /\ r.side = SideAt(r.since)
  BY <1>4, <1>7, RenderSide, FewReads DEF Read, Asks
<1>14. AskFits(r)'
  BY <1>2, <1>7, <1>12, <1>13 DEF AskFits, ListKind
<1>15. TypeOK'
  BY <1>1, <1>5, <1>11, <1>13 DEF TypeOK
<1>16. \A u \in writes' : ~u.heard /\ u \in writes
  BY <1>1 DEF IInv, OneAtATime
<1>17. page'.name \notin {"details", "create"}
  BY <1>2, <1>12
<1> QED BY <1>1, <1>5, <1>7, <1>9, <1>12, <1>14, <1>15, <1>16, <1>17, ArriveInv


-----------------------------------------------------------------------------
(* The gate turns, or the sync status says what it said.                       *)

LEMMA GateInv ==
    ASSUME IInv, NEW ok \in BOOLEAN, Refresh(ok)
    PROVE  /\ Turns' /\ flips' \in 0..MaxFlips /\ flips <= flips' /\ ready' \in BOOLEAN
           /\ ready' => Repo(TRUE) = SideAt(flips')
<1>1. ready \in BOOLEAN /\ flips \in 0..MaxFlips /\ pulled \in BOOLEAN /\ Turns /\ MaxFlips \in Nat
  BY ScreensAssumption DEF IInv, TypeOK
<1>2. ready' = (ok /\ pulled)
  BY DEF Refresh
<1>3. ready' \in BOOLEAN
  BY <1>1, <1>2
<1>4. CASE ready' = ready
  <2>1. flips' = flips
    BY <1>4 DEF Refresh
  <2> QED BY <1>1, <1>3, <1>4, <2>1 DEF Turns, SideAt, Repo
<1>5. CASE ready' # ready
  <2>1. flips' = flips + 1 /\ flips < MaxFlips
    BY <1>5 DEF Refresh
  <2>2. Gate(flips + 1) <=> ~Gate(flips)
    BY <1>1, GateTurns
  <2>3. ready' <=> Gate(flips')
    BY <1>1, <1>3, <1>5, <2>1, <2>2 DEF Turns
  <2> QED BY <1>1, <1>3, <2>1, <2>3 DEF Turns, SideAt, Repo
<1> QED BY <1>4, <1>5

\* A list that was opened before the gate reads once more, from the mirror.
LEMMA RefreshInv == ASSUME IInv, NEW ok \in BOOLEAN, Refresh(ok) PROVE IInv'
<1>1. /\ TypeOK /\ KnownStays /\ UNCHANGED <<ids, queue, pulled, writes, made, astray>>
  BY SameIdsKeep DEF IInv, Refresh
<1>2. Turns' /\ flips' \in 0..MaxFlips /\ flips <= flips' /\ (ready' => "local" = SideAt(flips'))
  BY GateInv DEF Repo
<1>3. ready' \in BOOLEAN
  BY GateInv
<1>4. WritesAreKnown' /\ OneAtATime' /\ ClosedGateOrders' /\ EditsReachTheShownRow'
  BY <1>1, KeepWrites, FewerWrites, SameMade, SameAstray DEF IInv
<1>5. CASE page.watching /\ ready'
  <2>1. PICK k \in Kind : k = ListKind
    BY FewReads
  <2>2. PICK f \in 0..MaxFlips : f = flips'
    BY <1>2
  <2>3. PICK q : q = [kind |-> k, n |-> page.latest[k] + 1, side |-> "local", since |-> f]
    OBVIOUS
  <2>4. page' = [page EXCEPT !.watching = FALSE, !.local = TRUE, !.at = f, !.latest[k] = @ + 1]
    BY <1>5, <2>1, <2>2 DEF Refresh
  <2>5. reads' = reads \cup {q}
    BY <1>5, <2>1, <2>2, <2>3 DEF Refresh
  <2>6. page.name \in Lists /\ page.latest[k] <= MaxReads + 1
    BY <1>5, <2>1, FewReads DEF IInv, ReadsAreFew
  <2>7. page.latest[k] + 1 \in 0..MaxReads + 2 /\ page.latest[k] + 1 \in 1..MaxReads + 2
    BY <2>1, <2>6, FewReads
  <2>8. /\ page' \in Page /\ page'.name = page.name /\ page'.opened = page.opened
        /\ page'.local = TRUE /\ page'.at = f /\ page'.watching = FALSE
        /\ page'.latest = [page.latest EXCEPT ![k] = @ + 1]
        /\ page'.rows = page.rows /\ page'.since = page.since
        /\ page'.target = page.target /\ page'.targetAt = page.targetAt
        /\ page'.step = page.step /\ page'.made = page.made /\ page'.madeAt = page.madeAt
        /\ page'.saved = page.saved
    BY <1>1, <2>4, <2>7, Ground DEF Page
  <2>9. q \in Read /\ q.kind = ListKind /\ q.side = SideAt(q.since)
    BY <1>2, <1>5, <2>1, <2>2, <2>3, <2>7 DEF Read, Side
  <2>10. TypeOK'
    BY <1>1, <1>2, <1>3, <2>5, <2>8, <2>9 DEF TypeOK
  <2>11. page.name \notin CloudPages /\ page.name \notin {"details", "create", "profile"}
    BY <2>6 DEF Lists, CloudPages
  <2>12. Rendered'
    <3>1. page.opened <= page.at /\ page.at <= flips
      BY DEF IInv, Rendered
    <3>2. page.opened \in Nat /\ page.at \in Nat /\ flips \in Nat /\ flips' \in Nat
      BY <1>1, <1>2, PageType
    <3>3. Gate(flips')
      BY <1>2, <1>5 DEF Turns
    <3> QED BY <1>2, <2>2, <2>8, <3>1, <3>2, <3>3 DEF Rendered
  <2>13. AskedOfASide'
    BY <2>5, <2>8, <2>9, <2>11 DEF IInv, AskedOfASide, AskFits, ListKind
  <2>14. RowsAreKnown'
    BY <1>1, <2>8 DEF IInv, RowsAreKnown, RowFits, ListKind, Known, Hit, Means
  <2>15. TargetIsKnown' /\ MadeIsKnown'
    BY <1>1, <2>8 DEF IInv, TargetIsKnown, MadeIsKnown, Known, Hit, Means
  <2>16. HeardFits'
    <3> SUFFICES ASSUME NEW w \in writes PROVE WriteFits(w)'
      BY <1>1 DEF HeardFits
    <3>1. WriteFits(w)
      BY DEF IInv, HeardFits
    <3>2. w.heard => w.verb \in {"edit", "delete", "adjust"}
      BY <2>6, <3>1 DEF WriteFits, Sends, Lists
    <3> QED BY <2>8, <3>1, <3>2 DEF WriteFits
  <2>17. PicksAreKnown'
    BY <2>8, <2>11 DEF PicksAreKnown
  <2>18. ReadsAreFew'
    BY <1>5, <2>1, <2>6, <2>8, FewReads DEF IInv, ReadsAreFew, ListKind
  <2>19. SavedHonestly'
    BY <1>1, <2>8 DEF IInv, SavedHonestly
  <2> QED BY <1>2, <1>4, <2>10, <2>12, <2>13, <2>14, <2>15, <2>16, <2>17, <2>18, <2>19 DEF IInv
<1>6. CASE ~(page.watching /\ ready')
  <2>1. page' = page /\ reads' = reads
    BY <1>6 DEF Refresh
  <2>2. Stays /\ Keeps /\ PicksHold
    BY <2>1, SamePage
  <2>3. TypeOK'
    BY <1>1, <1>2, <1>3, <2>1 DEF TypeOK
  <2>4. Rendered'
    <3>1. page.at \in Nat /\ flips \in Nat /\ flips' \in Nat
      BY <1>1, <1>2, PageType
    <3> QED BY <1>2, <2>1, <3>1 DEF IInv, Rendered
  <2>5. AskedOfASide' /\ RowsAreKnown' /\ TargetIsKnown' /\ MadeIsKnown'
    BY <1>1, <2>1, <2>2, KeepAsked, KeepRows, KeepTarget, KeepMade DEF IInv
  <2>6. HeardFits' /\ ReadsAreFew'
    BY <1>1, <2>1 DEF IInv, HeardFits, WriteFits, ReadsAreFew, ListKind
  <2>7. PicksAreKnown' /\ SavedHonestly'
    BY <1>1, <2>1 DEF IInv, PicksAreKnown, SavedHonestly, Known, Hit, Means
  <2> QED BY <1>2, <1>4, <2>3, <2>4, <2>5, <2>6, <2>7 DEF IInv
<1> QED BY <1>5, <1>6

-----------------------------------------------------------------------------
(* Every step.                                                                 *)

LEMMA InitInv == ASSUME Init PROVE IInv
<1>1. /\ Blank.name = "home" /\ Blank.rows = {} /\ Blank.since = 0 /\ Blank.local = FALSE
      /\ Blank.at = 0 /\ Blank.opened = 0 /\ Blank.watching = FALSE /\ Blank.step = "form"
      /\ \A k \in Kind : Blank.latest[k] = 0
  BY DEF Blank
<1>2. page = Blank /\ ready = FALSE /\ flips = 0 /\ reads = {} /\ writes = {} /\ made = {} /\ astray = {}
  BY DEF Init
<1>3. MaxReads \in Nat /\ MaxFlips \in Nat /\ MaxVisits \in Nat
  BY ScreensAssumption
<1>4. TypeOK
  <2>1. ids \in [Side -> [Kind -> Seq(Row \cup {Foreign})]]
    BY ScreensAssumption DEF Init
  <2>2. [k \in Kind |-> 0] \in [Kind -> 0..MaxReads + 2]
    BY <1>3
  <2>3. 0 \in 0..MaxFlips /\ 0 \in 0..MaxVisits /\ NoRef \in Ref \cup {NoRef} /\ "home" \in Names
    BY <1>3 DEF Names
  <2>4. Blank \in Page
    <3> HIDE DEF Ref, NoRef, Names
    <3> QED BY <2>2, <2>3 DEF Blank, Page
  <2>5. queue \in Seq(Row) /\ pulled \in BOOLEAN
    <3>1. queue = <<>> /\ pulled = FALSE
      BY DEF Init
    <3>2. \A S : <<>> \in Seq(S)
      OBVIOUS
    <3> QED BY <3>1, <3>2
  <2> QED BY <1>2, <2>1, <2>3, <2>4, <2>5 DEF TypeOK
<1>5. Turns /\ Rendered
  BY <1>1, <1>2, GateTurns DEF Turns, Rendered
<1>6. AskedOfASide /\ RowsAreKnown /\ TargetIsKnown /\ MadeIsKnown /\ PicksAreKnown
  BY <1>1, <1>2 DEF AskedOfASide, RowsAreKnown, TargetIsKnown, MadeIsKnown, PicksAreKnown
<1>7. WritesAreKnown /\ HeardFits /\ OneAtATime
  BY <1>2 DEF WritesAreKnown, HeardFits, OneAtATime
<1>8. ReadsAreFew
  <2>1. page.name \notin Lists /\ ListKind \in Kind
    BY <1>1, <1>2 DEF Lists, ListKind, Kind
  <2> QED BY <1>1, <1>2, <1>3, <2>1 DEF ReadsAreFew
<1>9. EditsReachTheShownRow /\ ClosedGateOrders /\ SavedHonestly
  BY <1>1, <1>2 DEF EditsReachTheShownRow, ClosedGateOrders, SavedHonestly
<1> QED BY <1>4, <1>5, <1>6, <1>7, <1>8, <1>9 DEF IInv

LEMMA SyncInv == ASSUME IInv, Sync PROVE IInv'
BY PushInv, IngestPullInv, RefreshInv DEF Sync

LEMMA NavigateInv == ASSUME IInv, Navigate PROVE IInv'
<1>1. /\ OpenProducts => OpenList("products", "product")
      /\ OpenInventory => OpenList("inventory", "product")
      /\ OpenCustomers => OpenList("customers", "customer")
      /\ OpenOrders => OpenList("orders", "order")
  BY DEF OpenProducts, OpenInventory, OpenCustomers, OpenOrders
<1>2. "product" \in Kind /\ "customer" \in Kind /\ "order" \in Kind
  BY DEF Kind
<1>3. OpenProducts \/ OpenInventory \/ OpenCustomers \/ OpenOrders => IInv'
  BY <1>1, <1>2, OpenListInv DEF Lists
<1>4. (\E r \in page.rows : OpenOrder(r) \/ OpenProfile(r)) => IInv'
  BY OpenOrderInv, OpenProfileInv
<1>5. ViewOrder => IInv'
  BY ViewOrderInv
<1>6. (\E c \in Listed("cloud", "customer") \cup {NoRef} :
       \E draft \in SUBSET Listed("cloud", "product") : OpenCreate(c, draft)) => IInv'
  BY OpenCreateInv
<1> QED BY <1>3, <1>4, <1>5, <1>6 DEF Navigate

LEMMA ReadStepInv == ASSUME IInv, ReadStep PROVE IInv'
BY SearchInv, ListAnsweredInv, CatalogAnsweredInv, ViewAnsweredInv, ReadFailsInv DEF ReadStep

LEMMA EditInv == ASSUME IInv, Edit PROVE IInv'
<1>1. SaveProduct \/ DeleteProduct \/ AdjustStock => IInv'
  BY ChosenInv DEF SaveProduct, DeleteProduct, AdjustStock
<1>2. SetStatus \/ RemoveOrder \/ UpdateProfile \/ DropProfile => IInv'
  BY SetStatusInv, RemoveOrderInv, ProfileInv
<1>3. (\E r \in page.rows : Choose(r)) => IInv'
  BY ChooseInv
<1>4. (\E w \in writes : Saved(w) \/ StatusSet(w) \/ Removed(w) \/ Unheard(w) \/ WriteFails(w)) => IInv'
  BY SavedInv, StatusSetInv, RemovedInv, UnheardInv, WriteFailsInv
<1> QED BY <1>1, <1>2, <1>3, <1>4 DEF Edit

LEMMA WorkflowStepInv == ASSUME IInv, Workflow PROVE IInv'
<1>1. (\E r \in page.rows : PickCustomer(r)) => IInv'
  BY PickCustomerInv
<1>2. ChangeCustomer \/ CreateCustomer \/ Submit \/ SubmitThrows => IInv'
  BY ChangeCustomerInv, CreateCustomerInv, SubmitInv, SubmitThrowsInv
<1>3. (\E new \in SUBSET page.rows : AddLines(new)) => IInv'
  BY AddLinesInv
<1>4. (\E l \in page.lines : RemoveLine(l)) => IInv'
  BY RemoveLineInv
<1>5. (\E found \in SUBSET page.draft : DraftArrives(found)) => IInv'
  BY DraftArrivesInv
<1>6. (\E step \in {"form", "payment"} : GoTo(step)) => IInv'
  BY GoToInv
<1>7. (\E w \in writes, row \in Customer \cup Order, told \in BOOLEAN :
           CustomerCreated(w, row, told) \/ OrderCreated(w, row, told)) => IInv'
  BY CustomerCreatedInv, OrderCreatedInv
<1> QED BY <1>1, <1>2, <1>3, <1>4, <1>5, <1>6, <1>7 DEF Workflow

LEMMA NextInv == ASSUME IInv, [Next]_vars PROVE IInv'
<1>1. CASE Next
  BY <1>1, SyncInv, NavigateInv, ReadStepInv, EditInv, WorkflowStepInv DEF Next
<1>2. CASE UNCHANGED vars
  <2>1. TypeOK' /\ KnownStays /\ Still
    BY <1>2, SameIdsKeep DEF vars, IInv, TypeOK, Still
  <2>2. Stays /\ Keeps /\ PicksHold
    BY <1>2, SamePage DEF vars
  <2>3. ClosedGateOrders' /\ EditsReachTheShownRow'
    BY <1>2, SameMade, SameAstray DEF vars, IInv
  <2> QED BY <1>2, <2>1, <2>2, <2>3, FewerWrites, StayInv DEF vars
<1> QED BY <1>1, <1>2

-----------------------------------------------------------------------------
(* The theorems.                                                               *)

(* The invariant holds throughout: what the pages show, keep and send is known *)
(* on the side that the number of turns of the gate names.                     *)
THEOREM ScreensInvariance == Spec => []IInv
<1>1. Init => IInv
  BY InitInv
<1>2. IInv /\ [Next]_vars => IInv'
  BY NextInv
<1> QED BY <1>1, <1>2, PTL DEF Spec

(* Every variable keeps its type; in particular the counters of a page's reads *)
(* stay under their bound, whatever the gate does meanwhile.                   *)
THEOREM ScreensTypeCorrect == Spec => []TypeOK
<1>1. IInv => TypeOK
  BY DEF IInv
<1> QED BY <1>1, ScreensInvariance, PTL

(* A product that is edited, deleted or adjusted, an order whose status is set *)
(* and a customer changed on the profile is the one shown, if the gate did not *)
(* turn between the read and the render whose repository took the write        *)
(* (useProducts.ts, useInventory.ts, OrderDetailsPage.tsx,                     *)
(* CustomerProfilePage.tsx).                                                   *)
THEOREM EditsReachAlways == Spec => []EditsReachTheShownRow
<1>1. IInv => EditsReachTheShownRow
  BY DEF IInv
<1> QED BY <1>1, ScreensInvariance, PTL

(* The order's page shows the order that was clicked in the list or that was   *)
(* just created, if the gate did not turn since its id was read                *)
(* (Orders/index.tsx openOrder, CreateOrderPage.tsx "View Order").             *)
THEOREM ViewedAlways == Spec => []ViewedIsMeant
<1>1. IInv => ViewedIsMeant
  <2> SUFFICES ASSUME IInv, page.name = "details", page.since = page.targetAt, NEW r \in page.rows
               PROVE  r.row = page.target.row
    BY DEF ViewedIsMeant
  <2>1. Known(SideAt(page.since), r) /\ r.kind = "order" /\ r.id = page.target.id
    BY DEF IInv, RowsAreKnown, RowFits, CloudPages, ListKind
  <2>2. Known(SideAt(page.since), page.target) /\ page.target.kind = "order"
    BY DEF IInv, TargetIsKnown
  <2> QED BY <2>1, <2>2 DEF Known, Hit
<1> QED BY <1>1, ScreensInvariance, PTL

(* With the gate closed from the opening of the page to the confirmation, the  *)
(* order names the customer and the products that were picked, whatever is     *)
(* created, pulled and pushed beside it (CreateOrderPage.tsx submit).          *)
THEOREM ClosedGateAlways == Spec => []ClosedGateOrders
<1>1. IInv => ClosedGateOrders
  BY DEF IInv
<1> QED BY <1>1, ScreensInvariance, PTL

(* "Saved on this device" is said exactly of an order that the device's        *)
(* database took, however often the gate turns before the answer               *)
(* (CreateOrderPage.tsx setLocalCreated).                                      *)
THEOREM SavedAlways == Spec => []SavedHonestly
<1>1. IInv => SavedHonestly
  BY DEF IInv
<1> QED BY <1>1, ScreensInvariance, PTL

================================================================================
