--------------------------- MODULE SubscriptionProofs ---------------------------
(* A business has the plans and licences it was granted, for any number of    *)
(* charges, keys and requests under way: a paid plan was paid for, charges    *)
(* confirmed one at a time are applied once and end the trial, and a revoked  *)
(* licence grants nothing.                                                    *)
EXTENDS Subscription, TLAPS

ChargeState == {"none", "open", "visited", "paid", "short"}
Kind == {"none", "checkout", "verify", "webhook", "switch", "trial", "activate", "revoke"}
Place == {"off", "read", "success", "unpaid", "failed", "holding"}
About == Ref \cup Key \cup Plan \cup {Free, None}
RequestState == [kind: Kind, at: Place, about: About, seen: Status, row: Row]
Screen == [busy: BOOLEAN,
           step: {"rest", "asked", "leaving"},
           pending: Ref \cup {None}, verifying: Ref \cup {None}]

\* The parts of the invariant about requests, and those about what is granted.
RequestInv == WorksOnItsOwn /\ CheckoutIsFirst /\ ClashesKnown /\ ReadsHold
GrantInv == PlanIsPaidFor /\ ConfirmedOnce /\ PaymentEndsTrial /\ RevokedGrantsNothing

\* The type invariant in the names of this module.
LEMMA Typed ==
    TypeOK <=> /\ charge \in [Ref -> ChargeState] /\ payment \in [Ref -> Status]
               /\ due \subseteq Ref /\ dropped \subseteq Ref /\ sub \in Row /\ revoked \subseteq Key
               /\ request \in [Request -> RequestState]
               /\ acked \subseteq Ref /\ screen \in Screen /\ applied \in [Ref -> 0..2]
               /\ clashed \subseteq Ref \cup Key \cup {"plan"}
BY DEF TypeOK, ChargeState, RequestState, Kind, Place, About, Screen

LEMMA TypedNext ==
    TypeOK' <=> /\ charge' \in [Ref -> ChargeState] /\ payment' \in [Ref -> Status]
                /\ due' \subseteq Ref /\ dropped' \subseteq Ref /\ sub' \in Row /\ revoked' \subseteq Key
                /\ request' \in [Request -> RequestState]
                /\ acked' \subseteq Ref /\ screen' \in Screen /\ applied' \in [Ref -> 0..2]
                /\ clashed' \subseteq Ref \cup Key \cup {"plan"}
BY DEF TypeOK, ChargeState, RequestState, Kind, Place, About, Screen

\* What a slot without a request holds.
LEMMA NoRequestState ==
    /\ NoRequest \in RequestState /\ NoRequest.kind = "none" /\ NoRequest.about = None
    /\ NoRequest.at = "off" /\ Works(NoRequest.kind, NoRequest.about) = {}
BY DEF NoRequest, NewRow, RequestState, Kind, Place, About, Status, Row, Works

\* A charge that was paid stays so, and one that is known stays known.
ChargeMoves ==
    /\ charge' \in [Ref -> ChargeState]
    /\ \A r \in Ref : /\ charge[r] \in {"paid", "short"} => charge'[r] = charge[r]
                      /\ charge'[r] = "none" => charge[r] = "none"

LEMMA ChargeStays == ASSUME IInv, UNCHANGED charge PROVE ChargeMoves
BY Typed DEF IInv, ChargeMoves

\* The answer to a verification leaves a screen of the same kind.
LEMMA TellTyped ==
    ASSUME screen \in Screen, NEW r, Tell(r)
    PROVE  screen' \in Screen
BY DEF Screen, Tell

\* The invariant holds for a new business.
LEMMA InitInv == Init => IInv
<1> SUFFICES ASSUME Init PROVE IInv
    OBVIOUS
<1>1. \A q \in Request : request[q] = NoRequest
    BY DEF Init
<1>2. TypeOK
    BY NoRequestState, Typed
    DEF Init, ChargeState, Status, Row, NewRow, Blank, Screen
<1>3. WorksOnItsOwn /\ ClashesKnown
    BY <1>1, NoRequestState DEF WorksOnItsOwn, ClashesKnown
<1>4. CheckoutIsFirst
    BY <1>1, NoRequestState DEF Init, CheckoutIsFirst
<1>5. ReadsHold
    BY <1>1, NoRequestState DEF ReadsHold
<1>6. GrantInv
    BY BillingAssumption
    DEF Init, NewRow, GrantInv, PlanIsPaidFor, ConfirmedOnce, PaymentEndsTrial, RevokedGrantsNothing
<1>. QED  BY <1>2, <1>3, <1>4, <1>5, <1>6 DEF IInv, GrantInv

\* Nothing moves but charges, the screen, acknowledgements, and a trial to its end.
LEMMA QuietInv ==
    ASSUME IInv, ChargeMoves, screen' \in Screen, acked' \subseteq Ref,
           sub' \in Row, sub'.plan = sub.plan, sub'.license = sub.license,
           sub'.trial \in {sub.trial, "over"},
           UNCHANGED <<payment, due, revoked, request, applied, dropped, clashed>>
    PROVE  IInv'
<1>1. TypeOK'
    BY Typed, TypedNext DEF IInv, ChargeMoves
<1>2. WorksOnItsOwn' /\ CheckoutIsFirst' /\ ClashesKnown'
    BY DEF IInv, ChargeMoves, WorksOnItsOwn, CheckoutIsFirst, ClashesKnown, Enough
<1>3. ReadsHold'
    BY DEF IInv, ReadsHold
<1>4. PlanIsPaidFor'
    BY DEF IInv, ChargeMoves, PlanIsPaidFor, Enough
<1>5. ConfirmedOnce' /\ PaymentEndsTrial' /\ RevokedGrantsNothing'
    BY DEF IInv, ConfirmedOnce, PaymentEndsTrial, RevokedGrantsNothing
<1>. QED  BY <1>1, <1>2, <1>3, <1>4, <1>5 DEF IInv

\* Nothing that is granted changes: the grants stand.
LEMMA GrantsStand ==
    ASSUME IInv, ChargeMoves, clashed \subseteq clashed',
           UNCHANGED <<payment, due, sub, revoked, applied>>
    PROVE  GrantInv'
<1>1. PlanIsPaidFor'
    BY DEF IInv, ChargeMoves, PlanIsPaidFor, Enough
<1>2. ConfirmedOnce' /\ PaymentEndsTrial' /\ RevokedGrantsNothing'
    BY DEF IInv, ConfirmedOnce, PaymentEndsTrial, RevokedGrantsNothing
<1>. QED  BY <1>1, <1>2 DEF GrantInv

\* A request moves, the others stay.
LEMMA OneMoves ==
    ASSUME IInv, NEW q \in Request, NEW state \in RequestState, Becomes(q, state)
    PROVE  /\ request' \in [Request -> RequestState] /\ request'[q] = state
           /\ \A o \in Request \ {q} : request'[o] = request[o]
BY Typed DEF IInv, Becomes

\* A request begins with what it has just read.
LEMMA BeginInv ==
    ASSUME IInv, NEW q \in Request, NEW kind \in Kind \ {"none"}, NEW about \in About,
           NEW seen \in Status, NEW row \in Row, Begin(q, kind, about, seen, row),
           ChargeMoves, screen' \in Screen,
           UNCHANGED <<payment, due, sub, revoked, acked, applied, dropped>>,
           kind = "checkout" =>
             about \in Ref /\ charge[about] = "none" /\ charge'[about] # "none",
           kind \in {"verify", "webhook"} => about \in Ref /\ payment[about] # "success",
           kind = "verify" => payment[about] # "none",
           kind = "webhook" => charge[about] \in {"paid", "short"} /\ seen = payment[about],
           kind = "webhook" /\ seen # "none" => Enough(about),
           kind = "switch" => about = Free,
           kind = "trial" => about = None /\ sub.plan = Free,
           kind \in {"activate", "revoke"} => about \in Key,
           kind = "activate" => about \notin revoked
    PROVE  IInv'
<1> DEFINE state == [kind |-> kind, at |-> "read", about |-> about, seen |-> seen, row |-> row]
<1>1. /\ state \in RequestState /\ state.kind = kind /\ state.at = "read"
      /\ state.about = about /\ state.seen = seen
    BY DEF RequestState, Place
<1>2. Becomes(q, state) /\ request[q].kind = "none"
    BY DEF Begin, InFlight
<1> HIDE DEF state
<1>3. /\ request' \in [Request -> RequestState] /\ request'[q] = state
      /\ \A o \in Request \ {q} : request'[o] = request[o]
    BY <1>1, <1>2, OneMoves
<1>4. /\ clashed \subseteq clashed'
      /\ \A o \in Request :
           Works(kind, about) \cap Works(request[o].kind, request[o].about) \subseteq clashed'
    BY DEF Begin
<1>5. clashed' \subseteq Ref \cup Key \cup {"plan"}
  <2>1. clashed' \subseteq clashed \cup Works(kind, about)
    BY DEF Begin
  <2>2. Works(kind, about) \subseteq Ref \cup Key \cup {"plan"}
    BY DEF Works, Kind
  <2>. QED  BY <2>1, <2>2, Typed DEF IInv
<1>6. TypeOK'
    BY <1>3, <1>5, Typed, TypedNext DEF IInv, ChargeMoves
<1>7. WorksOnItsOwn'
    BY <1>1, <1>3 DEF IInv, ChargeMoves, WorksOnItsOwn, Enough, Kind
<1>8. CheckoutIsFirst'
    BY <1>1, <1>3 DEF IInv, ChargeMoves, CheckoutIsFirst, WorksOnItsOwn
<1>9. ClashesKnown'
  <2> SUFFICES ASSUME NEW p \in Request, NEW o \in Request, p # o
               PROVE  (Works(request[p].kind, request[p].about)
                        \cap Works(request[o].kind, request[o].about))' \subseteq clashed'
      BY DEF ClashesKnown
  <2>1. CASE p = q
      BY <1>1, <1>3, <1>4, <2>1 DEF Works
  <2>2. CASE o = q
      BY <1>1, <1>3, <1>4, <2>2 DEF Works
  <2>3. CASE p # q /\ o # q
      BY <1>3, <1>4, <2>3 DEF IInv, ClashesKnown, Works
  <2>. QED  BY <2>1, <2>2, <2>3
<1>10. ReadsHold'
    BY <1>1, <1>3, <1>4 DEF IInv, ReadsHold
<1>. QED  BY <1>4, <1>6, <1>7, <1>8, <1>9, <1>10, GrantsStand DEF IInv, GrantInv

\* A request goes on: what it works on and what it has seen stay.
LEMMA GoesOnInv ==
    ASSUME IInv, NEW q \in Request, NEW at \in Place \ {"off"}, NEW row \in Row,
           Becomes(q, At(q, at, row)),
           request[q].kind \in {"verify", "webhook", "activate", "revoke"},
           at \in {"success", "unpaid", "failed"} => request[q].kind = "verify",
           request[q].kind \in {"verify", "webhook"} /\ at \in {"success", "holding"} =>
             Enough(request[q].about),
           request[q].kind = "webhook" => at = "holding",
           at = "holding" => row = sub,
           request[q].kind \in {"verify", "webhook"} /\ at = "holding" => ~Locked(request[q].about),
           acked' \subseteq Ref, screen' \in Screen,
           UNCHANGED <<charge, payment, due, sub, revoked, applied, dropped, clashed>>
    PROVE  IInv'
<1> DEFINE state == At(q, at, row)
<1>1. /\ state \in RequestState /\ state.kind = request[q].kind /\ state.at = at
      /\ state.about = request[q].about /\ state.seen = request[q].seen /\ state.row = row
    BY Typed DEF IInv, At, RequestState
<1> HIDE DEF state
<1>2. /\ request' \in [Request -> RequestState] /\ request'[q] = state
      /\ \A o \in Request \ {q} : request'[o] = request[o]
    BY <1>1, OneMoves DEF state
<1>3. TypeOK'
    BY <1>2, Typed, TypedNext DEF IInv
<1>4. WorksOnItsOwn'
    BY <1>1, <1>2 DEF IInv, WorksOnItsOwn, Enough
<1>5. CheckoutIsFirst'
  <2>1. at = "holding" /\ request[q].kind \in {"verify", "webhook"} =>
          \A p \in Request : request[p].kind = "checkout" => request[p].about # request[q].about
      BY DEF Locked
  <2>. QED  BY <1>1, <1>2, <2>1 DEF IInv, CheckoutIsFirst
<1>6. ClashesKnown'
    BY <1>1, <1>2 DEF IInv, ClashesKnown, Works
<1>7. ReadsHold'
    BY <1>1, <1>2 DEF IInv, ReadsHold
<1>. QED  BY <1>3, <1>4, <1>5, <1>6, <1>7, GrantsStand, ChargeStays DEF IInv, GrantInv

\* A request ends; what is left of the others.
LEMMA DoneInv ==
    ASSUME IInv, NEW q \in Request, Done(q), UNCHANGED <<charge, clashed>>
    PROVE  /\ request' \in [Request -> RequestState]
           /\ request'[q] = NoRequest
           /\ \A o \in Request \ {q} : request'[o] = request[o]
           /\ (due' = due) => WorksOnItsOwn'
           /\ ClashesKnown'
<1>1. /\ request' \in [Request -> RequestState] /\ request'[q] = NoRequest
      /\ \A o \in Request \ {q} : request'[o] = request[o]
    BY NoRequestState, OneMoves DEF Done
<1>2. (due' = due) => WorksOnItsOwn'
    BY <1>1, NoRequestState DEF IInv, WorksOnItsOwn, Enough
<1>3. ClashesKnown'
    BY <1>1, NoRequestState DEF IInv, ClashesKnown, Works
<1>. QED  BY <1>1, <1>2, <1>3

-----------------------------------------------------------------------------
(* The steps of the screen, of the charge, and of requests before they commit. *)

LEMMA CheckoutInv == ASSUME IInv, NEW q \in Request, NEW r \in Ref, Checkout(q, r) PROVE IInv'
<1>1. /\ charge[r] = "none" /\ charge' = [charge EXCEPT ![r] = "open"]
      /\ Begin(q, "checkout", r, "none", NewRow)
    BY DEF Checkout
<1>2. ChargeMoves /\ charge'[r] # "none"
    BY <1>1, Typed DEF IInv, ChargeMoves, ChargeState
<1>3. screen' \in Screen
    BY Typed DEF IInv, Checkout, Screen
<1>4. "checkout" \in Kind \ {"none"} /\ r \in About /\ "none" \in Status /\ NewRow \in Row
    BY DEF Kind, About, Status, NewRow, Row
<1>. QED  BY <1>1, <1>2, <1>3, <1>4, BeginInv DEF Checkout

LEMMA ScreenInv ==
    ASSUME IInv, \/ CheckoutAnswered \/ HandedOver \/ Leave \/ TrialEnds
                 \/ \E r \in Ref : Pay(r) \/ Return(r)
    PROVE  IInv'
<1>1. /\ charge \in [Ref -> ChargeState] /\ sub \in Row /\ screen \in Screen /\ acked \subseteq Ref
    BY Typed DEF IInv
<1>2. CASE CheckoutAnswered \/ Leave \/ \E r \in Ref : Return(r)
  <2>1. Blank \in Screen
      BY DEF Blank, Screen
  <2>2. screen' \in Screen
    <3>1. CASE CheckoutAnswered
        BY <1>1, <3>1 DEF CheckoutAnswered, Screen
    <3>2. CASE Leave
        BY <2>1, <3>2 DEF Leave
    <3>3. CASE \E r \in Ref : Return(r)
        BY <2>1, <3>3 DEF Return, Screen
    <3>. QED  BY <1>2, <3>1, <3>2, <3>3
  <2>. QED  BY <1>1, <1>2, <2>2, ChargeStays, QuietInv DEF CheckoutAnswered, Leave, Return
<1>3. CASE HandedOver
  <2>1. ChargeMoves
      BY <1>1, <1>3 DEF HandedOver, ChargeMoves, ChargeState
  <2>2. screen' \in Screen
      BY <1>1, <1>3 DEF HandedOver, Screen
  <2>. QED  BY <1>1, <1>3, <2>1, <2>2, QuietInv DEF HandedOver
<1>4. CASE \E r \in Ref : Pay(r)
  <2>1. ChargeMoves
      BY <1>1, <1>4 DEF Pay, ChargeMoves, ChargeState
  <2>. QED  BY <1>1, <1>4, <2>1, QuietInv DEF Pay
<1>5. CASE TrialEnds
  <2>1. sub' \in Row /\ sub'.plan = sub.plan /\ sub'.license = sub.license /\ sub'.trial = "over"
      BY <1>1, <1>5 DEF TrialEnds, Row
  <2>. QED  BY <1>1, <1>5, <2>1, ChargeStays, QuietInv DEF TrialEnds
<1>. QED  BY <1>2, <1>3, <1>4, <1>5

LEMMA VerifyInv == ASSUME IInv, NEW q \in Request, Verify(q) PROVE IInv'
<1> DEFINE r == screen.pending
<1>1. r \in Ref /\ screen \in Screen /\ payment \in [Ref -> Status]
    BY Typed DEF IInv, Verify, Screen
<1>2. UNCHANGED <<charge, payment, due, sub, revoked, acked, applied, dropped>>
    BY DEF Verify
<1>3. screen' \in Screen
    BY <1>1 DEF Verify, Screen
<1>4. ChargeMoves
    BY <1>2, ChargeStays
<1>5. CASE payment[r] \in {"pending", "failed"}
  <2>1. Begin(q, "verify", r, payment[r], NewRow)
      BY <1>5 DEF Verify
  <2>2. "verify" \in Kind \ {"none"} /\ r \in About /\ payment[r] \in Status /\ NewRow \in Row
      BY <1>1 DEF Kind, About, Status, NewRow, Row
  <2>. QED  BY <1>1, <1>2, <1>3, <1>4, <1>5, <2>1, <2>2, BeginInv
<1>6. CASE payment[r] \notin {"pending", "failed"}
  <2>1. UNCHANGED <<request, clashed>>
      BY <1>6 DEF Verify
  <2>. QED  BY <1>2, <1>3, <1>4, <2>1, QuietInv, Typed DEF IInv
<1>. QED  BY <1>5, <1>6

LEMMA WebhookInv == ASSUME IInv, NEW q \in Request, NEW r \in Ref, Webhook(q, r) PROVE IInv'
<1>1. /\ charge[r] \in {"paid", "short"} /\ payment[r] \in Status
      /\ UNCHANGED <<charge, payment, due, sub, revoked, screen, applied, dropped>>
    BY Typed DEF IInv, Webhook
<1>2. ChargeMoves /\ screen' \in Screen
    BY <1>1, ChargeStays, Typed DEF IInv
<1>3. CASE Settled(r) \/ Underpaid(r)
  <2>1. acked' \subseteq Ref /\ UNCHANGED <<request, clashed>>
      BY <1>3, Typed DEF IInv, Webhook
  <2>. QED  BY <1>1, <1>2, <2>1, QuietInv, Typed DEF IInv
<1>4. CASE ~(Settled(r) \/ Underpaid(r))
  <2>1. Begin(q, "webhook", r, payment[r], NewRow) /\ UNCHANGED acked
      BY <1>4 DEF Webhook
  <2>2. payment[r] # "success" /\ Enough(r)
      BY <1>1, <1>4 DEF Settled, Underpaid, Enough
  <2>3. "webhook" \in Kind \ {"none"} /\ r \in About /\ NewRow \in Row
      BY DEF Kind, About, NewRow, Row
  <2>. QED  BY <1>1, <1>2, <2>1, <2>2, <2>3, BeginInv
<1>. QED  BY <1>3, <1>4

LEMMA OtherBeginsInv ==
    ASSUME IInv, NEW q \in Request,
           \/ StartTrial(q)
           \/ \E plan \in Plan \cup {Free} : Switch(q, plan)
           \/ \E k \in Key : Activate(q, k) \/ Revoke(q, k)
    PROVE  IInv'
<1>1. /\ UNCHANGED <<charge, payment, due, sub, revoked, acked, screen, applied, dropped>>
      /\ sub \in Row /\ screen \in Screen /\ NewRow \in Row /\ "none" \in Status
      /\ {"trial", "switch", "activate", "revoke"} \subseteq Kind \ {"none"}
      /\ {None, Free} \cup Key \subseteq About
    BY Typed DEF IInv, StartTrial, Switch, Activate, Revoke, Kind, About, NewRow, Row, Status
<1>2. ChargeMoves /\ screen' \in Screen
    BY <1>1, ChargeStays
<1>3. CASE StartTrial(q)
  <2>1. Begin(q, "trial", None, "none", NewRow) /\ sub.plan = Free
      BY <1>3 DEF StartTrial
  <2>. QED  BY <1>1, <1>2, <2>1, BeginInv
<1>4. CASE \E plan \in Plan \cup {Free} : Switch(q, plan)
  <2>1. Begin(q, "switch", Free, "none", sub)
      BY <1>4 DEF Switch, MustPay
  <2>. QED  BY <1>1, <1>2, <2>1, BeginInv
<1>5. CASE \E k \in Key : Activate(q, k)
  <2>1. PICK k \in Key : Activate(q, k)
      BY <1>5
  <2>2. Begin(q, "activate", k, "none", NewRow) /\ k \notin revoked
      BY <2>1 DEF Activate, Refused
  <2>. QED  BY <1>1, <1>2, <2>2, BeginInv
<1>6. CASE \E k \in Key : Revoke(q, k)
  <2>1. PICK k \in Key : Begin(q, "revoke", k, "none", NewRow)
      BY <1>6 DEF Revoke
  <2>. QED  BY <1>1, <1>2, <2>1, BeginInv
<1>. QED  BY <1>3, <1>4, <1>5, <1>6

LEMMA AskPaystackInv == ASSUME IInv, NEW q \in Request, AskPaystack(q) PROVE IInv'
<1>1. PICK verdict \in Verdicts(request[q].about) : Becomes(q, At(q, verdict, NewRow))
    BY DEF AskPaystack
<1>2. /\ verdict \in {"success", "unpaid", "failed"}
      /\ verdict = "success" => Enough(request[q].about)
    BY DEF Verdicts, Underpaid, Enough
<1>3. /\ verdict \in Place \ {"off"} /\ NewRow \in Row
      /\ verdict # "holding" /\ request[q].kind = "verify"
    BY <1>2 DEF Place, NewRow, Row, AskPaystack, Is
<1>4. /\ UNCHANGED <<charge, payment, due, sub, revoked, acked, screen, applied, dropped, clashed>>
      /\ acked \subseteq Ref /\ screen \in Screen
    BY Typed DEF IInv, AskPaystack
<1>. QED  BY <1>1, <1>2, <1>3, <1>4, GoesOnInv

\* A request that takes its row lock reads the subscription behind it; a
\* webhook that found no row and still finds none has nothing to compare with.
LEMMA ApplyInv == ASSUME IInv, NEW q \in Request, Apply(q) PROVE IInv'
<1> DEFINE r == request[q].about
<1>1. /\ Becomes(q, At(q, "holding", sub)) /\ ~Locked(r)
      /\ UNCHANGED <<charge, payment, due, sub, revoked, applied, dropped, clashed>>
      /\ request[q].kind \in {"verify", "webhook"} /\ r \in Ref
    BY DEF Apply, Is, IInv, WorksOnItsOwn
<1>2. Enough(r)
  <2>1. CASE request[q].kind = "verify" \/ request[q].seen # "none"
      BY <1>1, <2>1 DEF Apply, Is, IInv, WorksOnItsOwn
  <2>2. CASE request[q].kind = "webhook" /\ request[q].seen = "none"
    <3>1. payment[r] = "none" /\ charge[r] \in {"paid", "short"}
        BY <2>2 DEF Apply, Is, Late, IInv, WorksOnItsOwn
    <3>2. r \notin due
        BY <3>1 DEF IInv, CheckoutIsFirst
    <3>. QED  BY <3>1, <3>2 DEF Enough
  <2>. QED  BY <1>1, <2>1, <2>2
<1>3. acked' \subseteq Ref /\ screen' \in Screen
    BY <1>1, TellTyped, Typed DEF IInv, Apply
<1>4. "holding" \in Place \ {"off"} /\ sub \in Row
    BY Typed DEF IInv, Place
<1>. QED  BY <1>1, <1>2, <1>3, <1>4, GoesOnInv

LEMMA LockLicenseInv == ASSUME IInv, NEW q \in Request, LockLicense(q) PROVE IInv'
<1>1. /\ Becomes(q, At(q, "holding", sub)) /\ request[q].kind \in {"activate", "revoke"}
      /\ UNCHANGED <<charge, payment, due, sub, revoked, acked, screen, applied, dropped, clashed>>
    BY DEF LockLicense, Hold, Is
<1>2. "holding" \in Place \ {"off"} /\ sub \in Row /\ acked \subseteq Ref /\ screen \in Screen
    BY Typed DEF IInv, Place
<1>. QED  BY <1>1, <1>2, GoesOnInv

-----------------------------------------------------------------------------
(* The steps by which a request ends. *)

\* A request ends and leaves what is granted as it is.
LEMMA EndsInv ==
    ASSUME IInv, NEW q \in Request, Done(q), screen' \in Screen, dropped' \subseteq Ref,
           UNCHANGED <<charge, payment, due, sub, revoked, acked, applied, clashed>>
    PROVE  IInv'
<1>1. /\ request' \in [Request -> RequestState] /\ request'[q] = NoRequest
      /\ \A o \in Request \ {q} : request'[o] = request[o]
      /\ WorksOnItsOwn' /\ ClashesKnown'
    BY DoneInv
<1>2. TypeOK'
    BY <1>1, Typed, TypedNext DEF IInv
<1>3. CheckoutIsFirst'
    BY <1>1, NoRequestState DEF IInv, CheckoutIsFirst
<1>4. ReadsHold'
    BY <1>1, NoRequestState DEF IInv, ReadsHold
<1>. QED  BY <1>1, <1>2, <1>3, <1>4, GrantsStand, ChargeStays DEF IInv, GrantInv

LEMMA FailInv == ASSUME IInv, NEW q \in Request, Fail(q) \/ Collide(q) PROVE IInv'
<1>1. request[q].kind = "webhook" => request[q].about \in Ref
    BY DEF IInv, WorksOnItsOwn
<1>2. screen' \in Screen /\ dropped' \subseteq Ref
    BY <1>1, TellTyped, Typed DEF IInv, Fail, Collide
<1>. QED  BY <1>2, EndsInv DEF Fail, Collide

\* A row is pending after the answer was sent.
LEMMA CommitCheckoutInv == ASSUME IInv, NEW q \in Request, CommitCheckout(q) PROVE IInv'
<1> DEFINE r == request[q].about
<1>1. /\ request[q].kind = "checkout" /\ payment' = [payment EXCEPT ![r] = "pending"] /\ Done(q)
      /\ due' = due \cup (Priced \cap {r})
      /\ UNCHANGED <<charge, sub, revoked, acked, screen, applied, dropped, clashed>>
    BY DEF CommitCheckout, Is
<1>2. /\ r \in Ref /\ charge[r] # "none" /\ payment[r] = "none"
    BY <1>1 DEF IInv, WorksOnItsOwn, CheckoutIsFirst
<1>3. /\ request' \in [Request -> RequestState] /\ request'[q] = NoRequest
      /\ \A o \in Request \ {q} : request'[o] = request[o]
      /\ ClashesKnown'
    BY <1>1, DoneInv
<1>4. /\ payment' \in [Ref -> Status] /\ payment'[r] = "pending"
      /\ \A s \in Ref \ {r} : payment'[s] = payment[s]
    BY <1>1, <1>2, Typed DEF IInv, Status
<1>. HIDE DEF r
<1>5. TypeOK'
    BY <1>1, <1>2, <1>3, <1>4, Typed, TypedNext DEF IInv
<1>10. \A s \in Ref \ {r} : Enough(s) => Enough(s)'
    BY <1>1 DEF Enough
<1>11. WorksOnItsOwn'
  <2>1. \A o \in Request : /\ request[o].kind = "verify" => request[o].about # r
                           /\ request[o].kind = "webhook" /\ request[o].seen # "none" => request[o].about # r
                           /\ request[o].kind = "webhook" /\ request[o].at = "holding" => request[o].about # r
      BY <1>1, <1>2 DEF IInv, CheckoutIsFirst, r
  <2>. QED  BY <1>1, <1>3, <1>10, <2>1, NoRequestState DEF IInv, WorksOnItsOwn
<1>6. CheckoutIsFirst'
  <2>1. \A o \in Request \ {q} : request[o].kind = "checkout" => request[o].about # r
      BY <1>1 DEF IInv, CheckoutIsFirst, r
  <2>2. \A o \in Request : request[o].kind \in {"checkout", "verify", "webhook"} => request[o].about \in Ref
      BY DEF IInv, WorksOnItsOwn
  <2>. QED  BY <1>1, <1>2, <1>3, <1>4, <2>1, <2>2, NoRequestState DEF IInv, CheckoutIsFirst
<1>7. ReadsHold'
  <2>1. \A o \in Request : request[o].kind \in {"verify", "webhook"} => request[o].about \in Ref
      BY DEF IInv, WorksOnItsOwn
  <2>2. \A s \in Ref : payment[s] # "success" => payment'[s] # "success"
      BY <1>4
  <2>. QED  BY <1>1, <1>3, <2>1, <2>2, NoRequestState DEF IInv, ReadsHold
<1>8. ConfirmedOnce'
    BY <1>1, <1>2, <1>4 DEF IInv, ConfirmedOnce
<1>9. PaymentEndsTrial' /\ RevokedGrantsNothing'
    BY <1>1 DEF IInv, PaymentEndsTrial, RevokedGrantsNothing
<1>12. PlanIsPaidFor'
    BY <1>1, <1>2, <1>4, <1>10 DEF IInv, PlanIsPaidFor
<1>. QED  BY <1>3, <1>5, <1>6, <1>7, <1>8, <1>9, <1>11, <1>12 DEF IInv

\* The requests of a charge, when one of them ends by writing its row.
LEMMA PaymentWritten ==
    ASSUME IInv, NEW q \in Request, request[q].kind \in {"verify", "webhook"}, Done(q),
           request[q].kind = "verify" \/ request[q].at = "holding",
           NEW status \in Status \ {"none"},
           payment' = [payment EXCEPT ![request[q].about] = status],
           sub'.license = sub.license, sub'.trial \in {sub.trial, "over"},
           \/ sub' = sub \/ "plan" \in Works(request[q].kind, request[q].about),
           UNCHANGED <<charge, due, revoked, clashed>>
    PROVE  /\ request' \in [Request -> RequestState] /\ RequestInv'
           /\ request[q].about \in Ref
           /\ payment' \in [Ref -> Status] /\ payment'[request[q].about] = status
           /\ \A s \in Ref \ {request[q].about} : payment'[s] = payment[s]
<1> DEFINE r == request[q].about
<1>1. /\ r \in Ref /\ charge[r] # "none"
      /\ \A p \in Request : request[p].kind = "checkout" => request[p].about # r
    BY DEF IInv, WorksOnItsOwn, CheckoutIsFirst
<1>2. /\ request' \in [Request -> RequestState] /\ request'[q] = NoRequest
      /\ \A o \in Request \ {q} : request'[o] = request[o]
      /\ WorksOnItsOwn' /\ ClashesKnown'
    BY DoneInv
<1>3. /\ payment' \in [Ref -> Status] /\ payment'[r] = status
      /\ \A s \in Ref \ {r} : payment'[s] = payment[s]
    BY <1>1, Typed DEF IInv, Status
<1>4. {r, "plan"} \subseteq Works(request[q].kind, r)
    BY DEF Works
<1>5. \A o \in Request \ {q} : Works(request[o].kind, request[o].about) \cap {r, "plan"} \subseteq clashed
    BY <1>4 DEF IInv, ClashesKnown
<1>6. \A o \in Request : request[o].kind \in {"checkout", "verify", "webhook"} => request[o].about \in Ref
    BY DEF IInv, WorksOnItsOwn
<1>. HIDE DEF r
<1>7. CheckoutIsFirst'
    BY <1>1, <1>2, <1>3, <1>6, NoRequestState DEF IInv, CheckoutIsFirst
<1>8. ReadsHold'
  <2> SUFFICES ASSUME NEW o \in Request, o # q
               PROVE  /\ request[o].kind \in {"verify", "webhook"} /\ request[o].about \notin clashed =>
                           payment'[request[o].about] # "success"
                      /\ request[o].kind \in {"verify", "webhook"} /\ request[o].at = "holding"
                           /\ "plan" \notin clashed =>
                             (sub'.trial = "open" => request[o].row.trial = "open")
                      /\ request[o].kind = "trial" /\ "plan" \notin clashed => sub'.plan = Free
                      /\ request[o].kind = "activate" /\ request[o].about \notin clashed =>
                           request[o].about \notin revoked
                      /\ request[o].kind = "revoke" /\ request[o].at = "holding"
                           /\ request[o].about \notin clashed =>
                             (sub'.license = request[o].about => request[o].row.license = request[o].about)
      BY <1>2, NoRequestState DEF ReadsHold
  <2>1. request[o].kind \in {"verify", "webhook"} /\ request[o].about \notin clashed =>
            request[o].about \in Ref \ {r}
      BY <1>5, <1>6 DEF Works
  <2>2. request[o].kind = "trial" => "plan" \in clashed
      BY <1>5 DEF Works
  <2>. QED  BY <1>3, <2>1, <2>2 DEF IInv, ReadsHold
<1>. QED  BY <1>1, <1>2, <1>3, <1>7, <1>8 DEF RequestInv, IInv, r

\* A verdict without money.
LEMMA UnpaidInv == ASSUME IInv, NEW q \in Request, Unpaid(q) PROVE IInv'
<1> DEFINE r == request[q].about
           status == IF request[q].at = "failed" THEN Written(request[q].seen, "failed", payment[r])
                     ELSE payment[r]
<1>1. /\ Done(q) /\ payment' = [payment EXCEPT ![r] = status]
      /\ UNCHANGED <<charge, due, sub, revoked, acked, applied, dropped, clashed>>
      /\ request[q].kind = "verify"
    BY DEF Unpaid, IInv, WorksOnItsOwn
<1>2. r \in Ref /\ payment[r] # "none" /\ payment[r] \in Status
    BY <1>1, Typed DEF IInv, WorksOnItsOwn, CheckoutIsFirst
<1>3. status \in Status \ {"none"} /\ status \in {payment[r], "failed"}
    BY <1>2 DEF Written, Status
<1>4. r \notin clashed => payment[r] # "success"
    BY <1>1 DEF IInv, ReadsHold
<1>. HIDE DEF status
<1>5. /\ request' \in [Request -> RequestState] /\ RequestInv'
      /\ payment' \in [Ref -> Status] /\ payment'[r] = status
      /\ \A s \in Ref \ {r} : payment'[s] = payment[s]
    BY <1>1, <1>3, PaymentWritten
<1>6. screen' \in Screen
    BY TellTyped, Typed DEF IInv, Unpaid
<1>7. TypeOK'
    BY <1>1, <1>5, <1>6, Typed, TypedNext DEF IInv
<1>8. ConfirmedOnce'
    BY <1>1, <1>2, <1>3, <1>4, <1>5 DEF IInv, ConfirmedOnce
<1>9. PaymentEndsTrial' /\ RevokedGrantsNothing'
    BY <1>1 DEF IInv, PaymentEndsTrial, RevokedGrantsNothing
<1>10. PlanIsPaidFor'
    BY <1>1, <1>2, <1>3, <1>5 DEF IInv, PlanIsPaidFor, Enough
<1>. QED  BY <1>5, <1>7, <1>8, <1>9, <1>10 DEF IInv, RequestInv

\* A charge is applied: its row and the subscription are written.
LEMMA CommitPaymentInv == ASSUME IInv, NEW q \in Request, CommitPayment(q) PROVE IInv'
<1> DEFINE r == request[q].about
<1>1. /\ request[q].kind \in {"verify", "webhook"} /\ request[q].at = "holding" /\ Done(q)
      /\ payment' = [payment EXCEPT ![r] = "success"] /\ sub' = Upgraded(q)
      /\ applied' = [applied EXCEPT ![r] = IF @ = 2 THEN 2 ELSE @ + 1]
      /\ UNCHANGED <<charge, due, revoked, acked, screen, dropped, clashed>>
    BY DEF CommitPayment, Is, Recorded
<1>2. /\ r \in Ref /\ Enough(r) /\ PlanOf[r] \in Plan
    BY <1>1, BillingAssumption DEF IInv, WorksOnItsOwn
<1>3. /\ sub' \in Row /\ sub'.license = sub.license
      /\ sub'.trial = IF request[q].row.trial = "open" THEN "over" ELSE sub.trial
      /\ sub'.plan \in {PlanOf[r], sub.plan}
    BY <1>1, <1>2, Typed DEF IInv, Upgraded, Written, Row
<1>4. "plan" \in Works(request[q].kind, r)
    BY <1>1 DEF Works
<1>5. /\ request' \in [Request -> RequestState] /\ RequestInv'
      /\ payment' \in [Ref -> Status] /\ payment'[r] = "success"
      /\ \A s \in Ref \ {r} : payment'[s] = payment[s]
    BY <1>1, <1>3, <1>4, PaymentWritten DEF Status
<1>6. /\ applied \in [Ref -> 0..2] /\ applied' \in [Ref -> 0..2]
      /\ applied[r] = 0 => applied'[r] = 1
      /\ \A s \in Ref \ {r} : applied'[s] = applied[s]
    BY <1>1, <1>2, Typed DEF IInv
<1>7. TypeOK'
    BY <1>1, <1>3, <1>5, <1>6, Typed, TypedNext DEF IInv
<1>8. PlanIsPaidFor'
    BY <1>1, <1>2, <1>3, <1>5 DEF IInv, PlanIsPaidFor, Enough
<1>9. ConfirmedOnce'
  <2>1. r \notin clashed => payment[r] # "success"
      BY <1>1 DEF IInv, ReadsHold
  <2>2. r \notin clashed => applied[r] = 0
      BY <1>2, <1>6, <2>1 DEF IInv, ConfirmedOnce
  <2>. QED  BY <1>1, <1>2, <1>5, <1>6, <2>2 DEF IInv, ConfirmedOnce
<1>10. PaymentEndsTrial'
    BY <1>1, <1>3 DEF IInv, PaymentEndsTrial, ReadsHold
<1>11. RevokedGrantsNothing'
    BY <1>1, <1>3 DEF IInv, RevokedGrantsNothing
<1>. QED  BY <1>5, <1>7, <1>8, <1>9, <1>10, <1>11 DEF IInv, RequestInv

\* The requests, when one ends by writing the subscription or a revocation.
LEMMA SubWritten ==
    ASSUME IInv, NEW q \in Request, Done(q), sub' \in Row, revoked' \subseteq Key,
           \/ /\ request[q].kind \in {"switch", "trial"} /\ UNCHANGED revoked
              /\ sub'.license = sub.license
              /\ request[q].kind = "switch" => sub'.plan \in {Free, sub.plan} /\ sub'.trial = sub.trial
           \/ /\ request[q].kind \in {"activate", "revoke"}
              /\ sub'.plan = sub.plan /\ sub'.trial = sub.trial
              /\ sub'.license \in {request[q].about, sub.license, None}
              /\ revoked' \subseteq revoked \cup {request[q].about},
           UNCHANGED <<charge, payment, due, acked, screen, applied, dropped, clashed>>
    PROVE  TypeOK' /\ RequestInv' /\ ConfirmedOnce'
<1>1. /\ request' \in [Request -> RequestState] /\ request'[q] = NoRequest
      /\ \A o \in Request \ {q} : request'[o] = request[o]
      /\ WorksOnItsOwn' /\ ClashesKnown'
    BY DoneInv
<1>2. TypeOK'
    BY <1>1, Typed, TypedNext DEF IInv
<1>3. CheckoutIsFirst'
    BY <1>1, NoRequestState DEF IInv, CheckoutIsFirst
<1>4. ReadsHold'
  <2>1. \A o \in Request \ {q} :
            Works(request[o].kind, request[o].about) \cap Works(request[q].kind, request[q].about)
              \subseteq clashed
      BY DEF IInv, ClashesKnown
  <2>2. CASE request[q].kind \in {"switch", "trial"}
    <3>1. \A o \in Request \ {q} :
              request[o].kind \in {"verify", "webhook", "trial"} => "plan" \in clashed
        BY <2>1, <2>2 DEF Works
    <3>. QED  BY <1>1, <2>2, <3>1, NoRequestState DEF IInv, ReadsHold
  <2>3. CASE request[q].kind \in {"activate", "revoke"}
    <3>1. \A o \in Request \ {q} :
              request[o].kind \in {"activate", "revoke"} /\ request[o].about \notin clashed =>
                request[o].about # request[q].about /\ request[o].about # None
        BY <2>1, <2>3, BillingAssumption DEF Works, IInv, WorksOnItsOwn
    <3>. QED  BY <1>1, <2>3, <3>1, NoRequestState DEF IInv, ReadsHold
  <2>. QED  BY <2>2, <2>3
<1>5. ConfirmedOnce'
    BY DEF IInv, ConfirmedOnce
<1>. QED  BY <1>1, <1>2, <1>3, <1>4, <1>5 DEF RequestInv

LEMMA CommitSwitchInv == ASSUME IInv, NEW q \in Request, CommitSwitch(q) PROVE IInv'
<1>1. /\ request[q].kind = "switch" /\ Done(q)
      /\ UNCHANGED <<charge, payment, due, revoked, acked, screen, applied, dropped, clashed>>
    BY DEF CommitSwitch, Is
<1>2. /\ sub' \in Row /\ sub'.license = sub.license /\ sub'.trial = sub.trial
      /\ sub'.plan \in {Free, sub.plan}
    BY <1>1, Typed DEF IInv, WorksOnItsOwn, CommitSwitch, Written, Row
<1>3. TypeOK' /\ RequestInv' /\ ConfirmedOnce'
    BY <1>1, <1>2, SubWritten, Typed DEF IInv
<1>4. PlanIsPaidFor' /\ PaymentEndsTrial' /\ RevokedGrantsNothing'
    BY <1>1, <1>2 DEF IInv, PlanIsPaidFor, Enough, PaymentEndsTrial, RevokedGrantsNothing
<1>. QED  BY <1>3, <1>4 DEF IInv, RequestInv

LEMMA CommitTrialInv == ASSUME IInv, NEW q \in Request, CommitTrial(q) PROVE IInv'
<1>1. /\ request[q].kind = "trial" /\ Done(q)
      /\ UNCHANGED <<charge, payment, due, revoked, acked, screen, applied, dropped, clashed>>
    BY DEF CommitTrial, Is
<1>2. /\ sub' \in Row /\ sub'.license = sub.license /\ sub'.trial = "open" /\ sub'.plan = sub.plan
    BY <1>1, Typed DEF IInv, CommitTrial, Row
<1>3. TypeOK' /\ RequestInv' /\ ConfirmedOnce'
    BY <1>1, <1>2, SubWritten, Typed DEF IInv
<1>4. PlanIsPaidFor' /\ RevokedGrantsNothing'
    BY <1>1, <1>2 DEF IInv, PlanIsPaidFor, Enough, RevokedGrantsNothing
<1>5. PaymentEndsTrial'
    BY <1>1, <1>2 DEF IInv, PaymentEndsTrial, ReadsHold
<1>. QED  BY <1>3, <1>4, <1>5 DEF IInv, RequestInv

LEMMA CommitActivateInv == ASSUME IInv, NEW q \in Request, CommitActivate(q) PROVE IInv'
<1>1. /\ request[q].kind = "activate" /\ Done(q) /\ request[q].about \in Key
      /\ UNCHANGED <<charge, payment, due, revoked, acked, screen, applied, dropped, clashed>>
    BY DEF CommitActivate, Is, IInv, WorksOnItsOwn
<1>2. /\ sub' \in Row /\ sub'.plan = sub.plan /\ sub'.trial = sub.trial
      /\ sub'.license \in {request[q].about, sub.license}
    BY <1>1, Typed DEF IInv, CommitActivate, Written, Row
<1>3. TypeOK' /\ RequestInv' /\ ConfirmedOnce'
    BY <1>1, <1>2, SubWritten, Typed DEF IInv
<1>4. PlanIsPaidFor' /\ PaymentEndsTrial'
    BY <1>1, <1>2 DEF IInv, PlanIsPaidFor, Enough, PaymentEndsTrial
<1>5. RevokedGrantsNothing'
    BY <1>1, <1>2 DEF IInv, RevokedGrantsNothing, ReadsHold
<1>. QED  BY <1>3, <1>4, <1>5 DEF IInv, RequestInv

LEMMA CommitRevokeInv == ASSUME IInv, NEW q \in Request, CommitRevoke(q) PROVE IInv'
<1> DEFINE k == request[q].about
<1>1. /\ request[q].kind = "revoke" /\ request[q].at = "holding" /\ Done(q) /\ k \in Key
      /\ UNCHANGED <<charge, payment, due, acked, screen, applied, dropped, clashed>>
      /\ revoked' = revoked \cup {k}
    BY DEF CommitRevoke, Is, IInv, WorksOnItsOwn
<1>2. /\ sub' \in Row /\ sub'.plan = sub.plan /\ sub'.trial = sub.trial
      /\ sub'.license = IF request[q].row.license = k THEN None ELSE sub.license
    BY <1>1, Typed DEF IInv, CommitRevoke, Row
<1>3. TypeOK' /\ RequestInv' /\ ConfirmedOnce'
    BY <1>1, <1>2, SubWritten, Typed DEF IInv
<1>4. PlanIsPaidFor' /\ PaymentEndsTrial'
    BY <1>1, <1>2 DEF IInv, PlanIsPaidFor, Enough, PaymentEndsTrial
<1>5. RevokedGrantsNothing'
  <2>1. k \notin clashed => (sub.license = k => request[q].row.license = k)
      BY <1>1 DEF IInv, ReadsHold
  <2>2. None \notin Key
      BY BillingAssumption
  <2>3. revoked \subseteq Key
      BY Typed DEF IInv
  <2>. QED  BY <1>1, <1>2, <2>1, <2>2, <2>3 DEF IInv, RevokedGrantsNothing
<1>. QED  BY <1>3, <1>4, <1>5 DEF IInv, RequestInv

-----------------------------------------------------------------------------

\* Every step preserves the invariant.
LEMMA NextInv == ASSUME IInv, Next PROVE IInv'
<1>1. ASSUME NEW q \in Request, NEW r \in Ref, Checkout(q, r) \/ Webhook(q, r) PROVE IInv'
    BY <1>1, CheckoutInv, WebhookInv
<1>2. ASSUME NEW q \in Request, Verify(q) PROVE IInv'
    BY <1>2, VerifyInv
<1>3. ASSUME NEW q \in Request,
             \/ StartTrial(q) \/ \E plan \in Plan \cup {Free} : Switch(q, plan)
             \/ \E k \in Key : Activate(q, k) \/ Revoke(q, k)
      PROVE  IInv'
    BY <1>3, OtherBeginsInv
<1>4. ASSUME NEW q \in Request, Step(q) PROVE IInv'
    BY <1>4, AskPaystackInv, UnpaidInv, ApplyInv, LockLicenseInv, FailInv, CommitCheckoutInv,
       CommitPaymentInv, CommitSwitchInv, CommitTrialInv, CommitActivateInv, CommitRevokeInv DEF Step, Commit
<1>5. ASSUME NEW q \in Request, Fail(q) PROVE IInv'
    BY <1>5, FailInv
<1>6. ASSUME \/ CheckoutAnswered \/ HandedOver \/ Leave \/ TrialEnds
             \/ \E r \in Ref : Pay(r) \/ Return(r)
      PROVE  IInv'
    BY <1>6, ScreenInv
<1>. QED  BY <1>1, <1>2, <1>3, <1>4, <1>5, <1>6 DEF Next

\* So does a step that changes nothing.
LEMMA StutterInv == ASSUME IInv, UNCHANGED vars PROVE IInv'
<1>1. UNCHANGED <<charge, payment, due, sub, revoked, request, acked, screen, applied, dropped, clashed>>
    BY DEF vars
<1>. QED  BY <1>1, QuietInv, ChargeStays, Typed DEF IInv

\* The inductive invariant: what requests have read holds unless two of them
\* clashed, so that what they write is what the business is owed.
THEOREM BillingInvariance == Spec => []IInv
<1>1. IInv /\ [Next]_vars => IInv'
    BY NextInv, StutterInv
<1>. QED  BY <1>1, InitInv, PTL DEF Spec

\* The state keeps its types.
THEOREM BillingTypeCorrect == Spec => []TypeOK
<1>1. IInv => TypeOK
    BY DEF IInv
<1>. QED  BY <1>1, BillingInvariance, PTL

\* A paid plan is one that a charge was made for (payments.py and billing.py),
\* whatever requests overlap.
THEOREM PlansArePaidFor == Spec => []PlanIsPaidFor
<1>1. IInv => PlanIsPaidFor
    BY DEF IInv
<1>. QED  BY <1>1, BillingInvariance, PTL

\* Webhook and verification that do not overlap apply a charge once
\* (payments.py: idempotent on reference).
THEOREM ChargesApplyOnce == Spec => []ConfirmedOnce
<1>1. IInv => ConfirmedOnce
    BY DEF IInv
<1>. QED  BY <1>1, BillingInvariance, PTL

\* A trial does not hide a plan that was paid for (billing.py: change_plan),
\* unless its start overlapped the charge.
THEOREM PaymentsEndTrials == Spec => []PaymentEndsTrial
<1>1. IInv => PaymentEndsTrial
    BY DEF IInv
<1>. QED  BY <1>1, BillingInvariance, PTL

\* A revoked licence grants nothing (licensing.py: revoke), unless it was being
\* activated meanwhile.
THEOREM RevocationWins == Spec => []RevokedGrantsNothing
<1>1. IInv => RevokedGrantsNothing
    BY DEF IInv
<1>. QED  BY <1>1, BillingInvariance, PTL

=============================================================================
