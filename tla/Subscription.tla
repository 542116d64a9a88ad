------------------------------ MODULE Subscription ------------------------------
(* What a business pays for and what it is granted: Paystack charges and       *)
(* their two confirmations (backend/payments.py), the plan and the free trial  *)
(* (billing.py), licences (licensing.py), and the billing screen that starts a *)
(* checkout and verifies it (frontend billing/useBilling.ts).  A request reads *)
(* rows, may wait for Paystack or for a row lock, and writes the columns that  *)
(* it changed, without a version in the WHERE clause.                          *)
EXTENDS Integers

CONSTANTS
    Ref,       \* charges, one per checkout
    Plan,      \* paid plans
    Key,       \* licence keys issued to the business
    Request,   \* slots of the requests under way at a time
    PlanOf,    \* the plan a checkout is for
    Priced,    \* charges for plans that have a configured price
    Free,      \* the plan without a charge
    None       \* no reference, no licence

ASSUME BillingAssumption ==
    /\ PlanOf \in [Ref -> Plan] /\ Free \notin Plan
    /\ Priced \subseteq Ref /\ Request \subseteq Nat
    /\ None \notin Ref \cup Key /\ Ref \cap Key = {}
    /\ "plan" \notin Ref \cup Key

VARIABLES
    charge,    \* Paystack: where each charge stands
    payment,   \* payments.status of each reference
    due,       \* references whose row has an amount to compare with
    sub,       \* the subscription row: plan, trial, licence
    revoked,   \* licences with revoked_at
    request,   \* requests under way, with what they have read
    acked,     \* charges whose webhook was answered with 200
    screen,    \* the billing screen: whether it is processing, its references
    applied,   \* history: how often each charge was applied, counted to 2
    dropped,   \* history: charges whose acknowledged webhook was rolled back
    clashed    \* history: what two requests under way worked on at once

vars ==
    <<charge, payment, due, sub, revoked, request, acked, screen, applied, dropped, clashed>>

Status == {"none", "pending", "success", "failed"}
Row == [plan: Plan \cup {Free}, trial: {"unused", "open", "over"}, license: Key \cup {None}]
NewRow == [plan |-> Free, trial |-> "unused", license |-> None]

\* seen is the status a confirmation read, row the subscription it read.
NoRequest == [kind |-> "none", at |-> "off", about |-> None, seen |-> "none", row |-> NewRow]

Blank == [busy |-> FALSE, step |-> "rest", pending |-> None, verifying |-> None]

TypeOK ==
    /\ charge \in [Ref -> {"none", "open", "visited", "paid", "short"}]
    /\ payment \in [Ref -> Status]
    /\ due \subseteq Ref
    /\ sub \in Row
    /\ revoked \subseteq Key
    /\ request \in [Request -> [
         kind: {"none", "checkout", "verify", "webhook", "switch", "trial", "activate", "revoke"},
         at: {"off", "read", "success", "unpaid", "failed", "holding"},
         about: Ref \cup Key \cup Plan \cup {Free, None}, seen: Status, row: Row]]
    /\ acked \subseteq Ref
    /\ screen \in [busy: BOOLEAN,
                   step: {"rest", "asked", "leaving"},
                   pending: Ref \cup {None}, verifying: Ref \cup {None}]
    /\ applied \in [Ref -> 0..2]
    /\ dropped \subseteq Ref
    /\ clashed \subseteq Ref \cup Key \cup {"plan"}

Init ==
    /\ charge = [r \in Ref |-> "none"]
    /\ payment = [r \in Ref |-> "none"]
    /\ due = {}
    /\ sub = NewRow
    /\ revoked = {}
    /\ request = [q \in Request |-> NoRequest]
    /\ acked = {}
    /\ screen = Blank
    /\ applied = [r \in Ref |-> 0]
    /\ dropped = {}
    /\ clashed = {}

-----------------------------------------------------------------------------
(* Requests. *)

\* What a request works on.
Works(kind, about) ==
    (IF kind \in {"verify", "webhook", "activate", "revoke"} THEN {about} ELSE {})
      \cup (IF kind \in {"verify", "webhook", "switch", "trial"} THEN {"plan"} ELSE {})

InFlight(q) == request[q].kind # "none"

Becomes(q, state) == request' = [request EXCEPT ![q] = state]

\* A request arrives, in the first free slot, and has read what it reads first.
Begin(q, kind, about, seen, row) ==
    /\ ~InFlight(q)
    /\ \A o \in Request : o < q => InFlight(o)
    /\ Becomes(q, [kind |-> kind, at |-> "read", about |-> about, seen |-> seen, row |-> row])
    /\ clashed' = clashed \cup
         UNION {Works(kind, about) \cap Works(request[o].kind, request[o].about) : o \in Request}

Done(q) == Becomes(q, NoRequest)

At(q, at, row) ==
    [kind |-> request[q].kind, at |-> at, about |-> request[q].about,
     seen |-> request[q].seen, row |-> row]

Is(q, kinds, at) == request[q].kind \in kinds /\ request[q].at = at

\* A flushed UPDATE of a payment or licence row locks it until the commit, and a
\* flushed INSERT its reference; the subscription is read behind the lock.
Locked(about) ==
    \E o \in Request :
        /\ request[o].about = about
        /\ request[o].at = "holding" \/ request[o].kind = "checkout"
Hold(q) ==
    /\ ~Locked(request[q].about)
    /\ Becomes(q, At(q, "holding", sub))
    /\ UNCHANGED <<charge, payment, due, sub, revoked, acked, screen, applied, dropped, clashed>>

\* Only a column whose value differs from the one that was read is written.
Written(read, new, current) == IF new # read THEN new ELSE current

-----------------------------------------------------------------------------
(* The billing screen and its checkout. *)

\* "Upgrade": Paystack initialises the charge, the row is added, the answer sent.
Checkout(q, r) ==
    /\ ~screen.busy
    /\ charge[r] = "none"
    /\ charge' = [charge EXCEPT ![r] = "open"]
    /\ Begin(q, "checkout", r, "none", NewRow)
    /\ screen' = [screen EXCEPT !.busy = TRUE, !.step = "asked", !.pending = r]
    /\ UNCHANGED <<payment, due, sub, revoked, acked, applied, dropped>>

\* The session commits after the answer.  The row has an amount when a price is
\* configured for the plan; otherwise the payment page's own amount stands.
CommitCheckout(q) ==
    /\ Is(q, {"checkout"}, "read")
    /\ payment' = [payment EXCEPT ![request[q].about] = "pending"]
    /\ due' = due \cup (Priced \cap {request[q].about})
    /\ Done(q)
    /\ UNCHANGED <<charge, sub, revoked, acked, screen, applied, dropped, clashed>>

\* The answer arrives, or not; the owner is sent to Paystack.
CheckoutAnswered ==
    /\ screen.step = "asked"
    /\ \/ screen' = [screen EXCEPT !.step = "leaving"]
       \/ screen' = [screen EXCEPT !.busy = FALSE, !.step = "rest", !.pending = None]
    /\ UNCHANGED <<charge, payment, due, sub, revoked, request, acked, applied, dropped, clashed>>

\* openExternal has resolved: the screen reports the checkout as a success.
HandedOver ==
    /\ screen.step = "leaving"
    /\ charge' = [charge EXCEPT ![screen.pending] = IF @ = "open" THEN "visited" ELSE @]
    /\ screen' = [screen EXCEPT !.busy = FALSE, !.step = "rest"]
    /\ UNCHANGED <<payment, due, sub, revoked, request, acked, applied, dropped, clashed>>

\* The owner pays, possibly short.
Pay(r) ==
    /\ charge[r] = "visited"
    /\ \E outcome \in {"paid", "short"} : charge' = [charge EXCEPT ![r] = outcome]
    /\ UNCHANGED <<payment, due, sub, revoked, request, acked, screen, applied, dropped, clashed>>

\* The page is left; the web build comes back to it with ?reference=.
Leave ==
    /\ screen # Blank
    /\ screen' = Blank
    /\ UNCHANGED <<charge, payment, due, sub, revoked, request, acked, applied, dropped, clashed>>

Return(r) ==
    /\ charge[r] \notin {"none", "open"}
    /\ \A q \in Request : ~(request[q].kind = "verify" /\ request[q].about = r)
    /\ screen' = [Blank EXCEPT !.pending = r]
    /\ UNCHANGED <<charge, payment, due, sub, revoked, request, acked, applied, dropped, clashed>>

\* The answer to a verification, success or failure, takes the place of
\* whatever a screen that is still there was showing.
Tell(r) == screen' = IF screen.verifying = r THEN [screen EXCEPT !.busy = FALSE] ELSE screen

-----------------------------------------------------------------------------
(* The two confirmations of a charge. *)

\* The effect on pendingReference: a reference is verified as soon as it is known.
Verify(q) ==
    LET r == screen.pending IN
    /\ r # None /\ r # screen.verifying /\ screen.step # "asked"
    /\ LET asks == [screen EXCEPT !.verifying = r] IN
       IF payment[r] \in {"pending", "failed"}
         THEN screen' = asks /\ Begin(q, "verify", r, payment[r], NewRow)
         ELSE /\ screen' = IF payment[r] = "none" THEN [asks EXCEPT !.busy = FALSE] ELSE asks
              /\ UNCHANGED <<request, clashed>>
    /\ UNCHANGED <<charge, payment, due, sub, revoked, acked, applied, dropped>>

\* Mutant of Underpaid: the amount is not compared.
AnyAmount(r) == FALSE

\* Less arrived than the row asks for, when it asks for an amount.
Underpaid(r) == charge[r] = "short" /\ r \in due

\* Mutant of Verdicts: Paystack's own word is taken over.
Unmapped(r) == IF charge[r] \in {"paid", "short"} THEN {"success"} ELSE {"abandoned"}

\* What Paystack says of a charge, beside the row's amount: one that was not
\* paid is pending or, also while the owner is still paying, failed.
Verdicts(r) ==
    IF Underpaid(r) THEN {"unpaid"}
    ELSE IF charge[r] \in {"paid", "short"} THEN {"success"} ELSE {"unpaid", "failed"}

AskPaystack(q) ==
    /\ Is(q, {"verify"}, "read")
    /\ \E verdict \in Verdicts(request[q].about) : Becomes(q, At(q, verdict, NewRow))
    /\ UNCHANGED <<charge, payment, due, sub, revoked, acked, screen, applied, dropped, clashed>>

\* No money moved, or too little: at most the status is written, over whatever
\* it has become since it was read.
Unpaid(q) ==
    /\ request[q].at \in {"unpaid", "failed"}
    /\ ~Locked(request[q].about)
    /\ payment' = [payment EXCEPT ![request[q].about] =
         IF request[q].at = "failed" THEN Written(request[q].seen, "failed", @) ELSE @]
    /\ Tell(request[q].about)
    /\ Done(q)
    /\ UNCHANGED <<charge, due, sub, revoked, acked, applied, dropped, clashed>>

\* Mutant of Settled: only a pending row can still be paid.
NotPending(r) == payment[r] \in {"success", "failed"}

\* A webhook has nothing to apply.
Settled(r) == payment[r] = "success"

\* Paystack reports a charge, once or more: the row is settled or the amount
\* short, and the answer is 200 at once, or the charge is to be applied.  One
\* whose checkout has no row is recorded from the event's own metadata.
Webhook(q, r) ==
    /\ charge[r] \in {"paid", "short"}
    /\ IF Settled(r) \/ Underpaid(r)
         THEN acked' = acked \cup {r} /\ UNCHANGED <<request, clashed>>
         ELSE Begin(q, "webhook", r, payment[r], NewRow) /\ UNCHANGED acked
    /\ UNCHANGED <<charge, payment, due, sub, revoked, screen, applied, dropped>>

\* Paystack sends an event again until it is answered with 200.
Redeliver(q, r) == r \notin acked /\ Webhook(q, r)

\* A webhook found no row, and there is one by now.
Late(q) == Is(q, {"webhook"}, "read") /\ request[q].seen = "none" /\ payment[request[q].about] # "none"

\* The row is locked and the answer sent, a webhook's 200 among them, while
\* the transaction is still open.
Apply(q) ==
    LET r == request[q].about IN
    /\ Is(q, {"verify"}, "success") \/ Is(q, {"webhook"}, "read")
    /\ ~Late(q)
    /\ ~Locked(r)
    /\ Becomes(q, At(q, "holding", sub))
    /\ acked' = IF request[q].kind = "webhook" THEN acked \cup {r} ELSE acked
    /\ IF request[q].kind = "verify" THEN Tell(r) ELSE UNCHANGED screen
    /\ UNCHANGED <<charge, payment, due, sub, revoked, applied, dropped, clashed>>

\* The reference is unique: the INSERT fails, and the event will be sent again.
Collide(q) ==
    /\ Late(q)
    /\ Done(q)
    /\ UNCHANGED <<charge, payment, due, sub, revoked, acked, screen, applied, dropped, clashed>>

\* Mutant of Upgraded: the trial is left open.
TrialKept(q) ==
    [sub EXCEPT !.plan = Written(request[q].row.plan, PlanOf[request[q].about], @)]

\* change_plan via_payment: the plan is owned, an open trial is closed.
Upgraded(q) ==
    [sub EXCEPT !.plan = Written(request[q].row.plan, PlanOf[request[q].about], @),
                !.trial = IF request[q].row.trial = "open" THEN "over" ELSE @]

\* Mutant of Recorded: the plan is changed, the payment row is not.
NotRecorded(r) == payment

Recorded(r) == [payment EXCEPT ![r] = "success"]

\* get_db commits what was answered.
CommitPayment(q) ==
    LET r == request[q].about IN
    /\ Is(q, {"verify", "webhook"}, "holding")
    /\ payment' = Recorded(r)
    /\ sub' = Upgraded(q)
    /\ applied' = [applied EXCEPT ![r] = IF @ = 2 THEN 2 ELSE @ + 1]
    /\ Done(q)
    /\ UNCHANGED <<charge, due, revoked, acked, screen, dropped, clashed>>

-----------------------------------------------------------------------------
(* Plan changes without a charge, the trial, licences. *)

\* With Paystack configured a paid plan takes a charge.
MustPay(plan) == plan # Free

\* A switch to the plan that is read as the business's own changes nothing.
Switch(q, plan) ==
    /\ plan # sub.plan
    /\ sub.trial # "open" \/ plan # Free
    /\ ~MustPay(plan)
    /\ Begin(q, "switch", plan, "none", sub)
    /\ UNCHANGED <<charge, payment, due, sub, revoked, acked, screen, applied, dropped>>

CommitSwitch(q) ==
    /\ Is(q, {"switch"}, "read")
    /\ sub' = [sub EXCEPT !.plan = Written(request[q].row.plan, request[q].about, @)]
    /\ Done(q)
    /\ UNCHANGED <<charge, payment, due, revoked, acked, screen, applied, dropped, clashed>>

\* One trial, for a business on the free plan.
StartTrial(q) ==
    /\ sub.trial = "unused" /\ sub.plan = Free
    /\ Begin(q, "trial", None, "none", NewRow)
    /\ UNCHANGED <<charge, payment, due, sub, revoked, acked, screen, applied, dropped>>

CommitTrial(q) ==
    /\ Is(q, {"trial"}, "read")
    /\ sub' = [sub EXCEPT !.trial = "open"]
    /\ Done(q)
    /\ UNCHANGED <<charge, payment, due, revoked, acked, screen, applied, dropped, clashed>>

TrialEnds ==
    /\ sub.trial = "open"
    /\ sub' = [sub EXCEPT !.trial = "over"]
    /\ UNCHANGED <<charge, payment, due, revoked, request, acked, screen, applied, dropped, clashed>>

\* Mutant of Refused: revocation is not asked for.
SignatureOnly(k) == FALSE

\* Revocation wins over a valid signature.
Refused(k) == k \in revoked

Activate(q, k) ==
    /\ ~Refused(k)
    /\ Begin(q, "activate", k, "none", NewRow)
    /\ UNCHANGED <<charge, payment, due, sub, revoked, acked, screen, applied, dropped>>

Revoke(q, k) ==
    /\ k \notin revoked
    /\ Begin(q, "revoke", k, "none", NewRow)
    /\ UNCHANGED <<charge, payment, due, sub, revoked, acked, screen, applied, dropped>>

LockLicense(q) == Is(q, {"activate", "revoke"}, "read") /\ Hold(q)

CommitActivate(q) ==
    /\ Is(q, {"activate"}, "holding")
    /\ sub' = [sub EXCEPT !.license = Written(request[q].row.license, request[q].about, @)]
    /\ Done(q)
    /\ UNCHANGED <<charge, payment, due, revoked, acked, screen, applied, dropped, clashed>>

CommitRevoke(q) ==
    /\ Is(q, {"revoke"}, "holding")
    /\ revoked' = revoked \cup {request[q].about}
    /\ sub' = [sub EXCEPT !.license = IF request[q].row.license = request[q].about THEN None ELSE @]
    /\ Done(q)
    /\ UNCHANGED <<charge, payment, due, acked, screen, applied, dropped, clashed>>

\* The request fails, Paystack does not answer it, or the server stops, before
\* the answer or behind it: its transaction is rolled back.
Fail(q) ==
    LET now == request[q] IN
    /\ InFlight(q)
    /\ IF now.kind = "verify" /\ now.at # "holding"
           THEN Tell(now.about) ELSE UNCHANGED screen
    /\ dropped' = IF now.kind = "webhook" /\ now.at = "holding"
                     THEN dropped \cup {now.about} ELSE dropped
    /\ Done(q)
    /\ UNCHANGED <<charge, payment, due, sub, revoked, acked, applied, clashed>>

Commit(q) ==
    \/ CommitCheckout(q) \/ CommitPayment(q) \/ CommitSwitch(q) \/ CommitTrial(q)
    \/ CommitActivate(q) \/ CommitRevoke(q)

Step(q) ==
    \/ AskPaystack(q) \/ Unpaid(q)
    \/ Apply(q) \/ Collide(q)
    \/ LockLicense(q) \/ Commit(q)

Next ==
    \/ \E q \in Request :
         \/ \E r \in Ref : Checkout(q, r) \/ Webhook(q, r)
         \/ Verify(q) \/ StartTrial(q)
         \/ \E plan \in Plan \cup {Free} : Switch(q, plan)
         \/ \E k \in Key : Activate(q, k) \/ Revoke(q, k)
         \/ Step(q) \/ Fail(q)
    \/ \E r \in Ref : Pay(r) \/ Return(r)
    \/ CheckoutAnswered \/ HandedOver \/ Leave \/ TrialEnds

Spec == Init /\ [][Next]_vars

\* Requests go on; an event that Paystack sends again and again reaches the
\* server at last, and confirmations of a charge that come again and again do
\* not all fail, before their answer or behind it.  A single one may.
Confirms(q, r) == request[q].kind \in {"verify", "webhook"} /\ request[q].about = r
Fairness ==
    /\ \A q \in Request : WF_vars(Step(q))
    /\ \A r \in Ref :
        /\ SF_vars(\E q \in Request : Redeliver(q, r))
        /\ SF_vars(\E q \in Request : Confirms(q, r) /\ Apply(q))
        /\ SF_vars(\E q \in Request : Confirms(q, r) /\ CommitPayment(q))

FairSpec == Spec /\ Fairness

-----------------------------------------------------------------------------
\* The charge brought what its row asks for, in full when it asks for an amount.
Enough(r) == charge[r] = "paid" \/ (charge[r] = "short" /\ r \notin due)

\* A paid plan is one that the ledger has a charge for, which brought the amount
\* wherever Co-op has one to compare with, whatever requests overlap.
PlanIsPaidFor ==
    sub.plan # Free =>
        \E r \in Ref : PlanOf[r] = sub.plan /\ payment[r] # "none" /\ Enough(r)

\* Confirmations of a charge that do not overlap apply it once, and the ledger
\* says so for good (payments.py: idempotent on reference).
ConfirmedOnce ==
    \A r \in Ref \ clashed :
        applied[r] <= 1 /\ (payment[r] = "success" <=> applied[r] = 1)

\* Whoever owns a plan is not on trial, unless a charge and a trial start
\* overlapped: then the trial would hide the plan that was paid for.
PaymentEndsTrial == "plan" \notin clashed => (sub.plan = Free \/ sub.trial # "open")

\* A revoked licence grants nothing, unless it was being activated meanwhile.
RevokedGrantsNothing == \A k \in revoked \ clashed : sub.license # k

\* A charge that was paid is applied, whatever its verification made of it and
\* whether or not its checkout was kept, unless the 200 of its webhook was sent
\* for a transaction that was then rolled back: Paystack sends it no more, and
\* nobody is obliged to verify.
PaidIsApplied == \A r \in Ref : charge[r] = "paid" ~> (applied[r] > 0 \/ r \in dropped)

\* What requests are about, and what a confirmation has made sure of.
WorksOnItsOwn ==
    \A q \in Request :
        LET now == request[q] IN
        /\ now.kind \in {"checkout", "verify", "webhook"} => now.about \in Ref
        /\ now.kind \in {"activate", "revoke"} => now.about \in Key
        /\ now.kind = "switch" => now.about = Free
        /\ now.kind \in {"none", "trial"} => now.about = None
        /\ now.at \in {"success", "unpaid", "failed"} => now.kind = "verify"
        /\ now.kind = "webhook" => charge[now.about] \in {"paid", "short"}
        /\ now.kind = "verify" /\ now.at = "success" => Enough(now.about)
        /\ now.kind = "webhook" /\ now.seen # "none" => Enough(now.about)
        /\ now.kind \in {"verify", "webhook"} /\ now.at = "holding" =>
             Enough(now.about)

\* A checkout is the first that is heard of its charge.
CheckoutIsFirst ==
    /\ \A r \in Ref : charge[r] = "none" => payment[r] = "none"
    /\ \A r \in due : payment[r] # "none"
    /\ \A q \in Request :
         LET now == request[q] IN
         /\ now.kind = "checkout" => charge[now.about] # "none" /\ payment[now.about] = "none"
         /\ now.kind = "verify" => payment[now.about] # "none"
         /\ now.kind = "webhook" /\ now.seen # "none" => payment[now.about] # "none"
    /\ \A p, q \in Request :
         request[p].kind = "checkout" /\ request[q].kind = "checkout"
           /\ request[p].about = request[q].about => p = q
    /\ \A p, q \in Request :
         request[p].kind = "checkout" /\ request[q].kind \in {"verify", "webhook"}
           /\ request[q].at = "holding" => request[p].about # request[q].about

\* What two requests work on at once is in clashed.
ClashesKnown ==
    \A p, q \in Request : p # q =>
        Works(request[p].kind, request[p].about) \cap Works(request[q].kind, request[q].about)
          \subseteq clashed

\* What a request has read is still so, unless another worked on it meanwhile.
ReadsHold ==
    \A q \in Request :
        LET now == request[q] IN
        /\ now.kind \in {"verify", "webhook"} /\ now.about \notin clashed =>
             payment[now.about] # "success"
        /\ now.kind \in {"verify", "webhook"} /\ now.at = "holding" /\ "plan" \notin clashed =>
             (sub.trial = "open" => now.row.trial = "open")
        /\ now.kind = "trial" /\ "plan" \notin clashed => sub.plan = Free
        /\ now.kind = "activate" /\ now.about \notin clashed => now.about \notin revoked
        /\ now.kind = "revoke" /\ now.at = "holding" /\ now.about \notin clashed =>
             (sub.license = now.about => now.row.license = now.about)

\* The invariant the proofs go by.
IInv ==
    /\ TypeOK /\ WorksOnItsOwn /\ CheckoutIsFirst /\ ClashesKnown /\ ReadsHold
    /\ PlanIsPaidFor /\ ConfirmedOnce /\ PaymentEndsTrial /\ RevokedGrantsNothing

=============================================================================
