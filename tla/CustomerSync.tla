------------------------------ MODULE CustomerSync ------------------------------
(***************************************************************************)
(* Customers, written on a desktop and in the cloud, one statement of the  *)
(* push at a time.  A customer has an identity and an email; among live    *)
(* rows of a business an email is unique (the partial index of             *)
(* models.py).  Products and their SKUs follow the same code.              *)
(*                                                                         *)
(* Own customers are created on the desktop and known to the server by     *)
(* their client_id.  Native ones were created in the cloud, have none      *)
(* there, and are mirrored under a synthetic key the server cannot look    *)
(* up.  The server has at most one push of this device in hand             *)
(* (StockWriters has several) and REST requests are one step.  A restart   *)
(* between a row and its operation is left to OfflineSync.                 *)
(***************************************************************************)
EXTENDS Integers, Sequences, FiniteSets

CONSTANTS
    Own,        \* customers created on this device
    Native,     \* customers created in the cloud
    Email,
    MaxOps,     \* bound on the queue
    MaxOthers   \* bound on the changes other users make in the cloud

ASSUME CustomerAssumption ==
    /\ Own \cap Native = {} /\ {"none", "not_found", "skip", "write"} \cap Email = {}
    /\ MaxOps \in Nat /\ MaxOthers \in Nat

Row == Own \cup Native

VARIABLES
    local,    \* SQLite customers: deleted rows keep their email
    queue,    \* SQLite sync_queue
    step,     \* renderer: idle, push, replied, pull or ingest
    payload,  \* rows of the pull on its way to the mirror
    answer,   \* the push summary: rows acknowledged, rows refused and why
              \* (an email: the one that has another owner)
    push,     \* the request: none, sent or open; operations left; heard
    job,      \* the open transaction: rows written, operation looked up, outcome,
              \* operations acknowledged
    cloud,    \* committed customers
    changed,  \* rows committed since a pull read them
    others,   \* changes by other users so far
    accepted  \* operations of committed pushes that were not refused

device == <<local, queue>>
server == <<push, job, cloud, changed, others, accepted>>
vars == <<device, step, payload, answer, server>>

Absent == [state |-> "absent", email |-> "none"]

Live(e) == [state |-> "live", email |-> e]

\* Why a row was refused; an email is one that another customer owns.
Reason == {"none", "not_found"} \cup Email

NoAnswer == [ids |-> {}, refused |-> [r \in Row |-> "none"]]

NoPush == [state |-> "none", left |-> {}, heard |-> FALSE]

NoJob == [rows |-> {}, draft |-> [r \in Row |-> Absent], found |-> 0,
          result |-> NoAnswer, acknowledged |-> {}]

Init ==
    /\ local = [r \in Row |-> Absent]
    /\ queue = <<>>
    /\ step = "idle"
    /\ payload = [r \in {} |-> Absent]
    /\ answer = NoAnswer
    /\ push = NoPush /\ job = NoJob
    /\ cloud = [r \in Row |-> Absent]
    /\ changed = {}
    /\ others = 0 /\ accepted = {}

-------------------------------------------------------------------------------
(* The repositories of the desktop: the row and its operation *)

Op(r, operation, e) ==
    [row |-> r, operation |-> operation, email |-> e, state |-> "pending", reason |-> "none"]

Enqueue(op) ==
    /\ Len(queue) < MaxOps
    /\ queue' = Append(queue, op)

AtDevice == UNCHANGED <<step, payload, answer, server>>

CreateCustomer(r, e) ==
    /\ r \in Own /\ local[r].state = "absent"
    /\ local' = [local EXCEPT ![r] = Live(e)]
    /\ Enqueue(Op(r, "create", e))
    /\ AtDevice

\* The form lists live customers; the operation carries the whole row.
UpdateCustomer(r, e) ==
    /\ local[r].state = "live"
    /\ local' = [local EXCEPT ![r].email = e]
    /\ Enqueue(Op(r, "update", e))
    /\ AtDevice

SoftDelete(r) ==
    /\ local[r].state = "live"
    /\ local' = [local EXCEPT ![r].state = "deleted"]
    /\ Enqueue(Op(r, "delete", "none"))
    /\ AtDevice

-------------------------------------------------------------------------------
(* The cycle in the renderer *)

InState(s) == {i \in DOMAIN queue : queue[i].state = s}

StartCycle ==
    /\ step = "idle" /\ push.state = "none"
    /\ IF InState("pending") = {}
         THEN step' = "pull" /\ UNCHANGED push
         ELSE step' = "push" /\ push' = [state |-> "sent", left |-> InState("pending"), heard |-> TRUE]
    /\ UNCHANGED <<device, payload, answer, job, cloud, changed, others, accepted>>

Refused(op) == [op EXCEPT !.state = "conflict", !.reason = answer.refused[op.row]]

\* Mutant of Marked: what is not refused is synced.
MarkedByDefault(op) ==
    IF answer.refused[op.row] # "none" THEN Refused(op) ELSE [op EXCEPT !.state = "synced"]

\* Operations are matched by client_id, and a refusal wins.
Marked(op) ==
    IF answer.refused[op.row] # "none" THEN Refused(op)
    ELSE IF op.row \in answer.ids THEN [op EXCEPT !.state = "synced"]
    ELSE op

markPushOutcome ==
    /\ step = "replied"
    /\ queue' = [i \in DOMAIN queue |->
         IF i \in InState("pending") THEN Marked(queue[i]) ELSE queue[i]]
    /\ step' = "pull" /\ answer' = NoAnswer
    /\ UNCHANGED <<local, payload, server>>

\* What the delta must deliver, and rows it repeats.
ServePull ==
    /\ step = "pull" /\ step' = "ingest"
    /\ \E again \in SUBSET {r \in Row : cloud[r].state # "absent"} :
         payload' = [r \in changed \cup again |-> cloud[r]]
    /\ changed' = {}
    /\ UNCHANGED <<device, answer, push, job, cloud, others, accepted>>

\* upsertCustomer writes every field, deleted_at included.
upsertCustomer(row) ==
    [r \in Row |-> IF r \in DOMAIN row THEN row[r] ELSE local[r]]

applyPull ==
    /\ step = "ingest"
    /\ local' = upsertCustomer(payload)
    /\ step' = "idle" /\ payload' = [r \in {} |-> Absent]
    /\ UNCHANGED <<queue, answer, server>>

\* Mutant of Unread: the cursor moves on although the ingest failed.
CursorMoved == {}

\* The rows of a pull that was not ingested: the cursor stays before them.
Unread == DOMAIN payload

\* A timeout, an error, a lost answer, a failed ingest, a restart: the cycle
\* ends, and what SQLite holds stays.
GiveUp ==
    /\ step # "idle" /\ step' = "idle"
    /\ changed' = changed \cup Unread
    /\ payload' = [r \in {} |-> Absent] /\ answer' = NoAnswer
    /\ push' = [push EXCEPT !.heard = FALSE]
    /\ UNCHANGED <<device, job, cloud, others, accepted>>

-------------------------------------------------------------------------------
(* apply_push: one transaction, each operation a look-up and a flush *)

\* What the transaction sees: its own writes over committed rows.
Seen(r) == IF r \in job.rows THEN job.draft[r] ELSE cloud[r]

Owns(r, e) == Seen(r).state = "live" /\ Seen(r).email = e

\* _email_owner, other than the row itself.
_email_owner(r, e) == \E s \in Row \ {r} : Owns(s, e)

\* The oldest operation left.
Current(i) == \A j \in push.left : i <= j

\* Mutant of Write: a deletion writes the whole payload over the row.
WritesPayload(op) ==
    CASE op.operation = "create" -> Live(op.email)
      [] op.operation = "update" -> [Seen(op.row) EXCEPT !.email = op.email]
      [] op.operation = "delete" -> [state |-> "deleted", email |-> op.email]

\* The row as the operation leaves it; deleted rows are updated like others.
Write(op) ==
    CASE op.operation = "create" -> Live(op.email)
      [] op.operation = "update" -> [Seen(op.row) EXCEPT !.email = op.email]
      [] op.operation = "delete" -> [Seen(op.row) EXCEPT !.state = "deleted"]

\* What _apply_customer finds: the server looks a row up by client_id, which
\* a native row does not have.
Outcome(op) ==
    LET known == op.row \in Own /\ Seen(op.row).state # "absent" IN
    IF op.operation = "create" /\ known THEN "skip"
    ELSE IF op.operation # "create" /\ ~known THEN "not_found"
    ELSE IF op.operation = "update" /\ Seen(op.row).email = op.email THEN "skip"
    ELSE IF op.operation # "delete" /\ _email_owner(op.row, op.email) THEN op.email
    ELSE "write"

ServePush ==
    /\ push.state = "sent"
    /\ push' = [push EXCEPT !.state = "open"]
    /\ UNCHANGED <<device, step, payload, answer, job, cloud, changed, others, accepted>>

\* An operation that was applied, or had nothing to write.
Acknowledge(i) ==
    [job EXCEPT !.result.ids = @ \cup {queue[i].row}, !.acknowledged = @ \cup {i}]

Done(i) == push' = [push EXCEPT !.left = @ \ {i}]

\* A refusal is noted under the client_id, in place of an earlier one.
_apply_customer ==
    /\ push.state = "open" /\ job.found = 0
    /\ \E i \in push.left :
         LET outcome == Outcome(queue[i]) IN
         /\ Current(i)
         /\ \/ outcome = "write" /\ job' = [job EXCEPT !.found = i] /\ UNCHANGED push
            \/ outcome = "skip" /\ job' = Acknowledge(i) /\ Done(i)
            \/ /\ outcome \in Reason
               /\ job' = [job EXCEPT !.result.refused[queue[i].row] = outcome] /\ Done(i)
    /\ UNCHANGED <<device, step, payload, answer, cloud, changed, others, accepted>>

\* Mutant of Unique: the look-up alone guards the email.
NoIndex(r, row) == TRUE

\* The partial unique index, at the flush.
Unique(r, row) == row.state = "live" => ~_email_owner(r, row.email)

flush ==
    /\ push.state = "open" /\ job.found # 0
    /\ LET op == queue[job.found] IN
         /\ Unique(op.row, Write(op))
         /\ job' = [Acknowledge(job.found) EXCEPT
                      !.rows = @ \cup {op.row}, !.draft[op.row] = Write(op), !.found = 0]
    /\ Done(job.found)
    /\ UNCHANGED <<device, step, payload, answer, cloud, changed, others, accepted>>

Commit ==
    /\ push.state = "open" /\ push.left = {}
    /\ cloud' = [r \in Row |-> Seen(r)]
    /\ changed' = changed \cup job.rows
    /\ accepted' = accepted \cup job.acknowledged
    /\ IF push.heard
         THEN step' = "replied" /\ answer' = job.result
         ELSE UNCHANGED <<step, answer>>
    /\ push' = NoPush /\ job' = NoJob
    /\ UNCHANGED <<device, payload, others>>

\* A request that is lost, a server that stops, an IntegrityError that rolls
\* the batch back: nobody hears, and nothing is written.
RollBack ==
    /\ push.state # "none"
    /\ push' = NoPush /\ job' = NoJob
    /\ UNCHANGED <<device, step, payload, answer, cloud, changed, others, accepted>>

-------------------------------------------------------------------------------
(* Other users: the REST handlers, which wait for the rows and the emails an *)
(* open transaction has written                                              *)

Free(e) == \A s \in Row : ~(cloud[s].state = "live" /\ cloud[s].email = e)
                          /\ ~(s \in job.rows /\ Owns(s, e))

Rest(r, row) ==
    /\ others < MaxOthers /\ others' = others + 1
    /\ r \notin job.rows
    /\ cloud' = [cloud EXCEPT ![r] = row]
    /\ changed' = changed \cup {r}
    /\ UNCHANGED <<device, step, payload, answer, push, job, accepted>>

create_customer(r, e) ==
    r \in Native /\ cloud[r].state = "absent" /\ Free(e) /\ Rest(r, Live(e))

update_customer(r, e) ==
    cloud[r].state = "live" /\ Free(e) /\ Rest(r, [cloud[r] EXCEPT !.email = e])

delete_customer(r) ==
    cloud[r].state = "live" /\ Rest(r, [cloud[r] EXCEPT !.state = "deleted"])

-------------------------------------------------------------------------------
(* The Sync Center *)

EmailConflict(i, operation) ==
    /\ i \in InState("conflict")
    /\ queue[i].operation = operation /\ queue[i].reason \in Email

requeue(i, e) ==
    /\ EmailConflict(i, "create")
    /\ queue' = [queue EXCEPT ![i].email = e, ![i].state = "pending", ![i].reason = "none"]
    /\ UNCHANGED local /\ AtDevice

discardLocal(i) ==
    /\ EmailConflict(i, "create")
    /\ local' = [local EXCEPT ![queue[i].row].state = "deleted"]
    /\ queue' = [queue EXCEPT ![i].state = "resolved"]
    /\ AtDevice

\* Through the repository: the row and a fresh update.
Correct(i, e) ==
    LET r == queue[i].row IN
    /\ EmailConflict(i, "update")
    /\ local[r].state = "live" /\ Len(queue) < MaxOps
    /\ local' = [local EXCEPT ![r].email = e]
    /\ queue' = Append([queue EXCEPT ![i].state = "resolved"], Op(r, "update", e))
    /\ AtDevice

\* The same for a customer deleted meanwhile: the repository fails after its
\* UPDATE, nothing is queued, and the conflict stays.
CorrectDeleted(i, e) ==
    LET r == queue[i].row IN
    /\ EmailConflict(i, "update") /\ local[r].state = "deleted"
    /\ local' = [local EXCEPT ![r].email = e]
    /\ UNCHANGED queue /\ AtDevice

Edit(i, e) == Correct(i, e) \/ CorrectDeleted(i, e)

NewValue(i, e) == requeue(i, e) \/ Edit(i, e)

\* The cloud's side of the conflict is the row that OWNS the email, so keeping
\* the cloud writes the very email that was refused.
KeepCloud(i) == discardLocal(i) \/ Edit(i, queue[i].reason)

Discard(i) ==
    /\ i \in InState("conflict") /\ queue[i].reason = "not_found"
    /\ queue' = [queue EXCEPT ![i].state = "resolved"]
    /\ UNCHANGED local /\ AtDevice

Next ==
    \/ \E r \in Row, e \in Email :
         CreateCustomer(r, e) \/ UpdateCustomer(r, e) \/ create_customer(r, e) \/ update_customer(r, e)
    \/ \E r \in Row : SoftDelete(r) \/ delete_customer(r)
    \/ StartCycle \/ markPushOutcome \/ ServePull \/ applyPull \/ GiveUp
    \/ ServePush \/ _apply_customer \/ flush \/ Commit \/ RollBack
    \/ \E i \in DOMAIN queue :
         KeepCloud(i) \/ Discard(i) \/ \E e \in Email : NewValue(i, e)

Spec == Init /\ [][Next]_vars

-------------------------------------------------------------------------------
(* Properties *)

Record == {Absent} \cup [state : {"live", "deleted"}, email : Email]

QueueRow ==
    LET Kind(operations, emails) ==
          [row : Row, operation : operations, email : emails,
           state : {"pending", "synced", "conflict", "resolved"}, reason : Reason]
    IN Kind({"create", "update"}, Email) \cup Kind({"delete"}, {"none"})

Answer == [ids : SUBSET Row, refused : [Row -> Reason]]

TypeOK ==
    /\ local \in [Row -> Record] /\ cloud \in [Row -> Record]
    /\ queue \in Seq(QueueRow)
    /\ step \in {"idle", "push", "replied", "pull", "ingest"}
    /\ DOMAIN payload \subseteq Row /\ payload \in [DOMAIN payload -> Record]
    /\ answer \in Answer
    /\ push \in [state : {"none", "sent", "open"}, left : SUBSET DOMAIN queue, heard : BOOLEAN]
    /\ job \in [rows : SUBSET Row, draft : [Row -> Record], found : {0} \cup DOMAIN queue,
                result : Answer, acknowledged : SUBSET DOMAIN queue]
    /\ changed \subseteq Row /\ others \in Nat
    /\ accepted \subseteq DOMAIN queue

\* Whatever the push and the REST handlers do beside each other, no two live
\* customers of the business share an email.
OneOwner ==
    \A r, s \in Row : r # s /\ cloud[r].state = "live" /\ cloud[s].state = "live"
                      => cloud[r].email # cloud[s].email

\* A customer shown as synced is in the cloud, whatever else was answered for
\* its client_id.
CreatesDelivered ==
    \A i \in InState("synced") :
        queue[i].operation = "create" => cloud[queue[i].row].state # "absent"

\* Why OneOwner lasts: at every statement of a push, what its transaction sees
\* is unique too, because a REST handler waits for an email the push has taken.
SeenUnique ==
    \A r, s \in Row : r # s /\ Seen(r).state = "live" /\ Seen(s).state = "live"
                      => Seen(r).email # Seen(s).email

\* Rows that are spoken of exist and keep existing: the ones an answer or a
\* transaction acknowledges, the ones it wrote or is about to write, the ones
\* a pull carries, and on the device the ones an operation is queued for.
SpokenRowsExist ==
    /\ \A r \in answer.ids \cup changed \cup DOMAIN payload : cloud[r] # Absent
    /\ \A r \in job.result.ids \cup job.rows : Seen(r) # Absent
    /\ job.found # 0 => LET op == queue[job.found] IN
                         op.operation = "create" \/ Seen(op.row) # Absent
    /\ \A r \in DOMAIN payload : payload[r] # Absent
    /\ \A i \in DOMAIN queue : local[queue[i].row] # Absent

\* The inductive invariant of CustomerSyncProofs.
IInv == TypeOK /\ OneOwner /\ CreatesDelivered /\ SeenUnique /\ SpokenRowsExist

\* When a customer's operations are synced, each of them accepted, and every
\* change is pulled, the mirror holds what the cloud holds: the same edit wins
\* on both sides, whatever other users and repeated pushes did in between.
Converges ==
    step = "idle" /\ push.state = "none" /\ changed = {} =>
        \A r \in Row : (\A i \in DOMAIN queue : queue[i].row = r => i \in InState("synced") \cap accepted)
                          => local[r] = cloud[r]
================================================================================
