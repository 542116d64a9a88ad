--------------------------- MODULE CustomerSyncProofs ---------------------------
(***************************************************************************)
(* No two live customers of a business share an email, a customer shown as *)
(* synced is in the cloud, and a mirror with everything synced, accepted   *)
(* and pulled holds what the cloud holds, for any number of customers,     *)
(* emails, queued operations and other users.                              *)
(***************************************************************************)
EXTENDS CustomerSync, TLAPS

\* Before the first customer the invariant holds.
LEMMA InitInv == Init => IInv
<1> SUFFICES ASSUME Init PROVE IInv
  OBVIOUS
<1>1. TypeOK
  BY CustomerAssumption
     DEF Init, TypeOK, Record, Absent, NoAnswer, NoPush, NoJob, Answer, Reason
<1>2. \A r \in Row : Seen(r) = Absent
  BY DEF Init, Seen, NoJob
<1>3. OneOwner /\ SeenUnique
  BY <1>2 DEF Init, OneOwner, SeenUnique, Absent
<1>4. CreatesDelivered /\ SpokenRowsExist
  BY DEF Init, CreatesDelivered, InState, SpokenRowsExist, NoAnswer, NoJob
<1> QED BY <1>1, <1>3, <1>4 DEF IInv

\* What a transaction sees is a row like any other.
LEMMA SeenType == TypeOK => \A r \in Row : Seen(r) \in Record
BY DEF TypeOK, Seen

\* A record is absent in all of its fields or in none.
LEMMA PresentRecord ==
    ASSUME NEW row \in Record
    PROVE  /\ row # Absent <=> row.state # "absent"
           /\ row # Absent => row.email \in Email /\ row.state \in {"live", "deleted"}
BY DEF Record, Absent

\* A step of the desktop: operations keep their row and kind, none becomes
\* synced, and what is queued has a row.
LEMMA DeviceStep ==
    ASSUME IInv, AtDevice,
           local' \in [Row -> Record],
           queue' \in Seq(QueueRow),
           DOMAIN queue \subseteq DOMAIN queue',
           \A i \in DOMAIN queue : /\ queue'[i].row = queue[i].row
                                   /\ queue'[i].operation = queue[i].operation
                                   /\ queue'[i].state = "synced" => queue[i].state = "synced",
           \A i \in DOMAIN queue' : i \notin DOMAIN queue => queue'[i].state = "pending",
           \A i \in DOMAIN queue' : local'[queue'[i].row] # Absent
    PROVE  IInv'
<1>1. TypeOK'
  BY DEF IInv, TypeOK, AtDevice, server
<1>2. \A r : Seen(r)' = Seen(r)
  BY DEF Seen, AtDevice, server
<1>3. OneOwner' /\ SeenUnique'
  BY <1>2 DEF IInv, OneOwner, SeenUnique, AtDevice, server
<1>4. CreatesDelivered'
  BY DEF IInv, CreatesDelivered, InState, AtDevice, server
<1>5. SpokenRowsExist'
  BY <1>2 DEF IInv, TypeOK, SpokenRowsExist, AtDevice, server
<1> QED BY <1>1, <1>3, <1>4, <1>5 DEF IInv

\* Operations are queued with the types the rest relies on.
LEMMA OpType ==
    ASSUME NEW r \in Row, NEW e \in Email
    PROVE  /\ Op(r, "create", e) \in QueueRow
           /\ Op(r, "update", e) \in QueueRow
           /\ Op(r, "delete", "none") \in QueueRow
BY DEF Op, QueueRow, Reason

\* Where the rows of a longer queue are.
LEMMA AppendFacts ==
    ASSUME NEW S, NEW s \in Seq(S), NEW e \in S
    PROVE  /\ Append(s, e) \in Seq(S)
           /\ DOMAIN s = 1..Len(s) /\ DOMAIN Append(s, e) = 1..(Len(s) + 1)
           /\ \A i \in DOMAIN s : Append(s, e)[i] = s[i]
           /\ Append(s, e)[Len(s) + 1] = e
OBVIOUS

\* A repository call: the row is present and one operation for it is appended.
LEMMA EnqueueInv ==
    ASSUME IInv, AtDevice, NEW op \in QueueRow, op.state = "pending", Enqueue(op),
           NEW row \in Record, row # Absent,
           local' = [local EXCEPT ![op.row] = row]
    PROVE  IInv'
<1>1. op.row \in Row
  BY DEF QueueRow
<1>2. local' \in [Row -> Record]
  BY <1>1 DEF IInv, TypeOK
<1>3. queue \in Seq(QueueRow) /\ queue' = Append(queue, op)
  BY DEF IInv, TypeOK, Enqueue
<1>4. /\ queue' \in Seq(QueueRow)
      /\ DOMAIN queue = 1..Len(queue) /\ DOMAIN queue' = 1..(Len(queue) + 1)
      /\ \A i \in DOMAIN queue : queue'[i] = queue[i]
      /\ queue'[Len(queue) + 1] = op
  BY <1>3, AppendFacts
<1>5. \A i \in DOMAIN queue' : i \in DOMAIN queue \/ i = Len(queue) + 1
  BY <1>3, <1>4
<1>6. \A i \in DOMAIN queue' : local'[queue'[i].row] # Absent
  <2>1. \A i \in DOMAIN queue : queue[i].row \in Row /\ local[queue[i].row] # Absent
    BY <1>3 DEF IInv, SpokenRowsExist, QueueRow
  <2>2. local \in [Row -> Record]
    BY DEF IInv, TypeOK
  <2> QED BY <1>1, <1>4, <1>5, <2>1, <2>2
<1>7. \A i \in DOMAIN queue' : i \notin DOMAIN queue => queue'[i].state = "pending"
  BY <1>4, <1>5
<1>8. DOMAIN queue \subseteq DOMAIN queue'
  BY <1>3, <1>4
<1> QED BY <1>2, <1>4, <1>6, <1>7, <1>8, DeviceStep

LEMMA CreateCustomerInv ==
    ASSUME IInv, NEW r \in Row, NEW e \in Email, CreateCustomer(r, e) PROVE IInv'
<1>1. Live(e) \in Record /\ Live(e) # Absent
  BY DEF Live, Record, Absent
<1>2. Op(r, "create", e).row = r /\ Op(r, "create", e).state = "pending"
  BY DEF Op
<1> QED BY <1>1, <1>2, OpType, EnqueueInv DEF CreateCustomer

LEMMA UpdateCustomerInv ==
    ASSUME IInv, NEW r \in Row, NEW e \in Email, UpdateCustomer(r, e) PROVE IInv'
<1> DEFINE op == Op(r, "update", e)
<1>1. local \in [Row -> Record] /\ local[r].state = "live"
  BY DEF IInv, TypeOK, UpdateCustomer
<1>2. local[r] = [state |-> "live", email |-> local[r].email]
  BY <1>1 DEF Record, Absent
<1>3. [local[r] EXCEPT !.email = e] = Live(e)
  BY <1>2 DEF Live
<1>4. op.row = r /\ op.state = "pending" /\ op \in QueueRow
  BY OpType DEF Op
<1>5. local' = [local EXCEPT ![op.row] = Live(e)]
  BY <1>3, <1>4 DEF UpdateCustomer
<1>6. Live(e) \in Record /\ Live(e) # Absent
  BY DEF Live, Record, Absent
<1>7. Enqueue(op) /\ AtDevice
  BY DEF UpdateCustomer
<1> HIDE DEF op
<1> QED BY <1>4, <1>5, <1>6, <1>7, EnqueueInv

LEMMA SoftDeleteInv == ASSUME IInv, NEW r \in Row, SoftDelete(r) PROVE IInv'
<1> DEFINE op == Op(r, "delete", "none")
           row == [state |-> "deleted", email |-> local[r].email]
<1>1. local \in [Row -> Record] /\ local[r].state = "live"
  BY DEF IInv, TypeOK, SoftDelete
<1>2. local[r] = [state |-> "live", email |-> local[r].email] /\ local[r].email \in Email
  BY <1>1 DEF Record, Absent
<1>3. [local[r] EXCEPT !.state = "deleted"] = row
  BY <1>2
<1>4. row \in Record /\ row # Absent
  BY <1>2 DEF Record, Absent
<1>5. op.row = r /\ op.state = "pending" /\ op \in QueueRow
  BY DEF Op, QueueRow, Reason
<1>6. local' = [local EXCEPT ![op.row] = row]
  BY <1>3, <1>5 DEF SoftDelete
<1>7. Enqueue(op) /\ AtDevice
  BY DEF SoftDelete
<1> HIDE DEF op, row
<1> QED BY <1>4, <1>5, <1>6, <1>7, EnqueueInv

\* The queue as a function, and what its rows hold.
LEMMA QueueType ==
    ASSUME IInv, NEW i \in DOMAIN queue
    PROVE  /\ queue[i] \in QueueRow /\ queue[i].row \in Row
           /\ local[queue[i].row] # Absent /\ local[queue[i].row] \in Record
           /\ queue[i].operation # "delete" => queue[i].email \in Email
<1>1. queue \in Seq(QueueRow)
  BY DEF IInv, TypeOK
<1>2. queue[i] \in QueueRow
  BY <1>1
<1> QED BY <1>2 DEF IInv, TypeOK, SpokenRowsExist, QueueRow

\* A resolution that changes one queue row in place.
LEMMA ResolveStep ==
    ASSUME IInv, AtDevice, NEW i \in DOMAIN queue, NEW op \in QueueRow,
           op.row = queue[i].row, op.operation = queue[i].operation, op.state # "synced",
           queue' = [queue EXCEPT ![i] = op],
           local' \in [Row -> Record],
           \A r \in Row : local[r] # Absent => local'[r] # Absent
    PROVE  IInv'
<1>1. queue \in Seq(QueueRow)
  BY DEF IInv, TypeOK
<1>2. queue' \in Seq(QueueRow) /\ DOMAIN queue' = DOMAIN queue
  BY <1>1
<1>3. \A j \in DOMAIN queue : queue'[j] = IF j = i THEN op ELSE queue[j]
  BY <1>1
<1>4. \A j \in DOMAIN queue' : local'[queue'[j].row] # Absent
  BY <1>2, <1>3, QueueType
<1> QED BY <1>2, <1>3, <1>4, DeviceStep

LEMMA requeueInv ==
    ASSUME IInv, NEW i \in DOMAIN queue, NEW e \in Email, requeue(i, e) PROVE IInv'
<1> DEFINE op == [queue[i] EXCEPT !.email = e, !.state = "pending", !.reason = "none"]
<1>1. queue[i] \in QueueRow /\ queue[i].operation = "create"
  BY QueueType DEF requeue, EmailConflict
<1>2. op \in QueueRow /\ op.row = queue[i].row /\ op.operation = queue[i].operation
      /\ op.state = "pending"
  BY <1>1 DEF QueueRow, Reason
<1>3. queue' = [queue EXCEPT ![i] = op] /\ local' = local /\ AtDevice
  BY DEF requeue
<1>4. local' \in [Row -> Record]
  BY <1>3 DEF IInv, TypeOK
<1> HIDE DEF op
<1> QED BY <1>2, <1>3, <1>4, ResolveStep

\* A queue row that is resolved is still a queue row.
LEMMA ResolvedType ==
    ASSUME NEW row \in QueueRow
    PROVE  LET op == [row EXCEPT !.state = "resolved"] IN
           op \in QueueRow /\ op.row = row.row /\ op.operation = row.operation
           /\ op.state = "resolved"
BY DEF QueueRow

LEMMA discardLocalInv ==
    ASSUME IInv, NEW i \in DOMAIN queue, discardLocal(i) PROVE IInv'
<1> DEFINE op == [queue[i] EXCEPT !.state = "resolved"]
           r == queue[i].row
           row == [local[r] EXCEPT !.state = "deleted"]
<1>1. op \in QueueRow /\ op.row = queue[i].row /\ op.operation = queue[i].operation
      /\ op.state = "resolved"
  BY QueueType, ResolvedType
<1>2. r \in Row /\ local[r] # Absent /\ local[r] \in Record /\ local \in [Row -> Record]
  BY QueueType DEF IInv, TypeOK
<1>3. local[r] = [state |-> local[r].state, email |-> local[r].email] /\ local[r].email \in Email
  BY <1>2 DEF Record
<1>4. row \in Record /\ row # Absent
  BY <1>3 DEF Record, Absent
<1>5. queue' = [queue EXCEPT ![i] = op] /\ local' = [local EXCEPT ![r] = row] /\ AtDevice
  BY DEF discardLocal
<1> HIDE DEF op, row, r
<1>6. local' \in [Row -> Record] /\ \A s \in Row : local[s] # Absent => local'[s] # Absent
  BY <1>2, <1>4, <1>5
<1> QED BY <1>1, <1>5, <1>6, ResolveStep DEF r

LEMMA DiscardInv == ASSUME IInv, NEW i \in DOMAIN queue, Discard(i) PROVE IInv'
<1> DEFINE op == [queue[i] EXCEPT !.state = "resolved"]
<1>1. op \in QueueRow /\ op.row = queue[i].row /\ op.operation = queue[i].operation
      /\ op.state = "resolved"
  BY QueueType, ResolvedType
<1>2. queue' = [queue EXCEPT ![i] = op] /\ local' = local /\ AtDevice
  BY DEF Discard
<1>3. local' \in [Row -> Record]
  BY <1>2 DEF IInv, TypeOK
<1> HIDE DEF op
<1> QED BY <1>1, <1>2, <1>3, ResolveStep

\* The correction of an update: one row resolved, a fresh one appended.
LEMMA CorrectInv ==
    ASSUME IInv, NEW i \in DOMAIN queue, NEW e \in Email, Correct(i, e) PROVE IInv'
<1> DEFINE op == [queue[i] EXCEPT !.state = "resolved"]
           r == queue[i].row
           fresh == Op(r, "update", e)
           resolved == [queue EXCEPT ![i] = op]
<1>1. op \in QueueRow /\ op.row = r /\ op.operation = queue[i].operation /\ op.state = "resolved"
  BY QueueType, ResolvedType
<1>2. r \in Row /\ local \in [Row -> Record] /\ local[r].state = "live" /\ queue \in Seq(QueueRow)
  BY QueueType DEF IInv, TypeOK, Correct
<1>3. local[r] = [state |-> "live", email |-> local[r].email]
  BY <1>2 DEF Record, Absent
<1>4. [local[r] EXCEPT !.email = e] = Live(e) /\ Live(e) \in Record /\ Live(e) # Absent
  BY <1>3 DEF Live, Record, Absent
<1>5. fresh \in QueueRow /\ fresh.row = r /\ fresh.state = "pending"
  BY <1>2, OpType DEF Op
<1>6. local' = [local EXCEPT ![r] = Live(e)] /\ queue' = Append(resolved, fresh) /\ AtDevice
  BY <1>4 DEF Correct
<1>7. resolved \in Seq(QueueRow) /\ Len(resolved) = Len(queue)
      /\ \A j \in DOMAIN queue : resolved[j] = IF j = i THEN op ELSE queue[j]
  BY <1>1, <1>2
<1> HIDE DEF op, r, fresh, resolved
<1>8. /\ queue' \in Seq(QueueRow)
      /\ DOMAIN queue = 1..Len(queue) /\ DOMAIN queue' = 1..(Len(queue) + 1)
      /\ \A j \in DOMAIN queue : queue'[j] = resolved[j]
      /\ queue'[Len(queue) + 1] = fresh
  <2>1. DOMAIN queue = 1..Len(queue) /\ DOMAIN resolved = 1..Len(resolved)
    BY <1>2, <1>7
  <2> QED BY <1>5, <1>6, <1>7, <2>1, AppendFacts
<1>9. /\ DOMAIN queue \subseteq DOMAIN queue'
      /\ \A j \in DOMAIN queue' : j \in DOMAIN queue \/ j = Len(queue) + 1
  BY <1>2, <1>8
<1>10. \A j \in DOMAIN queue : queue'[j].row = queue[j].row /\ queue'[j].operation = queue[j].operation
                               /\ (queue'[j].state = "synced" => queue[j].state = "synced")
  BY <1>1, <1>7, <1>8 DEF r
<1>11. local' \in [Row -> Record] /\ \A s \in Row : local[s] # Absent => local'[s] # Absent
  BY <1>2, <1>4, <1>6
<1>12. \A j \in DOMAIN queue' : local'[queue'[j].row] # Absent
  <2>1. \A j \in DOMAIN queue : local'[queue[j].row] # Absent
    BY <1>11, QueueType
  <2>2. local'[fresh.row] # Absent
    BY <1>2, <1>4, <1>5, <1>6
  <2> QED BY <1>8, <1>9, <1>10, <2>1, <2>2
<1>13. \A j \in DOMAIN queue' : j \notin DOMAIN queue => queue'[j].state = "pending"
  BY <1>5, <1>8, <1>9
<1> QED BY <1>6, <1>8, <1>9, <1>10, <1>11, <1>12, <1>13, DeviceStep

\* A correction that fails leaves the queue and a row that is still deleted.
LEMMA CorrectDeletedInv ==
    ASSUME IInv, NEW i \in DOMAIN queue, NEW e \in Email, CorrectDeleted(i, e) PROVE IInv'
<1> DEFINE r == queue[i].row
           row == [local[r] EXCEPT !.email = e]
<1>1. r \in Row /\ local \in [Row -> Record] /\ local[r].state = "deleted"
  BY QueueType DEF IInv, TypeOK, CorrectDeleted
<1>2. local[r] = [state |-> "deleted", email |-> local[r].email]
  BY <1>1 DEF Record, Absent
<1>3. row \in Record /\ row # Absent
  BY <1>2 DEF Record, Absent
<1>4. local' = [local EXCEPT ![r] = row] /\ queue' = queue /\ AtDevice
  BY DEF CorrectDeleted
<1> HIDE DEF r, row
<1>5. local' \in [Row -> Record] /\ \A s \in Row : local[s] # Absent => local'[s] # Absent
  BY <1>1, <1>3, <1>4
<1>6. queue \in Seq(QueueRow) /\ \A j \in DOMAIN queue : local'[queue[j].row] # Absent
  BY <1>5, QueueType DEF IInv, TypeOK
<1> QED BY <1>4, <1>5, <1>6, DeviceStep

\* The cycle of the renderer leaves rows and operations alone.
LEMMA StartCycleInv == ASSUME IInv, StartCycle PROVE IInv'
<1>1. UNCHANGED <<device, payload, answer, job, cloud, changed, others, accepted>>
  BY DEF StartCycle
<1>2. TypeOK'
  <2>1. push' = push \/ push' = [state |-> "sent", left |-> InState("pending"), heard |-> TRUE]
    BY DEF StartCycle
  <2>2. step' \in {"pull", "push"}
    BY DEF StartCycle
  <2>3. push' \in [state : {"none", "sent", "open"}, left : SUBSET DOMAIN queue, heard : BOOLEAN]
    <3>1. InState("pending") \in SUBSET DOMAIN queue
      BY DEF InState
    <3>2. CASE push' = push
      BY <3>2 DEF IInv, TypeOK
    <3>3. CASE push' = [state |-> "sent", left |-> InState("pending"), heard |-> TRUE]
      BY <3>1, <3>3
    <3> QED BY <2>1, <3>2, <3>3
  <2> QED BY <1>1, <2>2, <2>3 DEF IInv, TypeOK, device
<1>3. \A r : Seen(r)' = Seen(r)
  BY <1>1 DEF Seen
<1> QED BY <1>1, <1>2, <1>3
        DEF IInv, OneOwner, SeenUnique, CreatesDelivered, InState, SpokenRowsExist, device

\* A row is only marked synced for an identity the answer acknowledged.
LEMMA markPushOutcomeInv == ASSUME IInv, markPushOutcome PROVE IInv'
<1>1. /\ queue \in Seq(QueueRow) /\ answer \in Answer
      /\ UNCHANGED <<local, payload, push, job, cloud, changed, others, accepted>>
      /\ answer' = NoAnswer /\ step' = "pull"
  BY DEF IInv, TypeOK, markPushOutcome, server
<1>2. ASSUME NEW i \in DOMAIN queue
      PROVE  /\ Marked(queue[i]) \in QueueRow
             /\ Marked(queue[i]).row = queue[i].row
             /\ Marked(queue[i]).operation = queue[i].operation
             /\ Marked(queue[i]).state = "synced" =>
                  queue[i].state = "synced" \/ queue[i].row \in answer.ids
  <2>1. queue[i] \in QueueRow /\ queue[i].row \in Row
    BY QueueType
  <2>2. answer.refused[queue[i].row] \in Reason
    BY <1>1, <2>1 DEF Answer
  <2> QED BY <2>1, <2>2 DEF Marked, Refused, QueueRow
<1>3. /\ DOMAIN queue' = DOMAIN queue
      /\ \A i \in DOMAIN queue : queue'[i] = queue[i] \/ queue'[i] = Marked(queue[i])
  BY DEF markPushOutcome
<1>4. queue' \in Seq(QueueRow)
  <2>1. \A i \in DOMAIN queue : queue'[i] \in QueueRow
    BY <1>1, <1>2, <1>3
  <2>2. DOMAIN queue = 1..Len(queue) /\ Len(queue) \in Nat
    BY <1>1
  <2>3. queue' = [i \in DOMAIN queue |-> queue'[i]]
    BY DEF markPushOutcome
  <2> QED BY <2>1, <2>2, <2>3
<1>5. TypeOK'
  BY <1>1, <1>3, <1>4 DEF IInv, TypeOK, NoAnswer, Answer, Reason
<1>6. \A r : Seen(r)' = Seen(r)
  BY <1>1 DEF Seen
<1>7. OneOwner' /\ SeenUnique'
  BY <1>1, <1>6 DEF IInv, OneOwner, SeenUnique
<1>8. \A i \in DOMAIN queue' : queue'[i].row = queue[i].row /\ queue'[i].operation = queue[i].operation
        /\ (queue'[i].state = "synced" => queue[i].state = "synced" \/ queue[i].row \in answer.ids)
  BY <1>2, <1>3
<1>9. CreatesDelivered'
  <2> SUFFICES ASSUME NEW i \in DOMAIN queue', queue'[i].state = "synced",
                      queue'[i].operation = "create"
               PROVE  cloud'[queue'[i].row].state # "absent"
    BY DEF CreatesDelivered, InState
  <2>1. CASE queue[i].state = "synced"
    BY <1>1, <1>3, <1>8, <2>1 DEF IInv, CreatesDelivered, InState
  <2>2. CASE queue[i].row \in answer.ids
    <3>1. queue[i].row \in Row /\ cloud[queue[i].row] # Absent
      BY <1>3, <2>2, QueueType DEF IInv, SpokenRowsExist
    <3>2. cloud[queue[i].row] \in Record
      BY <3>1 DEF IInv, TypeOK
    <3> QED BY <1>1, <1>3, <1>8, <3>1, <3>2, PresentRecord
  <2> QED BY <1>8, <2>1, <2>2
<1>10. SpokenRowsExist'
  <2>1. job.found # 0 => job.found \in DOMAIN queue
    BY DEF IInv, TypeOK
  <2> QED BY <1>1, <1>3, <1>6, <1>8, <2>1 DEF IInv, SpokenRowsExist, NoAnswer
<1> QED BY <1>5, <1>7, <1>9, <1>10 DEF IInv

\* A pull carries rows of the cloud that exist.
LEMMA ServePullInv == ASSUME IInv, ServePull PROVE IInv'
<1>1. UNCHANGED <<device, answer, push, job, cloud, others, accepted>> /\ changed' = {}
      /\ step' = "ingest"
  BY DEF ServePull
<1>2. PICK again \in SUBSET {r \in Row : cloud[r].state # "absent"} :
        payload' = [r \in changed \cup again |-> cloud[r]]
  BY DEF ServePull
<1>3. \A r \in changed \cup again : r \in Row /\ cloud[r] \in Record /\ cloud[r] # Absent
  BY DEF IInv, TypeOK, SpokenRowsExist, Absent
<1>4. TypeOK'
  BY <1>1, <1>2, <1>3 DEF IInv, TypeOK, device
<1>5. \A r : Seen(r)' = Seen(r)
  BY <1>1 DEF Seen
<1> QED BY <1>1, <1>2, <1>3, <1>4, <1>5
        DEF IInv, OneOwner, SeenUnique, CreatesDelivered, InState, SpokenRowsExist, device

\* The mirror takes rows over and loses none.
LEMMA applyPullInv == ASSUME IInv, applyPull PROVE IInv'
<1>1. /\ UNCHANGED <<queue, answer, push, job, cloud, changed, others, accepted>>
      /\ step' = "idle" /\ payload' = [r \in {} |-> Absent]
  BY DEF applyPull, server
<1>2. /\ local' \in [Row -> Record]
      /\ \A r \in Row : local[r] # Absent => local'[r] # Absent
  BY DEF applyPull, upsertCustomer, IInv, TypeOK, SpokenRowsExist
<1>3. TypeOK'
  BY <1>1, <1>2 DEF IInv, TypeOK
<1>4. \A r : Seen(r)' = Seen(r)
  BY <1>1 DEF Seen
<1>5. \A i \in DOMAIN queue' : local'[queue'[i].row] # Absent
  BY <1>1, <1>2, QueueType
<1>6. SpokenRowsExist'
  BY <1>1, <1>4, <1>5 DEF IInv, SpokenRowsExist
<1> QED BY <1>1, <1>3, <1>4, <1>6
        DEF IInv, OneOwner, SeenUnique, CreatesDelivered, InState

LEMMA GiveUpInv == ASSUME IInv, GiveUp PROVE IInv'
<1>1. /\ UNCHANGED <<device, job, cloud, others, accepted>>
      /\ step' = "idle" /\ payload' = [r \in {} |-> Absent] /\ answer' = NoAnswer
      /\ push' = [push EXCEPT !.heard = FALSE]
  BY DEF GiveUp
<1>2. changed' = changed \cup DOMAIN payload
  BY DEF GiveUp, Unread
<1>3. TypeOK'
  BY <1>1, <1>2 DEF IInv, TypeOK, device, NoAnswer, Answer, Reason
<1>4. \A r : Seen(r)' = Seen(r)
  BY <1>1 DEF Seen
<1>5. OneOwner' /\ SeenUnique' /\ CreatesDelivered'
  BY <1>1, <1>4 DEF IInv, OneOwner, SeenUnique, CreatesDelivered, InState, device
<1>6. SpokenRowsExist'
  BY <1>1, <1>2, <1>4 DEF IInv, SpokenRowsExist, device, NoAnswer
<1> QED BY <1>3, <1>5, <1>6 DEF IInv

\* A push is taken up, or its transaction rolled back: committed rows stay.
LEMMA ServePushInv == ASSUME IInv, ServePush PROVE IInv'
<1>1. /\ UNCHANGED <<device, step, payload, answer, job, cloud, changed, others, accepted>>
      /\ push' = [push EXCEPT !.state = "open"]
  BY DEF ServePush
<1>2. TypeOK'
  BY <1>1 DEF IInv, TypeOK, device
<1>3. \A r : Seen(r)' = Seen(r)
  BY <1>1 DEF Seen
<1> QED BY <1>1, <1>2, <1>3
        DEF IInv, OneOwner, SeenUnique, CreatesDelivered, InState, SpokenRowsExist, device

LEMMA RollBackInv == ASSUME IInv, RollBack PROVE IInv'
<1>1. /\ UNCHANGED <<device, step, payload, answer, cloud, changed, others, accepted>>
      /\ push' = NoPush /\ job' = NoJob
  BY DEF RollBack
<1>2. TypeOK'
  BY <1>1 DEF IInv, TypeOK, device, NoPush, NoJob, NoAnswer, Answer, Reason, Record
<1>3. \A r : Seen(r)' = cloud[r]
  BY <1>1 DEF Seen, NoJob
<1>4. OneOwner' /\ SeenUnique' /\ CreatesDelivered'
  BY <1>1, <1>3 DEF IInv, OneOwner, SeenUnique, CreatesDelivered, InState, device
<1>5. SpokenRowsExist'
  BY <1>1, <1>3 DEF IInv, SpokenRowsExist, device, NoJob, NoAnswer
<1> QED BY <1>2, <1>4, <1>5 DEF IInv

\* The look-up writes nothing: it notes an outcome, or the operation to flush,
\* which creates a row or has one.
LEMMA ApplyCustomerInv == ASSUME IInv, _apply_customer PROVE IInv'
<1>1. UNCHANGED <<device, step, payload, answer, cloud, changed, others, accepted>>
  BY DEF _apply_customer
<1>2. PICK i \in push.left :
        LET outcome == Outcome(queue[i]) IN
        \/ outcome = "write" /\ job' = [job EXCEPT !.found = i] /\ UNCHANGED push
        \/ outcome = "skip" /\ job' = Acknowledge(i) /\ Done(i)
        \/ /\ outcome \in Reason
           /\ job' = [job EXCEPT !.result.refused[queue[i].row] = outcome] /\ Done(i)
  BY DEF _apply_customer
<1>3. i \in DOMAIN queue
  BY DEF IInv, TypeOK
<1>4. job'.rows = job.rows /\ job'.draft = job.draft
  BY <1>2 DEF Acknowledge, IInv, TypeOK
<1>5. \A r : Seen(r)' = Seen(r)
  BY <1>1, <1>4 DEF Seen
<1>6. TypeOK'
  <2>1. queue[i].row \in Row
    BY <1>3, QueueType
  <2>2. push' \in [state : {"none", "sent", "open"}, left : SUBSET DOMAIN queue, heard : BOOLEAN]
    BY <1>2 DEF Done, IInv, TypeOK
  <2>3. job' \in [rows : SUBSET Row, draft : [Row -> Record], found : {0} \cup DOMAIN queue,
                  result : Answer, acknowledged : SUBSET DOMAIN queue]
    <3>1. CASE job' = [job EXCEPT !.found = i]
      BY <3>1, <1>3 DEF IInv, TypeOK
    <3>2. CASE job' = Acknowledge(i)
      BY <3>2, <1>3, <2>1 DEF Acknowledge, Answer, IInv, TypeOK
    <3>3. CASE /\ Outcome(queue[i]) \in Reason
               /\ job' = [job EXCEPT !.result.refused[queue[i].row] = Outcome(queue[i])]
      BY <3>3, <2>1 DEF Answer, IInv, TypeOK
    <3> QED BY <1>2, <3>1, <3>2, <3>3
  <2> QED BY <1>1, <2>2, <2>3 DEF IInv, TypeOK, device
<1>7. OneOwner' /\ SeenUnique' /\ CreatesDelivered'
  BY <1>1, <1>5 DEF IInv, OneOwner, SeenUnique, CreatesDelivered, InState, device
<1>8. \A r \in job'.result.ids : Seen(r) # Absent
  <2>1. CASE Outcome(queue[i]) = "skip" /\ job' = Acknowledge(i)
    <3>1. Seen(queue[i].row) # Absent
      BY <2>1, <1>3, QueueType, CustomerAssumption DEF Outcome, Absent
    <3>2. job'.result.ids = job.result.ids \cup {queue[i].row}
      BY <2>1 DEF Acknowledge, IInv, TypeOK, Answer
    <3> QED BY <3>1, <3>2 DEF IInv, SpokenRowsExist
  <2>2. CASE job'.result.ids = job.result.ids
    BY <2>2 DEF IInv, SpokenRowsExist
  <2> QED BY <1>2, <2>1, <2>2 DEF IInv, TypeOK, Answer
<1>9. job'.found # 0 => LET op == queue[job'.found] IN
                        op.operation = "create" \/ Seen(op.row) # Absent
  <2>1. CASE Outcome(queue[i]) = "write" /\ job' = [job EXCEPT !.found = i]
    <3>1. queue[i].operation = "create" \/ Seen(queue[i].row) # Absent
      BY <2>1, <1>3, QueueType, CustomerAssumption DEF Outcome, Absent
    <3> QED BY <2>1, <3>1 DEF IInv, TypeOK
  <2>2. CASE job'.found = job.found
    BY <2>2 DEF IInv, SpokenRowsExist
  <2> QED BY <1>2, <2>1, <2>2 DEF Acknowledge, IInv, TypeOK
<1>10. SpokenRowsExist'
  BY <1>1, <1>4, <1>5, <1>8, <1>9 DEF IInv, SpokenRowsExist, device
<1> QED BY <1>6, <1>7, <1>10 DEF IInv

\* What an operation writes is a present row.
LEMMA WriteType ==
    ASSUME IInv, NEW i \in DOMAIN queue,
           queue[i].operation = "create" \/ Seen(queue[i].row) # Absent
    PROVE  Write(queue[i]) \in Record /\ Write(queue[i]) # Absent
<1> DEFINE op == queue[i]  seen == Seen(queue[i].row)
<1>1. /\ op.row \in Row /\ op.operation \in {"create", "update", "delete"}
      /\ op.operation # "delete" => op.email \in Email
  BY QueueType DEF QueueRow
<1>2. CASE op.operation = "create"
  BY <1>1, <1>2 DEF Write, Live, Record, Absent
<1>3. seen # Absent => seen = [state |-> seen.state, email |-> seen.email]
                       /\ seen.email \in Email /\ seen.state \in {"live", "deleted"}
  BY <1>1, SeenType DEF IInv, Record
<1>4. CASE op.operation = "update"
  <2>1. Write(op) = [seen EXCEPT !.email = op.email]
    BY <1>4 DEF Write
  <2>2. Write(op) = [state |-> seen.state, email |-> op.email]
    BY <1>3, <1>4, <2>1
  <2> QED BY <1>1, <1>3, <1>4, <2>2 DEF Record, Absent
<1>5. CASE op.operation = "delete"
  <2>1. Write(op) = [seen EXCEPT !.state = "deleted"]
    BY <1>5 DEF Write
  <2>2. Write(op) = [state |-> "deleted", email |-> seen.email]
    BY <1>3, <1>5, <2>1
  <2> QED BY <1>3, <1>5, <2>2 DEF Record, Absent
<1> QED BY <1>1, <1>2, <1>4, <1>5

\* The unique index lets a flush in only if what is seen stays unique.
LEMMA flushInv == ASSUME IInv, flush PROVE IInv'
<1> DEFINE i == job.found  op == queue[job.found]  row == Write(queue[job.found])
<1>1. /\ UNCHANGED <<device, step, payload, answer, cloud, changed, others, accepted>>
      /\ i # 0 /\ Unique(op.row, row) /\ Done(i)
      /\ job' = [Acknowledge(i) EXCEPT
                   !.rows = @ \cup {op.row}, !.draft[op.row] = row, !.found = 0]
  BY DEF flush
<1>2. i \in DOMAIN queue /\ op.row \in Row /\ row \in Record /\ row # Absent
  <2>1. i \in DOMAIN queue /\ (op.operation = "create" \/ Seen(op.row) # Absent)
    BY <1>1 DEF IInv, TypeOK, SpokenRowsExist
  <2> QED BY <2>1, QueueType, WriteType
<1> HIDE DEF row
<1>3. /\ job'.rows = job.rows \cup {op.row} /\ job'.found = 0
      /\ job'.draft = [job.draft EXCEPT ![op.row] = row]
      /\ job'.result.ids = job.result.ids \cup {op.row}
  BY <1>1 DEF Acknowledge, IInv, TypeOK, Answer
<1> PICK o \in Row : o = op.row
  BY <1>2
<1>4. Seen(o)' = row /\ \A r \in Row : r # o => Seen(r)' = Seen(r)
  BY <1>1, <1>2, <1>3 DEF Seen, IInv, TypeOK
<1>5. TypeOK'
  <2>1. push' \in [state : {"none", "sent", "open"}, left : SUBSET DOMAIN queue, heard : BOOLEAN]
    BY <1>1 DEF Done, IInv, TypeOK
  <2>2. job' \in [rows : SUBSET Row, draft : [Row -> Record], found : {0} \cup DOMAIN queue,
                  result : Answer, acknowledged : SUBSET DOMAIN queue]
    BY <1>1, <1>2 DEF Acknowledge, Answer, IInv, TypeOK
  <2> QED BY <1>1, <2>1, <2>2 DEF IInv, TypeOK, device
<1>6. SeenUnique'
  <2> SUFFICES ASSUME NEW r \in Row, NEW s \in Row, r # s, Seen(r)'.state = "live",
                      Seen(s)'.state = "live", Seen(r)'.email = Seen(s)'.email
               PROVE  FALSE
    BY DEF SeenUnique
  <2>1. CASE r # o /\ s # o
    BY <1>4, <2>1 DEF IInv, SeenUnique
  <2>2. ASSUME NEW q \in Row, q # o, Seen(q)'.state = "live", row.state = "live",
               Seen(q)'.email = row.email
        PROVE  FALSE
    BY <1>1, <1>4, <2>2 DEF Unique, _email_owner, Owns
  <2>3. CASE r = o
    BY <1>4, <2>2, <2>3
  <2>4. CASE s = o
    BY <1>4, <2>2, <2>4
  <2> QED BY <2>1, <2>3, <2>4
<1>7. OneOwner' /\ CreatesDelivered'
  BY <1>1 DEF IInv, OneOwner, CreatesDelivered, InState, device
<1>8. SpokenRowsExist'
  <2>1. \A r \in job'.result.ids \cup job'.rows : Seen(r)' # Absent
    BY <1>2, <1>3, <1>4 DEF IInv, TypeOK, Answer, SpokenRowsExist
  <2> QED BY <1>1, <1>3, <2>1 DEF IInv, SpokenRowsExist, device
<1> QED BY <1>5, <1>6, <1>7, <1>8 DEF IInv

\* A commit publishes what its transaction saw.
LEMMA CommitInv == ASSUME IInv, Commit PROVE IInv'
<1>1. /\ UNCHANGED <<device, payload, others>>
      /\ cloud' = [r \in Row |-> Seen(r)] /\ changed' = changed \cup job.rows
      /\ accepted' = accepted \cup job.acknowledged
      /\ push' = NoPush /\ job' = NoJob
      /\ \/ step' = "replied" /\ answer' = job.result
         \/ step' = step /\ answer' = answer
  BY DEF Commit
<1>2. \A r \in Row : cloud'[r] = Seen(r) /\ Seen(r)' = Seen(r)
  BY <1>1 DEF Seen, NoJob
<1>3. \A r \in Row : cloud[r] # Absent => cloud'[r] # Absent
  BY <1>2 DEF Seen, IInv, TypeOK, SpokenRowsExist
<1>4. TypeOK'
  <2>1. cloud' \in [Row -> Record]
    BY <1>1, SeenType DEF IInv
  <2>2. answer' \in Answer /\ step' \in {"idle", "push", "replied", "pull", "ingest"}
    BY <1>1 DEF IInv, TypeOK
  <2>3. push' \in [state : {"none", "sent", "open"}, left : SUBSET DOMAIN queue, heard : BOOLEAN]
    BY <1>1 DEF NoPush
  <2>4. job' \in [rows : SUBSET Row, draft : [Row -> Record], found : {0} \cup DOMAIN queue,
                  result : Answer, acknowledged : SUBSET DOMAIN queue]
    BY <1>1 DEF NoJob, NoAnswer, Answer, Reason, Record
  <2> QED BY <1>1, <2>1, <2>2, <2>3, <2>4 DEF IInv, TypeOK, device
<1>5. OneOwner' /\ SeenUnique'
  BY <1>2 DEF IInv, OneOwner, SeenUnique
<1>6. CreatesDelivered'
  <2> SUFFICES ASSUME NEW i \in DOMAIN queue, queue[i].state = "synced",
                      queue[i].operation = "create"
               PROVE  cloud'[queue[i].row].state # "absent"
    BY <1>1 DEF CreatesDelivered, InState, device
  <2>1. queue[i].row \in Row /\ cloud[queue[i].row] \in Record /\ cloud'[queue[i].row] \in Record
    BY <1>4, QueueType DEF IInv, TypeOK
  <2>2. cloud[queue[i].row] # Absent
    BY <2>1, PresentRecord DEF IInv, CreatesDelivered, InState
  <2> QED BY <1>3, <2>1, <2>2, PresentRecord
<1>7. SpokenRowsExist'
  <2>1. \A r \in answer'.ids \cup changed' \cup DOMAIN payload : cloud'[r] # Absent
    BY <1>1, <1>2, <1>3 DEF IInv, TypeOK, Answer, SpokenRowsExist
  <2> QED BY <1>1, <2>1 DEF IInv, SpokenRowsExist, device, NoJob, NoAnswer
<1> QED BY <1>4, <1>5, <1>6, <1>7 DEF IInv

\* A REST handler changes one row that no transaction has written, and takes
\* only an email that is free in the cloud and in the transaction.
LEMMA RestInv ==
    ASSUME IInv, NEW r \in Row, NEW row \in Record, row # Absent, Rest(r, row),
           row.state = "live" => Free(row.email)
    PROVE  IInv'
<1>1. /\ UNCHANGED <<device, step, payload, answer, push, job, accepted>>
      /\ others' = others + 1 /\ r \notin job.rows
      /\ cloud' = [cloud EXCEPT ![r] = row] /\ changed' = changed \cup {r}
  BY DEF Rest
<1>2. /\ cloud'[r] = row /\ \A s \in Row : s # r => cloud'[s] = cloud[s]
      /\ \A s \in Row : cloud[s] # Absent => cloud'[s] # Absent
  BY <1>1 DEF IInv, TypeOK
<1>3. Seen(r)' = row /\ \A s \in Row : s # r => Seen(s)' = Seen(s)
  BY <1>1, <1>2 DEF Seen
<1>4. TypeOK'
  BY <1>1 DEF IInv, TypeOK, device
<1>5. ASSUME NEW s \in Row, s # r, row.state = "live"
      PROVE  /\ ~(cloud[s].state = "live" /\ cloud[s].email = row.email)
             /\ ~(Seen(s).state = "live" /\ Seen(s).email = row.email)
  BY <1>5 DEF Free, Owns, Seen
<1>6. OneOwner'
  BY <1>2, <1>5 DEF IInv, OneOwner
<1>7. SeenUnique'
  BY <1>3, <1>5 DEF IInv, SeenUnique
<1>8. CreatesDelivered'
  <2> SUFFICES ASSUME NEW i \in DOMAIN queue, queue[i].state = "synced",
                      queue[i].operation = "create"
               PROVE  cloud'[queue[i].row].state # "absent"
    BY <1>1 DEF CreatesDelivered, InState, device
  <2>1. queue[i].row \in Row /\ cloud[queue[i].row] \in Record /\ cloud'[queue[i].row] \in Record
    BY <1>4, QueueType DEF IInv, TypeOK
  <2>2. cloud[queue[i].row] # Absent
    BY <2>1, PresentRecord DEF IInv, CreatesDelivered, InState
  <2> QED BY <1>2, <2>1, <2>2, PresentRecord
<1>9. SpokenRowsExist'
  <2>1. \A s \in answer.ids \cup changed' \cup DOMAIN payload : cloud'[s] # Absent
    BY <1>1, <1>2 DEF IInv, TypeOK, Answer, SpokenRowsExist
  <2>2. \A s \in job.result.ids \cup job.rows : Seen(s)' # Absent
    BY <1>3 DEF IInv, TypeOK, Answer, SpokenRowsExist
  <2>3. job.found # 0 => LET op == queue[job.found] IN
                         op.operation = "create" \/ Seen(op.row) # Absent
    BY DEF IInv, SpokenRowsExist
  <2>4. job.found # 0 => queue[job.found].row \in Row
    BY QueueType DEF IInv, TypeOK
  <2>5. \A s \in Row : Seen(s) # Absent => Seen(s)' # Absent
    BY <1>3
  <2> QED BY <1>1, <2>1, <2>2, <2>3, <2>4, <2>5 DEF IInv, SpokenRowsExist, device
<1> QED BY <1>4, <1>6, <1>7, <1>8, <1>9 DEF IInv

\* The three handlers write a present row, and a free email if it is live.
LEMMA HandlersInv ==
    ASSUME IInv, NEW r \in Row,
           \/ \E e \in Email : create_customer(r, e) \/ update_customer(r, e)
           \/ delete_customer(r)
    PROVE  IInv'
<1>1. ASSUME NEW e \in Email, create_customer(r, e) PROVE IInv'
  <2>1. Live(e) \in Record /\ Live(e) # Absent /\ Live(e).email = e
    BY DEF Live, Record, Absent
  <2> QED BY <1>1, <2>1, RestInv DEF create_customer
<1>2. cloud[r].state = "live" =>
        cloud[r] = [state |-> "live", email |-> cloud[r].email] /\ cloud[r].email \in Email
  BY DEF IInv, TypeOK, Record, Absent
<1>3. ASSUME NEW e \in Email, update_customer(r, e) PROVE IInv'
  <2> DEFINE row == [cloud[r] EXCEPT !.email = e]
  <2>1. row = Live(e)
    BY <1>2, <1>3 DEF update_customer, Live
  <2>2. row \in Record /\ row # Absent /\ row.email = e
    BY <2>1 DEF Live, Record, Absent
  <2>3. Rest(r, row) /\ Free(e)
    BY <1>3 DEF update_customer
  <2> HIDE DEF row
  <2> QED BY <2>2, <2>3, RestInv
<1>4. CASE delete_customer(r)
  <2> DEFINE row == [cloud[r] EXCEPT !.state = "deleted"]
  <2>1. row = [state |-> "deleted", email |-> cloud[r].email] /\ cloud[r].email \in Email
    BY <1>2, <1>4 DEF delete_customer
  <2>2. row \in Record /\ row # Absent /\ row.state # "live"
    BY <2>1 DEF Record, Absent
  <2>3. Rest(r, row)
    BY <1>4 DEF delete_customer
  <2> HIDE DEF row
  <2> QED BY <2>2, <2>3, RestInv
<1> QED BY <1>1, <1>3, <1>4

\* Both ways out of an email conflict, with any email.
LEMMA ResolutionsInv ==
    ASSUME IInv, NEW i \in DOMAIN queue,
           KeepCloud(i) \/ Discard(i) \/ \E e \in Email : NewValue(i, e)
    PROVE  IInv'
<1>1. ASSUME NEW e \in Email, NewValue(i, e) PROVE IInv'
  BY <1>1, requeueInv, CorrectInv, CorrectDeletedInv DEF NewValue, Edit
<1>2. CASE KeepCloud(i)
  <2>1. Edit(i, queue[i].reason) => queue[i].reason \in Email
    BY DEF Edit, Correct, CorrectDeleted, EmailConflict
  <2> QED BY <1>2, <2>1, discardLocalInv, CorrectInv, CorrectDeletedInv DEF KeepCloud, Edit
<1> QED BY <1>1, <1>2, DiscardInv

\* Every step preserves the invariant.
LEMMA NextInv == IInv /\ [Next]_vars => IInv'
<1> SUFFICES ASSUME IInv, [Next]_vars PROVE IInv'
  OBVIOUS
<1>1. CASE UNCHANGED vars
  <2>1. \A r : Seen(r)' = Seen(r)
    BY <1>1 DEF Seen, vars, server
  <2>2. TypeOK'
    BY <1>1 DEF IInv, TypeOK, vars, device, server
  <2> QED BY <1>1, <2>1, <2>2 DEF IInv, OneOwner, SeenUnique, CreatesDelivered, InState,
                                  SpokenRowsExist, vars, device, server
<1>2. ASSUME NEW r \in Row, NEW e \in Email,
             CreateCustomer(r, e) \/ UpdateCustomer(r, e) \/ create_customer(r, e)
               \/ update_customer(r, e)
      PROVE  IInv'
  BY <1>2, CreateCustomerInv, UpdateCustomerInv, HandlersInv
<1>3. ASSUME NEW r \in Row, SoftDelete(r) \/ delete_customer(r) PROVE IInv'
  BY <1>3, SoftDeleteInv, HandlersInv
<1>4. CASE StartCycle \/ markPushOutcome \/ ServePull \/ applyPull \/ GiveUp
  BY <1>4, StartCycleInv, markPushOutcomeInv, ServePullInv, applyPullInv, GiveUpInv
<1>5. CASE ServePush \/ _apply_customer \/ flush \/ Commit \/ RollBack
  BY <1>5, ServePushInv, ApplyCustomerInv, flushInv, CommitInv, RollBackInv
<1>6. ASSUME NEW i \in DOMAIN queue,
             KeepCloud(i) \/ Discard(i) \/ \E e \in Email : NewValue(i, e)
      PROVE  IInv'
  BY <1>6, ResolutionsInv
<1> QED BY <1>1, <1>2, <1>3, <1>4, <1>5, <1>6 DEF Next

\* The invariant of customers, for every number of them.
THEOREM CustomerInvariance == Spec => []IInv
<1> QED BY InitInv, NextInv, PTL DEF Spec

\* models.py's unique index and the waiting REST handlers keep an email with
\* one live customer, whatever a push has looked up before.
THEOREM EmailHasOneOwner == Spec => []OneOwner
<1>1. IInv => OneOwner
  BY DEF IInv
<1> QED BY <1>1, CustomerInvariance, PTL

\* A created customer shown as synced is in the cloud.
THEOREM SyncedCustomersExist == Spec => []CreatesDelivered
<1>1. IInv => CreatesDelivered
  BY DEF IInv
<1> QED BY <1>1, CustomerInvariance, PTL

\* The types of the model.
THEOREM CustomerTypeCorrect == Spec => []TypeOK
<1>1. IInv => TypeOK
  BY DEF IInv
<1> QED BY <1>1, CustomerInvariance, PTL

-------------------------------------------------------------------------------
(* The mirror: a second invariant, beside the first *)

\* What the mirror has still to be told about.
Unpulled == changed \cup DOMAIN payload

OpsOf(r) == {i \in DOMAIN queue : queue[i].row = r}

\* One push and one pull at a time: a push holds pending operations, and the
\* cycle that started it, or that gave it up, does not pull meanwhile.
OneAtATime ==
    /\ push.state # "none" => step \in {"idle", "push"}
    /\ push.state = "none" => push.left = {} /\ job = NoJob
    /\ push.left \cup job.acknowledged \cup ({job.found} \ {0}) \subseteq InState("pending")
    /\ step # "replied" => answer = NoAnswer
    /\ step # "ingest" => DOMAIN payload = {}
    /\ \A r \in DOMAIN payload : r \in changed \/ payload[r] = cloud[r]

\* A customer of this device has one create, and is not accepted unseen.
OneCreate ==
    /\ \A i \in DOMAIN queue : queue[i].operation = "create" => queue[i].row \in Own
    /\ \A i, j \in DOMAIN queue :
         queue[i].operation = "create" /\ queue[j].operation = "create"
           /\ queue[i].row = queue[j].row => i = j
    /\ \A i \in accepted : cloud[queue[i].row] # Absent
    /\ \A i \in job.acknowledged : Seen(queue[i].row) # Absent
    /\ \A r \in job.rows : cloud[r] = Absent =>
         \E i \in job.acknowledged \cap OpsOf(r) : queue[i].operation = "create"

\* An operation that was acknowledged without a write is what the cloud says,
\* unless the cloud has changed since.
SkipsHold ==
    \A i \in job.acknowledged :
        LET op == queue[i] IN
        \/ op.row \in job.rows \cup changed
        \/ op.operation = "create"
        \/ op.operation = "update" /\ cloud[op.row].email = op.email

\* An operation that was given up for good.
Lost(i) ==
    queue[i].state = "resolved" \/ (queue[i].state = "conflict" /\ queue[i].operation # "create")

\* What a refusal marks: an operation that cannot be requeued, or a create
\* whose customer the cloud does not have.
RefusalsSpoil ==
    /\ \A r \in Row : job.result.refused[r] # "none" =>
         \E i \in OpsOf(r) \cap InState("pending") :
            queue[i].operation # "create" \/ (i \notin push.left \cup {job.found} /\ Seen(r) = Absent)
    /\ \A r \in Row : answer.refused[r] # "none" =>
         \E i \in OpsOf(r) \cap InState("pending") :
            queue[i].operation # "create" \/ cloud[r] = Absent
    /\ \A i \in InState("conflict") :
         \/ \E j \in OpsOf(queue[i].row) : Lost(j)
         \/ cloud[queue[i].row] = Absent

\* Nothing was refused that the user has not sent again.
Clean(r) == \A i \in OpsOf(r) : queue[i].state \in {"pending", "synced"}

\* Operation i would still change the customer in the cloud.
WouldWrite(i) ==
    LET op == queue[i] IN
    \/ cloud[op.row] = Absent
    \/ /\ cloud[op.row].state = "live"
       /\ op.operation = "delete" \/ (op.operation = "update" /\ cloud[op.row].email # op.email)

\* Where the mirror differs from what it was told, an operation explains it.
Explained(r) ==
    Clean(r) /\ local[r] # cloud[r] => \E i \in OpsOf(r) \ accepted : WouldWrite(i)

LagExplained == \A r \in Row \ Unpulled : Explained(r)

MirrorInv == OneAtATime /\ OneCreate /\ SkipsHold /\ RefusalsSpoil /\ LagExplained

\* A write of the device keeps the operations: a pending one as it is, a lost
\* one lost; new ones are pending, and a create is the first of its customer.
QueueKept ==
    /\ AtDevice /\ DOMAIN queue \subseteq DOMAIN queue'
    /\ \A i \in DOMAIN queue :
         /\ queue'[i].row = queue[i].row /\ queue'[i].operation = queue[i].operation
         /\ queue[i].state = "pending" =>
              queue'[i].state = "pending" /\ queue'[i].email = queue[i].email
         /\ queue'[i].state = "conflict" => queue[i].state = "conflict"
         /\ Lost(i) => Lost(i)'
    /\ \A i \in DOMAIN queue' : i \notin DOMAIN queue =>
         /\ queue'[i].state = "pending"
         /\ queue'[i].operation = "create" =>
              /\ queue'[i].row \in Own
              /\ \A j \in DOMAIN queue' : queue'[j].row = queue'[i].row => j = i

\* Before the first customer the mirror lags behind nothing.
LEMMA InitMirror == Init => MirrorInv
BY DEF Init, MirrorInv, OneAtATime, OneCreate, SkipsHold, RefusalsSpoil, LagExplained, Explained,
       InState, OpsOf, NoPush, NoJob, NoAnswer

\* What the device writes can only concern where the mirror lags.
LEMMA DeviceMirror ==
    ASSUME IInv, MirrorInv, QueueKept, LagExplained'
    PROVE  MirrorInv'
<1>1. /\ UNCHANGED <<step, payload, answer, push, job, cloud, changed, accepted>>
      /\ DOMAIN queue \subseteq DOMAIN queue'
  BY DEF QueueKept, AtDevice, server
<1>2. /\ \A r : Seen(r)' = Seen(r)
      /\ InState("pending") \subseteq InState("pending")'
      /\ \A r : OpsOf(r) \subseteq OpsOf(r)'
  BY <1>1 DEF Seen, QueueKept, InState, OpsOf
<1>3. OneAtATime'
  BY <1>1, <1>2 DEF MirrorInv, OneAtATime
<1>4. /\ accepted \subseteq DOMAIN queue /\ job.acknowledged \subseteq DOMAIN queue
      /\ \A i \in job.acknowledged : queue[i].state = "pending"
  BY DEF IInv, TypeOK, MirrorInv, OneAtATime, InState
<1>5. OneCreate'
  <2>1. \A i \in DOMAIN queue' : queue'[i].operation = "create" => queue'[i].row \in Own
    BY DEF MirrorInv, OneCreate, QueueKept
  <2>2. \A i, j \in DOMAIN queue' :
          queue'[i].operation = "create" /\ queue'[j].operation = "create"
            /\ queue'[i].row = queue'[j].row => i = j
    BY DEF MirrorInv, OneCreate, QueueKept
  <2>3. \A i \in accepted : cloud[queue'[i].row] # Absent
    BY <1>4 DEF MirrorInv, OneCreate, QueueKept
  <2>4. \A i \in job.acknowledged : Seen(queue'[i].row) # Absent
    BY <1>4 DEF MirrorInv, OneCreate, QueueKept
  <2>5. \A r \in job.rows : cloud[r] = Absent =>
          \E i \in job.acknowledged \cap OpsOf(r)' : queue'[i].operation = "create"
    BY <1>2, <1>4 DEF MirrorInv, OneCreate, QueueKept
  <2> QED BY <1>1, <1>2, <2>1, <2>2, <2>3, <2>4, <2>5 DEF OneCreate
<1>6. SkipsHold'
  BY <1>1, <1>4 DEF MirrorInv, SkipsHold, QueueKept
<1>7. RefusalsSpoil'
  <2>1. ASSUME NEW r \in Row, job.result.refused[r] # "none"
        PROVE  \E i \in OpsOf(r)' \cap InState("pending")' :
                 queue'[i].operation # "create"
                   \/ (i \notin push.left \cup {job.found} /\ Seen(r) = Absent)
    <3>1. PICK i \in OpsOf(r) \cap InState("pending") :
             queue[i].operation # "create" \/ (i \notin push.left \cup {job.found} /\ Seen(r) = Absent)
      BY <2>1 DEF MirrorInv, RefusalsSpoil
    <3> QED BY <1>2, <3>1 DEF QueueKept, OpsOf
  <2>2. ASSUME NEW r \in Row, answer.refused[r] # "none"
        PROVE  \E i \in OpsOf(r)' \cap InState("pending")' :
                 queue'[i].operation # "create" \/ cloud[r] = Absent
    <3>1. PICK i \in OpsOf(r) \cap InState("pending") :
             queue[i].operation # "create" \/ cloud[r] = Absent
      BY <2>2 DEF MirrorInv, RefusalsSpoil
    <3> QED BY <1>2, <3>1 DEF QueueKept, OpsOf
  <2>3. ASSUME NEW i \in InState("conflict")'
        PROVE  (\E j \in OpsOf(queue[i].row) : Lost(j))' \/ cloud[queue'[i].row] = Absent
    <3>1. i \in InState("conflict") /\ queue'[i].row = queue[i].row
      BY <2>3 DEF QueueKept, InState
    <3>2. CASE cloud[queue[i].row] = Absent
      BY <3>1, <3>2
    <3>3. CASE \E j \in OpsOf(queue[i].row) : Lost(j)
      BY <1>1, <3>1, <3>3 DEF QueueKept, OpsOf
    <3> QED BY <3>1, <3>2, <3>3 DEF MirrorInv, RefusalsSpoil
  <2> QED BY <1>1, <1>2, <2>1, <2>2, <2>3 DEF RefusalsSpoil
<1> QED BY <1>3, <1>5, <1>6, <1>7 DEF MirrorInv

\* A customer whose operations and row are left alone lags as before.
LEMMA StaysExplained ==
    ASSUME IInv, QueueKept, NEW r \in Row, Explained(r), Clean(r)' => Clean(r),
           local'[r] = local[r],
           \A i \in OpsOf(r) : queue'[i].email = queue[i].email
    PROVE  Explained(r)'
<1>1. cloud' = cloud /\ accepted' = accepted /\ OpsOf(r) \subseteq OpsOf(r)'
  BY DEF QueueKept, AtDevice, server, OpsOf
<1>2. \A i \in OpsOf(r) : WouldWrite(i) => WouldWrite(i)'
  BY <1>1 DEF WouldWrite, QueueKept, OpsOf
<1> QED BY <1>1, <1>2 DEF Explained

\* A customer that lost an operation is not clean again.
LEMMA LostStays ==
    ASSUME IInv, NEW r \in Row, NEW i \in OpsOf(r), Lost(i)
    PROVE  ~Clean(r)
BY DEF Lost, Clean

\* An operation lost for good: nothing is claimed of its customer.
LEMMA LostIsExplained ==
    ASSUME NEW r, NEW i \in OpsOf(r)', Lost(i)'
    PROVE  Explained(r)'
BY DEF Lost, Clean, Explained

\* A repository call: the operation it queues explains how the mirror differs,
\* if it did not before.
LEMMA EnqueueMirror ==
    ASSUME IInv, MirrorInv, AtDevice, NEW op \in QueueRow, op.state = "pending", Enqueue(op),
           NEW row, local' = [local EXCEPT ![op.row] = row],
           op.operation = "create" => op.row \in Own /\ local[op.row] = Absent,
           local[op.row] = cloud[op.row] /\ row # cloud[op.row] =>
              \/ cloud[op.row] = Absent
              \/ /\ cloud[op.row].state = "live"
                 /\ \/ op.operation = "delete"
                    \/ op.operation = "update" /\ cloud[op.row].email # op.email
    PROVE  MirrorInv'
<1>1. queue \in Seq(QueueRow) /\ queue' = Append(queue, op) /\ op.row \in Row
  BY DEF IInv, TypeOK, Enqueue, QueueRow
<1>2. /\ DOMAIN queue = 1..Len(queue) /\ DOMAIN queue' = 1..(Len(queue) + 1)
      /\ \A i \in DOMAIN queue : queue'[i] = queue[i]
      /\ queue'[Len(queue) + 1] = op /\ Len(queue) \in Nat
  BY <1>1, AppendFacts
<1> PICK new : new = Len(queue) + 1
  OBVIOUS
<1>3. /\ new \in DOMAIN queue' /\ new \notin DOMAIN queue /\ DOMAIN queue \subseteq DOMAIN queue'
      /\ \A i \in DOMAIN queue' : i \in DOMAIN queue \/ i = new
  BY <1>2
<1>4. op.operation = "create" => \A j \in DOMAIN queue : queue[j].row # op.row
  BY QueueType
<1>5. QueueKept
  <2>1. \A i \in DOMAIN queue : Lost(i) => Lost(i)'
    BY <1>2 DEF Lost
  <2>2. queue'[new] = op
    BY <1>2
  <2>3. \A i \in DOMAIN queue' : i \notin DOMAIN queue =>
          /\ queue'[i].state = "pending"
          /\ queue'[i].operation = "create" =>
               /\ queue'[i].row \in Own
               /\ \A j \in DOMAIN queue' : queue'[j].row = queue'[i].row => j = i
    BY <1>2, <1>3, <1>4, <2>2
  <2> QED BY <1>2, <1>3, <2>1, <2>3 DEF QueueKept
<1>6. ASSUME NEW r \in Row \ Unpulled PROVE Explained(r)'
  <2>1. Explained(r) /\ (Clean(r)' => Clean(r))
    BY <1>2, <1>3 DEF MirrorInv, LagExplained, Clean, OpsOf
  <2>2. CASE local'[r] = local[r]
    <3>1. \A i \in OpsOf(r) : queue'[i].email = queue[i].email
      BY <1>2 DEF OpsOf
    <3> QED BY <1>5, <2>1, <2>2, <3>1, StaysExplained
  <2>3. CASE local'[r] # local[r]
    <3>1. r = op.row /\ local'[r] = row
      BY <2>3 DEF IInv, TypeOK
    <3>2. /\ cloud' = cloud /\ accepted' = accepted /\ accepted \subseteq DOMAIN queue
          /\ OpsOf(r) \subseteq OpsOf(r)'
      BY <1>5 DEF QueueKept, AtDevice, server, OpsOf, IInv, TypeOK
    <3>3. CASE local[r] = cloud[r]
      <4>1. queue'[new] = op /\ new \in OpsOf(r)' \ accepted'
        BY <1>2, <1>3, <3>1, <3>2 DEF OpsOf
      <4>2. row # cloud[r] => WouldWrite(new)'
        BY <3>1, <3>2, <3>3, <4>1 DEF WouldWrite
      <4> QED BY <3>1, <3>2, <4>1, <4>2 DEF Explained
    <3>4. CASE local[r] # cloud[r]
      <4>1. \A i \in OpsOf(r) : WouldWrite(i) => WouldWrite(i)'
        BY <1>2, <3>2 DEF WouldWrite, OpsOf
      <4> QED BY <2>1, <3>2, <3>4, <4>1 DEF Explained
    <3> QED BY <3>3, <3>4
  <2> QED BY <2>2, <2>3
<1>7. LagExplained'
  <2>1. Unpulled' = Unpulled
    BY DEF AtDevice, server, Unpulled
  <2> QED BY <1>6, <2>1 DEF LagExplained
<1> QED BY <1>5, <1>7, DeviceMirror

\* The repository's three calls.
LEMMA CreateCustomerMirror ==
    ASSUME IInv, MirrorInv, NEW r \in Row, NEW e \in Email, CreateCustomer(r, e) PROVE MirrorInv'
<1> DEFINE op == Op(r, "create", e)
<1>1. op \in QueueRow /\ op.row = r /\ op.state = "pending"
  BY OpType DEF Op
<1>2. /\ r \in Own /\ local[r].state = "absent" /\ local' = [local EXCEPT ![op.row] = Live(e)]
      /\ Enqueue(op) /\ AtDevice
  BY <1>1 DEF CreateCustomer
<1>3. local[r] = Absent
  BY <1>2 DEF IInv, TypeOK, Record, Absent
<1> HIDE DEF op
<1> QED BY <1>1, <1>2, <1>3, EnqueueMirror

LEMMA UpdateCustomerMirror ==
    ASSUME IInv, MirrorInv, NEW r \in Row, NEW e \in Email, UpdateCustomer(r, e) PROVE MirrorInv'
<1> DEFINE op == Op(r, "update", e)
<1>1. local \in [Row -> Record] /\ local[r].state = "live"
  BY DEF IInv, TypeOK, UpdateCustomer
<1>2. local[r] = [state |-> "live", email |-> local[r].email]
  BY <1>1 DEF Record, Absent
<1>3. [local[r] EXCEPT !.email = e] = Live(e)
  BY <1>2 DEF Live
<1>4. op.row = r /\ op.state = "pending" /\ op \in QueueRow /\ op.operation = "update" /\ op.email = e
  BY OpType DEF Op
<1>5. local' = [local EXCEPT ![op.row] = Live(e)] /\ Enqueue(op) /\ AtDevice
  BY <1>3, <1>4 DEF UpdateCustomer
<1>6. local[r] = cloud[r] /\ Live(e) # cloud[r] => cloud[r].state = "live" /\ cloud[r].email # e
  BY <1>1, <1>2 DEF Live
<1> HIDE DEF op
<1> QED BY <1>4, <1>5, <1>6, EnqueueMirror

LEMMA SoftDeleteMirror ==
    ASSUME IInv, MirrorInv, NEW r \in Row, SoftDelete(r) PROVE MirrorInv'
<1> DEFINE op == Op(r, "delete", "none")
           row == [local[r] EXCEPT !.state = "deleted"]
<1>1. op.row = r /\ op.state = "pending" /\ op \in QueueRow /\ op.operation = "delete"
  BY DEF Op, QueueRow, Reason
<1>2. local' = [local EXCEPT ![op.row] = row] /\ local[r].state = "live" /\ Enqueue(op) /\ AtDevice
  BY <1>1 DEF SoftDelete
<1> HIDE DEF op, row
<1> QED BY <1>1, <1>2, EnqueueMirror

\* A resolution in place: the operation was parked, and either it is lost now
\* or it is a create sent again.
LEMMA ResolveMirror ==
    ASSUME IInv, MirrorInv, AtDevice, NEW i \in InState("conflict"), NEW op,
           op.row = queue[i].row, op.operation = queue[i].operation,
           queue' = [queue EXCEPT ![i] = op],
           \/ op.state = "resolved"
           \/ op.state = "pending" /\ op.operation = "create" /\ local' = local,
           \A r \in Row : r # queue[i].row => local'[r] = local[r]
    PROVE  MirrorInv'
<1> DEFINE o == queue[i].row
<1>1. /\ i \in DOMAIN queue /\ queue[i].state = "conflict" /\ DOMAIN queue' = DOMAIN queue
      /\ \A j \in DOMAIN queue : queue'[j] = IF j = i THEN op ELSE queue[j]
  BY DEF InState
<1>2. o \in Row /\ \A r : OpsOf(r)' = OpsOf(r)
  BY <1>1, QueueType DEF OpsOf
<1>3. QueueKept
  <2>1. \A j \in DOMAIN queue : Lost(j) => Lost(j)'
    BY <1>1 DEF Lost
  <2> QED BY <1>1, <2>1 DEF QueueKept
<1>4. cloud' = cloud /\ accepted' = accepted /\ Unpulled' = Unpulled
  BY DEF AtDevice, server, Unpulled
<1>5. ASSUME NEW r \in Row \ Unpulled, r # o PROVE Explained(r)'
  <2>1. \A j \in OpsOf(r) : queue'[j] = queue[j]
    BY <1>1, <1>5 DEF OpsOf
  <2>2. Clean(r)' => Clean(r)
    BY <1>2, <2>1 DEF Clean
  <2> QED BY <1>3, <1>5, <2>1, <2>2, StaysExplained DEF MirrorInv, LagExplained
<1>6. i \in OpsOf(o)'
  BY <1>1, <1>2 DEF OpsOf
<1>7. CASE op.state = "resolved"
  <2>1. Lost(i)'
    BY <1>1, <1>7 DEF Lost
  <2> QED BY <1>4, <1>5, <1>6, <2>1, <1>3, LostIsExplained, DeviceMirror DEF LagExplained
<1>8. CASE op.state = "pending" /\ op.operation = "create"
  <2>1. Explained(o)'
    <3>1. ASSUME NEW j \in OpsOf(o), Lost(j) PROVE Explained(o)'
      <4>1. j \in OpsOf(o)' /\ Lost(j)'
        BY <1>2, <1>3, <3>1 DEF QueueKept, OpsOf
      <4> QED BY <4>1, LostIsExplained
    <3>2. CASE cloud[o] = Absent
      <4>1. i \notin accepted
        BY <3>2 DEF MirrorInv, OneCreate
      <4>2. queue'[i].row = o
        BY <1>1
      <4>3. WouldWrite(i)'
        BY <1>4, <3>2, <4>2 DEF WouldWrite
      <4> QED BY <1>4, <1>6, <4>1, <4>3 DEF Explained
    <3> QED BY <3>1, <3>2 DEF MirrorInv, RefusalsSpoil
  <2> QED BY <1>4, <1>5, <2>1, <1>3, DeviceMirror DEF LagExplained
<1> QED BY <1>7, <1>8

\* The correction of an update loses the operation it replaces.
LEMMA CorrectMirror ==
    ASSUME IInv, MirrorInv, NEW i \in DOMAIN queue, NEW e \in Email, Correct(i, e)
    PROVE  MirrorInv'
<1> PICK o \in Row : o = queue[i].row
  BY QueueType
<1> DEFINE op == [queue[i] EXCEPT !.state = "resolved"]
           fresh == Op(o, "update", e)
           resolved == [queue EXCEPT ![i] = op]
<1>1. op \in QueueRow /\ op.row = o /\ op.operation = queue[i].operation /\ op.state = "resolved"
  BY QueueType, ResolvedType
<1>2. /\ o \in Row /\ queue \in Seq(QueueRow) /\ queue[i].state = "conflict" /\ AtDevice
      /\ queue' = Append(resolved, fresh) /\ \A r \in Row : r # o => local'[r] = local[r]
  BY QueueType DEF IInv, TypeOK, Correct, EmailConflict, InState
<1>3. fresh \in QueueRow /\ fresh.row = o /\ fresh.state = "pending" /\ fresh.operation = "update"
  BY <1>2, OpType DEF Op
<1>4. resolved \in Seq(QueueRow) /\ Len(resolved) = Len(queue) /\ Len(queue) \in Nat
      /\ DOMAIN queue = 1..Len(queue) /\ DOMAIN resolved = 1..Len(resolved)
      /\ \A j \in DOMAIN queue : resolved[j] = IF j = i THEN op ELSE queue[j]
  BY <1>1, <1>2
<1> HIDE DEF op, fresh, resolved
<1>5. /\ DOMAIN queue' = 1..(Len(queue) + 1)
      /\ \A j \in DOMAIN queue : queue'[j] = IF j = i THEN op ELSE queue[j]
      /\ queue'[Len(queue) + 1] = fresh
  BY <1>2, <1>3, <1>4, AppendFacts
<1>6. /\ DOMAIN queue \subseteq DOMAIN queue'
      /\ \A j \in DOMAIN queue' : j \notin DOMAIN queue => queue'[j] = fresh
  BY <1>4, <1>5
<1>7. QueueKept
  <2>1. \A j \in DOMAIN queue : Lost(j) => Lost(j)'
    BY <1>1, <1>5 DEF Lost
  <2> QED BY <1>1, <1>2, <1>3, <1>5, <1>6, <2>1 DEF QueueKept
<1>8. i \in OpsOf(o)' /\ Lost(i)'
  BY <1>1, <1>5, <1>6 DEF OpsOf, Lost
<1>9. ASSUME NEW r \in Row \ Unpulled PROVE Explained(r)'
  <2>1. CASE r = o
    BY <1>8, <2>1, LostIsExplained
  <2>2. CASE r # o
    <3>1. \A j \in OpsOf(r) : queue'[j] = queue[j] /\ j \in OpsOf(r)'
      BY <1>5, <1>6, <2>2 DEF OpsOf
    <3>2. Clean(r)' => Clean(r)
      BY <3>1 DEF Clean
    <3> QED BY <1>2, <1>7, <2>2, <3>1, <3>2, StaysExplained DEF MirrorInv, LagExplained
  <2> QED BY <2>1, <2>2
<1>10. Unpulled' = Unpulled
  BY <1>2 DEF AtDevice, server, Unpulled
<1> QED BY <1>7, <1>9, <1>10, DeviceMirror DEF LagExplained

\* A correction that fails leaves its conflict, so nothing is claimed of the row.
LEMMA CorrectDeletedMirror ==
    ASSUME IInv, MirrorInv, NEW i \in DOMAIN queue, NEW e \in Email, CorrectDeleted(i, e)
    PROVE  MirrorInv'
<1> PICK o \in Row : o = queue[i].row
  BY QueueType
<1>1. /\ o \in Row /\ Lost(i) /\ AtDevice /\ queue' = queue
      /\ \A r \in Row : r # o => local'[r] = local[r]
  BY QueueType DEF IInv, TypeOK, CorrectDeleted, EmailConflict, InState, Lost
<1>2. QueueKept
  BY <1>1 DEF QueueKept, Lost
<1>3. ASSUME NEW r \in Row \ Unpulled PROVE Explained(r)'
  <2>1. CASE r = o
    <3>1. i \in OpsOf(o)' /\ Lost(i)'
      BY <1>1 DEF OpsOf, Lost
    <3> QED BY <2>1, <3>1, LostIsExplained
  <2>2. CASE r # o
    <3>1. Clean(r)' => Clean(r)
      BY <1>1 DEF Clean, OpsOf
    <3> QED BY <1>1, <1>2, <2>2, <3>1, StaysExplained DEF MirrorInv, LagExplained, OpsOf
  <2> QED BY <2>1, <2>2
<1>4. Unpulled' = Unpulled
  BY <1>1 DEF AtDevice, server, Unpulled
<1> QED BY <1>2, <1>3, <1>4, DeviceMirror DEF LagExplained

LEMMA ResolutionsMirror ==
    ASSUME IInv, MirrorInv, NEW i \in DOMAIN queue,
           KeepCloud(i) \/ Discard(i) \/ \E e \in Email : NewValue(i, e)
    PROVE  MirrorInv'
<1>1. ASSUME NEW e \in Email, requeue(i, e) PROVE MirrorInv'
  <2> DEFINE op == [queue[i] EXCEPT !.email = e, !.state = "pending", !.reason = "none"]
  <2>1. queue[i] \in QueueRow /\ queue[i].operation = "create" /\ i \in InState("conflict")
    BY <1>1, QueueType DEF requeue, EmailConflict
  <2>2. op.row = queue[i].row /\ op.operation = queue[i].operation /\ op.state = "pending"
    BY <2>1 DEF QueueRow
  <2>3. queue' = [queue EXCEPT ![i] = op] /\ local' = local /\ AtDevice
    BY <1>1 DEF requeue
  <2> HIDE DEF op
  <2> QED BY <2>1, <2>2, <2>3, ResolveMirror
<1>2. CASE discardLocal(i) \/ Discard(i)
  <2> DEFINE op == [queue[i] EXCEPT !.state = "resolved"]
  <2>1. op.row = queue[i].row /\ op.operation = queue[i].operation /\ op.state = "resolved"
    BY QueueType, ResolvedType
  <2>2. queue' = [queue EXCEPT ![i] = op] /\ AtDevice /\ i \in InState("conflict")
    BY <1>2 DEF discardLocal, Discard, EmailConflict
  <2>3. \A r \in Row : r # queue[i].row => local'[r] = local[r]
    BY <1>2, QueueType DEF discardLocal, Discard, IInv, TypeOK
  <2> HIDE DEF op
  <2> QED BY <2>1, <2>2, <2>3, ResolveMirror
<1>3. ASSUME NEW e \in Email, Edit(i, e) PROVE MirrorInv'
  BY <1>3, CorrectMirror, CorrectDeletedMirror DEF Edit
<1>4. ASSUME NEW e \in Email, NewValue(i, e) PROVE MirrorInv'
  BY <1>1, <1>3, <1>4 DEF NewValue
<1>5. CASE KeepCloud(i)
  <2>1. Edit(i, queue[i].reason) => queue[i].reason \in Email
    BY DEF Edit, Correct, CorrectDeleted, EmailConflict
  <2> QED BY <1>2, <1>3, <1>5, <2>1 DEF KeepCloud
<1> QED BY <1>2, <1>4, <1>5

\* The cycle of the renderer: what was explained stays explained while the
\* device, the cloud and what was accepted rest, and no more is pulled.
LEMMA RestsExplained ==
    ASSUME LagExplained, UNCHANGED <<device, cloud, accepted>>, Unpulled \subseteq Unpulled'
    PROVE  LagExplained'
<1>1. \A r : Explained(r) => Explained(r)'
  BY DEF Explained, Clean, OpsOf, WouldWrite, device
<1> QED BY <1>1 DEF LagExplained

LEMMA StartCycleMirror == ASSUME IInv, MirrorInv, StartCycle PROVE MirrorInv'
<1>1. /\ UNCHANGED <<device, payload, answer, job, cloud, changed, others, accepted>>
      /\ step = "idle" /\ push.state = "none"
      /\ \/ step' = "pull" /\ push' = push
         \/ step' = "push" /\ push' = [state |-> "sent", left |-> InState("pending"), heard |-> TRUE]
  BY DEF StartCycle
<1>2. job = NoJob /\ push.left = {} /\ answer = NoAnswer
  BY <1>1 DEF MirrorInv, OneAtATime
<1>3. OneAtATime'
  BY <1>1, <1>2 DEF MirrorInv, OneAtATime, InState, device, NoJob
<1>4. /\ \A r : Seen(r)' = Seen(r)
      /\ \A r : OpsOf(r)' = OpsOf(r)
  BY <1>1 DEF Seen, OpsOf, device
<1>5. OneCreate' /\ SkipsHold'
  BY <1>1, <1>4 DEF MirrorInv, OneCreate, SkipsHold, device
<1>6. RefusalsSpoil'
  BY <1>1, <1>2, <1>4 DEF MirrorInv, RefusalsSpoil, device, InState, Lost, NoJob, NoAnswer
<1>7. LagExplained'
  BY <1>1, RestsExplained DEF MirrorInv, Unpulled
<1> QED BY <1>3, <1>5, <1>6, <1>7 DEF MirrorInv

\* A server that takes a push up, and one that rolls it back.
LEMMA ServePushMirror == ASSUME IInv, MirrorInv, ServePush PROVE MirrorInv'
<1>1. /\ UNCHANGED <<device, step, payload, answer, job, cloud, changed, others, accepted>>
      /\ push' = [push EXCEPT !.state = "open"] /\ push.state = "sent"
  BY DEF ServePush
<1>2. push'.state = "open" /\ push'.left = push.left
  BY <1>1 DEF IInv, TypeOK
<1>3. OneAtATime'
  BY <1>1, <1>2 DEF MirrorInv, OneAtATime, InState, device
<1>4. /\ \A r : Seen(r)' = Seen(r)
      /\ \A r : OpsOf(r)' = OpsOf(r)
  BY <1>1 DEF Seen, OpsOf, device
<1>5. OneCreate' /\ SkipsHold'
  BY <1>1, <1>4 DEF MirrorInv, OneCreate, SkipsHold, device
<1>6. RefusalsSpoil'
  BY <1>1, <1>2, <1>4 DEF MirrorInv, RefusalsSpoil, device, InState, Lost
<1>7. LagExplained'
  BY <1>1, RestsExplained DEF MirrorInv, Unpulled
<1> QED BY <1>3, <1>5, <1>6, <1>7 DEF MirrorInv

LEMMA RollBackMirror == ASSUME IInv, MirrorInv, RollBack PROVE MirrorInv'
<1>1. /\ UNCHANGED <<device, step, payload, answer, cloud, changed, others, accepted>>
      /\ push' = NoPush /\ job' = NoJob
  BY DEF RollBack
<1>2. OneAtATime'
  BY <1>1 DEF MirrorInv, OneAtATime, InState, device, NoPush, NoJob
<1>3. \A r : OpsOf(r)' = OpsOf(r)
  BY <1>1 DEF OpsOf, device
<1>4. OneCreate' /\ SkipsHold'
  BY <1>1, <1>3 DEF MirrorInv, OneCreate, SkipsHold, device, NoJob
<1>5. RefusalsSpoil'
  BY <1>1, <1>3 DEF MirrorInv, RefusalsSpoil, device, InState, Lost, NoJob, NoAnswer
<1>6. LagExplained'
  BY <1>1, RestsExplained DEF MirrorInv, Unpulled
<1> QED BY <1>2, <1>4, <1>5, <1>6 DEF MirrorInv

LEMMA GiveUpMirror == ASSUME IInv, MirrorInv, GiveUp PROVE MirrorInv'
<1>1. /\ UNCHANGED <<device, job, cloud, others, accepted>>
      /\ step' = "idle" /\ payload' = [r \in {} |-> Absent] /\ answer' = NoAnswer
      /\ push' = [push EXCEPT !.heard = FALSE] /\ changed' = changed \cup DOMAIN payload
  BY DEF GiveUp, Unread
<1>2. push'.state = push.state /\ push'.left = push.left /\ DOMAIN payload' = {}
  BY <1>1 DEF IInv, TypeOK
<1>3. OneAtATime'
  BY <1>1, <1>2 DEF MirrorInv, OneAtATime, InState, device
<1>4. /\ \A r : Seen(r)' = Seen(r)
      /\ \A r : OpsOf(r)' = OpsOf(r)
  BY <1>1 DEF Seen, OpsOf, device
<1>5. OneCreate' /\ SkipsHold'
  BY <1>1, <1>4 DEF MirrorInv, OneCreate, SkipsHold, device
<1>6. RefusalsSpoil'
  BY <1>1, <1>2, <1>4 DEF MirrorInv, RefusalsSpoil, device, InState, Lost, NoAnswer
<1>7. LagExplained'
  BY <1>1, RestsExplained DEF MirrorInv, Unpulled
<1> QED BY <1>3, <1>5, <1>6, <1>7 DEF MirrorInv

\* An answer marks what it refused as the refusal says, and moves nothing else.
LEMMA markPushOutcomeMirror == ASSUME IInv, MirrorInv, markPushOutcome PROVE MirrorInv'
<1>1. /\ step = "replied" /\ step' = "pull" /\ answer' = NoAnswer /\ answer \in Answer
      /\ UNCHANGED <<local, payload, push, job, cloud, changed, others, accepted>>
      /\ DOMAIN queue' = DOMAIN queue
      /\ \A i \in DOMAIN queue :
           queue'[i] = IF i \in InState("pending") THEN Marked(queue[i]) ELSE queue[i]
  BY DEF markPushOutcome, server, IInv, TypeOK
<1>2. push.state = "none" /\ push.left = {} /\ job = NoJob /\ DOMAIN payload = {}
  <2>1. push.state = "none"
    BY <1>1 DEF MirrorInv, OneAtATime, IInv, TypeOK
  <2> QED BY <1>1, <2>1 DEF MirrorInv, OneAtATime
<1>3. ASSUME NEW i \in DOMAIN queue
      PROVE  /\ queue'[i].row = queue[i].row /\ queue'[i].operation = queue[i].operation
             /\ queue'[i].email = queue[i].email
             /\ queue[i].state # "pending" => queue'[i].state = queue[i].state
             /\ queue[i].state = "pending" /\ answer.refused[queue[i].row] # "none"
                  => queue'[i].state = "conflict"
             /\ queue[i].state = "pending" /\ answer.refused[queue[i].row] = "none"
                  => queue'[i].state \in {"pending", "synced"}
  <2>1. queue[i] \in QueueRow
    BY QueueType
  <2> QED BY <1>1, <2>1 DEF Marked, Refused, QueueRow, InState
<1>4. \A r : OpsOf(r)' = OpsOf(r)
  BY <1>1, <1>3 DEF OpsOf
<1>5. OneAtATime'
  BY <1>1, <1>2 DEF OneAtATime, NoJob
<1>6. OneCreate'
  BY <1>1, <1>2, <1>3, <1>4 DEF MirrorInv, OneCreate, NoJob, IInv, TypeOK
<1>7. SkipsHold'
  BY <1>1, <1>2 DEF SkipsHold, NoJob
<1>8. RefusalsSpoil'
  <2>1. \A r \in Row : job'.result.refused[r] = "none" /\ answer'.refused[r] = "none"
    BY <1>1, <1>2 DEF NoJob, NoAnswer
  <2>2. ASSUME NEW i \in InState("conflict")'
        PROVE  (\E j \in OpsOf(queue[i].row) : Lost(j))' \/ cloud'[queue'[i].row] = Absent
    <3>1. i \in DOMAIN queue /\ queue'[i].state = "conflict" /\ queue'[i].row = queue[i].row
      BY <1>1, <1>3, <2>2 DEF InState
    <3>2. CASE queue[i].state = "pending"
      <4>1. answer.refused[queue[i].row] # "none" /\ queue[i].row \in Row
        BY <1>3, <3>1, <3>2, QueueType
      <4>2. PICK j \in OpsOf(queue[i].row) \cap InState("pending") :
               queue[j].operation # "create" \/ cloud[queue[i].row] = Absent
        BY <4>1 DEF MirrorInv, RefusalsSpoil
      <4>3. /\ queue'[j].state = "conflict" /\ queue'[j].operation = queue[j].operation
            /\ j \in DOMAIN queue' /\ queue'[j].row = queue'[i].row
        BY <1>1, <1>3, <3>1, <4>1, <4>2 DEF OpsOf, InState
      <4>4. CASE queue[j].operation # "create"
        BY <4>3, <4>4 DEF Lost, OpsOf
      <4> QED BY <1>1, <3>1, <4>2, <4>4
    <3>3. CASE queue[i].state # "pending"
      <4>1. i \in InState("conflict")
        BY <1>3, <3>1, <3>3 DEF InState
      <4>2. CASE \E j \in OpsOf(queue[i].row) : Lost(j)
        BY <1>1, <1>3, <3>1, <4>2 DEF OpsOf, Lost
      <4> QED BY <1>1, <3>1, <4>1, <4>2 DEF MirrorInv, RefusalsSpoil
    <3> QED BY <3>2, <3>3
  <2> QED BY <2>1, <2>2 DEF RefusalsSpoil
<1>9. LagExplained'
  <2> SUFFICES ASSUME NEW r \in Row \ Unpulled PROVE Explained(r)'
    BY <1>1 DEF LagExplained, Unpulled
  <2>1. Clean(r)' => Clean(r)
    <3> SUFFICES ASSUME Clean(r)', NEW i \in OpsOf(r) PROVE queue[i].state \in {"pending", "synced"}
      BY DEF Clean
    <3>1. i \in DOMAIN queue /\ queue'[i].state \in {"pending", "synced"}
      BY <1>4 DEF Clean, OpsOf
    <3> QED BY <1>3, <3>1
  <2>2. \A i \in OpsOf(r) : WouldWrite(i) => WouldWrite(i)'
    BY <1>1, <1>3 DEF WouldWrite, OpsOf
  <2> QED BY <1>1, <1>4, <2>1, <2>2 DEF MirrorInv, LagExplained, Explained
<1> QED BY <1>5, <1>6, <1>7, <1>8, <1>9 DEF MirrorInv

\* A pull takes every row that changed.
LEMMA ServePullMirror == ASSUME IInv, MirrorInv, ServePull PROVE MirrorInv'
<1>1. /\ UNCHANGED <<device, answer, push, job, cloud, others, accepted>> /\ changed' = {}
      /\ step = "pull" /\ step' = "ingest"
  BY DEF ServePull
<1>2. PICK again \in SUBSET {r \in Row : cloud[r].state # "absent"} :
        payload' = [r \in changed \cup again |-> cloud[r]]
  BY DEF ServePull
<1>3. push.state = "none" /\ push.left = {} /\ job = NoJob /\ DOMAIN payload = {}
      /\ answer = NoAnswer
  <2>1. push.state = "none"
    BY <1>1 DEF MirrorInv, OneAtATime, IInv, TypeOK
  <2> QED BY <1>1, <2>1 DEF MirrorInv, OneAtATime
<1>4. OneAtATime'
  BY <1>1, <1>2, <1>3 DEF OneAtATime, NoJob
<1>5. /\ \A r : Seen(r)' = Seen(r)
      /\ \A r : OpsOf(r)' = OpsOf(r)
  BY <1>1 DEF Seen, OpsOf, device
<1>6. OneCreate' /\ SkipsHold'
  BY <1>1, <1>3, <1>5 DEF MirrorInv, OneCreate, SkipsHold, NoJob, device
<1>7. RefusalsSpoil'
  BY <1>1, <1>5 DEF MirrorInv, RefusalsSpoil, device, InState, Lost
<1>8. LagExplained'
  BY <1>1, <1>2, <1>3, RestsExplained DEF MirrorInv, Unpulled
<1> QED BY <1>4, <1>6, <1>7, <1>8 DEF MirrorInv

\* The mirror takes over what the cloud holds, or has changed since.
LEMMA applyPullMirror == ASSUME IInv, MirrorInv, applyPull PROVE MirrorInv'
<1>1. /\ UNCHANGED <<queue, answer, push, job, cloud, changed, others, accepted>>
      /\ step = "ingest" /\ step' = "idle" /\ payload' = [r \in {} |-> Absent]
      /\ \A r \in Row : local'[r] = IF r \in DOMAIN payload THEN payload[r] ELSE local[r]
  BY DEF applyPull, upsertCustomer, server
<1>2. OneAtATime'
  BY <1>1 DEF MirrorInv, OneAtATime, InState
<1>3. /\ \A r : Seen(r)' = Seen(r)
      /\ \A r : OpsOf(r)' = OpsOf(r)
  BY <1>1 DEF Seen, OpsOf
<1>4. OneCreate' /\ SkipsHold'
  BY <1>1, <1>3 DEF MirrorInv, OneCreate, SkipsHold
<1>5. RefusalsSpoil'
  BY <1>1, <1>3 DEF MirrorInv, RefusalsSpoil, InState, Lost
<1>6. LagExplained'
  <2> SUFFICES ASSUME NEW r \in Row, r \notin changed PROVE Explained(r)'
    BY <1>1 DEF LagExplained, Unpulled
  <2>1. CASE r \in DOMAIN payload
    BY <1>1, <2>1 DEF MirrorInv, OneAtATime, Explained
  <2>2. CASE r \notin DOMAIN payload
    <3>1. Explained(r) /\ local'[r] = local[r]
      BY <1>1, <2>2 DEF MirrorInv, LagExplained, Unpulled
    <3> QED BY <1>1, <1>3, <3>1 DEF Explained, Clean, WouldWrite
  <2> QED BY <2>1, <2>2
<1> QED BY <1>2, <1>4, <1>5, <1>6 DEF MirrorInv

\* A look-up: acknowledged as it stands, noted as refused, or to be written.
LEMMA ApplyCustomerMirror == ASSUME IInv, MirrorInv, _apply_customer PROVE MirrorInv'
<1>1. UNCHANGED <<device, step, payload, answer, cloud, changed, others, accepted>>
      /\ push.state = "open" /\ job.found = 0
  BY DEF _apply_customer
<1>2. PICK i \in push.left :
        \/ Outcome(queue[i]) = "write" /\ job' = [job EXCEPT !.found = i] /\ UNCHANGED push
        \/ Outcome(queue[i]) = "skip" /\ job' = Acknowledge(i) /\ Done(i)
        \/ /\ Outcome(queue[i]) \in Reason
           /\ job' = [job EXCEPT !.result.refused[queue[i].row] = Outcome(queue[i])] /\ Done(i)
  BY DEF _apply_customer
<1> DEFINE op == queue[i]
<1>3. /\ i \in DOMAIN queue /\ i \in InState("pending") /\ op.row \in Row
      /\ op \in QueueRow /\ (op.operation # "delete" => op.email \in Email)
  BY QueueType DEF IInv, TypeOK, MirrorInv, OneAtATime
<1>4. /\ job'.rows = job.rows /\ job'.draft = job.draft
      /\ push'.state = "open"
      /\ \/ /\ Outcome(op) = "write" /\ job'.found = i /\ push'.left = push.left
            /\ job'.acknowledged = job.acknowledged /\ job'.result = job.result
         \/ /\ Outcome(op) = "skip" /\ job'.found = 0 /\ push'.left = push.left \ {i}
            /\ job'.acknowledged = job.acknowledged \cup {i}
            /\ job'.result.refused = job.result.refused
         \/ /\ Outcome(op) \in Reason /\ job'.found = 0 /\ push'.left = push.left \ {i}
            /\ job'.acknowledged = job.acknowledged
            /\ \A r \in Row : r # op.row => job'.result.refused[r] = job.result.refused[r]
  <2>1. CASE Outcome(op) = "write" /\ job' = [job EXCEPT !.found = i] /\ UNCHANGED push
    BY <1>1, <2>1 DEF IInv, TypeOK
  <2>2. Done(i) => push'.state = "open" /\ push'.left = push.left \ {i}
    BY <1>1 DEF Done, IInv, TypeOK
  <2>3. CASE Outcome(op) = "skip" /\ job' = Acknowledge(i) /\ Done(i)
    BY <1>1, <2>2, <2>3 DEF Acknowledge, IInv, TypeOK, Answer
  <2>4. CASE /\ Outcome(op) \in Reason
             /\ job' = [job EXCEPT !.result.refused[op.row] = Outcome(op)] /\ Done(i)
    <3>1. /\ job'.rows = job.rows /\ job'.draft = job.draft /\ job'.found = job.found
          /\ job'.acknowledged = job.acknowledged
          /\ job'.result.refused = [job.result.refused EXCEPT ![op.row] = Outcome(op)]
      BY <2>4 DEF IInv, TypeOK, Answer
    <3> QED BY <1>1, <1>3, <2>2, <2>4, <3>1 DEF IInv, TypeOK, Answer
  <2> QED BY <1>2, <2>1, <2>3, <2>4
<1>5. \A r : Seen(r)' = Seen(r)
  BY <1>1, <1>4 DEF Seen
<1>6. \A r : OpsOf(r)' = OpsOf(r)
  BY <1>1 DEF OpsOf, device
<1>7. OneAtATime'
  BY <1>1, <1>3, <1>4 DEF MirrorInv, OneAtATime, InState, device
<1>8. Outcome(op) = "skip" =>
        /\ Seen(op.row) # Absent
        /\ op.operation = "create" \/ (op.operation = "update" /\ Seen(op.row).email = op.email)
  <2> SUFFICES ASSUME Outcome(op) = "skip"
               PROVE  /\ Seen(op.row) # Absent
                      /\ \/ op.operation = "create"
                         \/ op.operation = "update" /\ Seen(op.row).email = op.email
    OBVIOUS
  <2> DEFINE known == op.row \in Own /\ Seen(op.row).state # "absent"
  <2>1. op.operation # "delete" => op.email # "skip"
    <3>1. "skip" \notin Email
      BY CustomerAssumption
    <3> QED BY <1>3, <3>1
  <2>2. \/ op.operation = "create" /\ known
        \/ op.operation # "create" /\ known /\ op.operation = "update"
             /\ Seen(op.row).email = op.email
    BY <2>1 DEF Outcome
  <2> QED BY <2>2 DEF Absent
<1>9. OneCreate'
  <2>1. \A j \in job'.acknowledged : Seen(queue[j].row) # Absent
    BY <1>4, <1>8, CustomerAssumption DEF MirrorInv, OneCreate
  <2>2. job.acknowledged \subseteq job'.acknowledged
    BY <1>4
  <2> QED BY <1>1, <1>4, <1>5, <1>6, <2>1, <2>2 DEF MirrorInv, OneCreate, device
<1>10. SkipsHold'
  <2>1. Outcome(op) = "skip" =>
          \/ op.row \in job.rows \/ op.operation = "create"
          \/ op.operation = "update" /\ cloud[op.row].email = op.email
    BY <1>8 DEF Seen
  <2> QED BY <1>1, <1>4, <2>1 DEF MirrorInv, SkipsHold, device
<1>11. Outcome(op) \in Reason /\ op.operation = "create" => Seen(op.row) = Absent
  <2>1. SUFFICES ASSUME Outcome(op) \in Reason, op.operation = "create"
                 PROVE  Seen(op.row).state = "absent"
    BY <1>3, SeenType DEF IInv, Record, Absent
  <2>2. op.row \in Own
    BY <1>3, <2>1 DEF MirrorInv, OneCreate
  <2> QED BY <2>1, <2>2, CustomerAssumption DEF Outcome, Reason
<1>12. RefusalsSpoil'
  <2>1. ASSUME NEW r \in Row, job'.result.refused[r] # "none"
        PROVE  \E k \in OpsOf(r) \cap InState("pending") :
                 queue[k].operation # "create"
                   \/ (k \notin push'.left \cup {job'.found} /\ Seen(r) = Absent)
    <3>1. CASE Outcome(op) \in Reason /\ r = op.row /\ push'.left = push.left \ {i} /\ job'.found = 0
      <4>1. i # 0
        BY <1>3 DEF IInv, TypeOK
      <4> QED BY <1>3, <1>11, <3>1, <4>1 DEF OpsOf
    <3>2. CASE job'.result.refused[r] = job.result.refused[r]
      <4>1. PICK k \in OpsOf(r) \cap InState("pending") :
               queue[k].operation # "create"
                 \/ (k \notin push.left \cup {job.found} /\ Seen(r) = Absent)
        BY <2>1, <3>2 DEF MirrorInv, RefusalsSpoil
      <4>2. push'.left \cup {job'.found} \subseteq push.left \cup {job.found}
        BY <1>1, <1>4
      <4> QED BY <4>1, <4>2
    <3> QED BY <1>4, <3>1, <3>2
  <2> QED BY <1>1, <1>5, <1>6, <2>1 DEF MirrorInv, RefusalsSpoil, device, InState, Lost
<1>13. LagExplained'
  BY <1>1, RestsExplained DEF MirrorInv, Unpulled
<1> QED BY <1>7, <1>9, <1>10, <1>12, <1>13 DEF MirrorInv

\* A write: of a create, or of a customer the transaction sees.
LEMMA flushMirror == ASSUME IInv, MirrorInv, flush PROVE MirrorInv'
<1> DEFINE i == job.found  op == queue[job.found]  row == Write(queue[job.found])
<1>1. /\ UNCHANGED <<device, step, payload, answer, cloud, changed, others, accepted>>
      /\ push.state = "open" /\ i # 0 /\ Done(i)
      /\ job' = [Acknowledge(i) EXCEPT
                   !.rows = @ \cup {op.row}, !.draft[op.row] = row, !.found = 0]
  BY DEF flush
<1>2. /\ i \in DOMAIN queue /\ i \in InState("pending") /\ op.row \in Row /\ row # Absent
      /\ op.operation = "create" \/ Seen(op.row) # Absent
  <2>1. i \in DOMAIN queue /\ (op.operation = "create" \/ Seen(op.row) # Absent)
    BY <1>1 DEF IInv, TypeOK, SpokenRowsExist
  <2> QED BY <1>1, <2>1, QueueType, WriteType DEF MirrorInv, OneAtATime
<1> HIDE DEF row
<1>3. /\ job'.rows = job.rows \cup {op.row} /\ job'.found = 0
      /\ job'.draft = [job.draft EXCEPT ![op.row] = row]
      /\ job'.acknowledged = job.acknowledged \cup {i}
      /\ job'.result.refused = job.result.refused
      /\ push'.state = "open" /\ push'.left = push.left \ {i}
  BY <1>1, <1>2 DEF Acknowledge, Done, IInv, TypeOK, Answer
<1> PICK o \in Row : o = op.row
  BY <1>2
<1>4. Seen(o)' = row /\ \A r \in Row : r # o => Seen(r)' = Seen(r)
  BY <1>1, <1>2, <1>3 DEF Seen, IInv, TypeOK
<1>5. \A r : OpsOf(r)' = OpsOf(r)
  BY <1>1 DEF OpsOf, device
<1>6. OneAtATime'
  BY <1>1, <1>2, <1>3 DEF MirrorInv, OneAtATime, InState, device
<1>7. OneCreate'
  <2>1. \A j \in job'.acknowledged : Seen(queue[j].row)' # Absent
    <3>1. queue' = queue /\ \A j \in job.acknowledged : queue[j].row \in Row
      BY <1>1, QueueType DEF IInv, TypeOK, device
    <3> QED BY <1>2, <1>3, <1>4, <3>1 DEF MirrorInv, OneCreate
  <2>2. ASSUME NEW r \in job'.rows, cloud[r] = Absent
        PROVE  \E j \in job'.acknowledged \cap OpsOf(r) : queue[j].operation = "create"
    <3>1. CASE r \in job.rows
      BY <1>3, <2>2, <3>1 DEF MirrorInv, OneCreate
    <3>2. CASE r \notin job.rows
      <4>1. r = op.row /\ Seen(r) = Absent
        BY <1>3, <2>2, <3>2 DEF Seen
      <4> QED BY <1>2, <1>3, <4>1 DEF OpsOf
    <3> QED BY <3>1, <3>2
  <2> QED BY <1>1, <1>5, <2>1, <2>2 DEF MirrorInv, OneCreate, device
<1>8. SkipsHold'
  BY <1>1, <1>3 DEF MirrorInv, SkipsHold, device
<1>9. RefusalsSpoil'
  <2>1. ASSUME NEW r \in Row, job'.result.refused[r] # "none"
        PROVE  \E k \in OpsOf(r) \cap InState("pending") :
                 queue[k].operation # "create"
                   \/ (k \notin push'.left \cup {job'.found} /\ Seen(r)' = Absent)
    <3>1. PICK k \in OpsOf(r) \cap InState("pending") :
             queue[k].operation # "create"
               \/ (k \notin push.left \cup {job.found} /\ Seen(r) = Absent)
      BY <1>3, <2>1 DEF MirrorInv, RefusalsSpoil
    <3>2. k # 0
      BY DEF InState, IInv, TypeOK
    <3>3. CASE queue[k].operation # "create"
      BY <3>1, <3>3
    <3>4. CASE queue[k].operation = "create" /\ r # o
      BY <1>3, <1>4, <3>1, <3>2, <3>4
    <3>5. CASE queue[k].operation = "create" /\ r = o
      <4>1. op.operation # "create"
        BY <1>2, <3>1, <3>5 DEF MirrorInv, OneCreate, OpsOf, InState
      <4> QED BY <1>2, <3>5, <4>1 DEF OpsOf
    <3> QED BY <3>3, <3>4, <3>5
  <2> QED BY <1>1, <1>5, <2>1 DEF MirrorInv, RefusalsSpoil, device, InState, Lost
<1>10. LagExplained'
  BY <1>1, RestsExplained DEF MirrorInv, Unpulled
<1> QED BY <1>6, <1>7, <1>8, <1>9, <1>10 DEF MirrorInv

\* What is accepted has been written, and is pulled, or is what the cloud says.
LEMMA CommitMirror == ASSUME IInv, MirrorInv, Commit PROVE MirrorInv'
<1>1. /\ UNCHANGED <<device, payload, others>> /\ push.state = "open"
      /\ cloud' = [r \in Row |-> Seen(r)] /\ changed' = changed \cup job.rows
      /\ accepted' = accepted \cup job.acknowledged
      /\ push' = NoPush /\ job' = NoJob
      /\ \/ step' = "replied" /\ answer' = job.result
         \/ step' = step /\ answer' = answer
  BY DEF Commit
<1>2. /\ \A r \in Row : cloud'[r] = Seen(r) /\ Seen(r)' = Seen(r)
      /\ \A r \in Row : r \notin job.rows => cloud'[r] = cloud[r]
      /\ \A r \in Row : cloud[r] # Absent => cloud'[r] # Absent
  BY <1>1 DEF Seen, NoJob, IInv, TypeOK, SpokenRowsExist
<1>3. /\ step \in {"idle", "push"} /\ DOMAIN payload = {} /\ answer = NoAnswer
      /\ job.acknowledged \subseteq InState("pending")
  BY <1>1 DEF MirrorInv, OneAtATime
<1>4. /\ accepted' \subseteq DOMAIN queue
      /\ \A i \in accepted' : queue[i].row \in Row
      /\ \A r : OpsOf(r)' = OpsOf(r)
  BY <1>1, QueueType DEF IInv, TypeOK, OpsOf, device
<1>5. OneAtATime'
  BY <1>1, <1>3 DEF OneAtATime, NoPush, NoJob
<1>6. OneCreate'
  <2>1. \A i \in accepted' : cloud'[queue[i].row] # Absent
    BY <1>1, <1>2, <1>4 DEF MirrorInv, OneCreate
  <2> QED BY <1>1, <1>4, <2>1 DEF MirrorInv, OneCreate, device, NoJob
<1>7. SkipsHold'
  BY <1>1 DEF SkipsHold, NoJob
<1>8. RefusalsSpoil'
  <2>1. \A r \in Row : job'.result.refused[r] = "none"
    BY <1>1 DEF NoJob, NoAnswer
  <2>2. ASSUME NEW r \in Row, answer'.refused[r] # "none"
        PROVE  \E i \in OpsOf(r) \cap InState("pending") :
                 queue[i].operation # "create" \/ cloud'[r] = Absent
    <3>1. answer' = job.result
      BY <1>1, <1>3, <2>2 DEF NoAnswer
    <3> QED BY <1>2, <2>2, <3>1 DEF MirrorInv, RefusalsSpoil
  <2>3. ASSUME NEW i \in InState("conflict")
        PROVE  (\E j \in OpsOf(queue[i].row) : Lost(j)) \/ cloud'[queue[i].row] = Absent
    <3>1. i \in DOMAIN queue /\ queue[i].row \in Row /\ queue[i].state = "conflict"
      BY QueueType DEF InState
    <3>2. CASE queue[i].operation # "create"
      BY <3>1, <3>2 DEF OpsOf, Lost
    <3>3. CASE queue[i].operation = "create" /\ queue[i].row \in job.rows /\ cloud[queue[i].row] = Absent
      <4>1. PICK j \in job.acknowledged \cap OpsOf(queue[i].row) : queue[j].operation = "create"
        BY <3>3 DEF MirrorInv, OneCreate
      <4>2. j = i
        BY <3>1, <3>3, <4>1 DEF MirrorInv, OneCreate, OpsOf
      <4> QED BY <1>3, <3>1, <4>1, <4>2 DEF InState
    <3>4. CASE queue[i].row \notin job.rows \/ cloud[queue[i].row] # Absent
      BY <1>2, <3>1, <3>4 DEF MirrorInv, RefusalsSpoil
    <3> QED BY <3>2, <3>3, <3>4
  <2> QED BY <1>1, <1>4, <2>1, <2>2, <2>3 DEF RefusalsSpoil, InState, Lost, device
<1>9. LagExplained'
  <2> SUFFICES ASSUME NEW r \in Row, r \notin changed, r \notin job.rows,
                      Clean(r), local[r] # cloud'[r]
               PROVE  \E i \in OpsOf(r) \ accepted' : WouldWrite(i)'
    BY <1>1, <1>3, <1>4 DEF LagExplained, Unpulled, Explained, Clean, device
  <2>1. cloud'[r] = cloud[r]
    BY <1>2
  <2>2. PICK i \in OpsOf(r) \ accepted : WouldWrite(i)
    BY <1>3, <2>1 DEF MirrorInv, LagExplained, Explained, Unpulled
  <2>3. queue[i].row = r /\ i \in DOMAIN queue
    BY <2>2 DEF OpsOf
  <2>4. WouldWrite(i)'
    BY <1>1, <2>1, <2>2, <2>3 DEF WouldWrite, device
  <2>5. ASSUME i \in job.acknowledged PROVE FALSE
    <3>1. /\ Seen(r) # Absent
          /\ queue[i].operation = "create"
             \/ (queue[i].operation = "update" /\ cloud[r].email = queue[i].email)
      BY <2>3, <2>5 DEF MirrorInv, OneCreate, SkipsHold
    <3>2. cloud[r] # Absent
      BY <3>1 DEF Seen
    <3> QED BY <2>2, <2>3, <3>1, <3>2 DEF WouldWrite
  <2> QED BY <1>1, <2>2, <2>4, <2>5
<1> QED BY <1>5, <1>6, <1>7, <1>8, <1>9 DEF MirrorInv

\* Another user's change is one to pull, and makes no customer of this device.
LEMMA RestMirror ==
    ASSUME IInv, MirrorInv, NEW r \in Row, NEW row \in Record, row # Absent, Rest(r, row),
           cloud[r] = Absent => r \in Native
    PROVE  MirrorInv'
<1>1. /\ UNCHANGED <<device, step, payload, answer, push, job, accepted>>
      /\ r \notin job.rows /\ changed' = changed \cup {r}
      /\ cloud'[r] = row /\ \A s \in Row : s # r => cloud'[s] = cloud[s]
  BY DEF Rest, IInv, TypeOK
<1>2. /\ Seen(r)' = row /\ Seen(r) = cloud[r]
      /\ \A s \in Row : s # r => Seen(s)' = Seen(s)
  BY <1>1 DEF Seen
<1>3. \A s : OpsOf(s)' = OpsOf(s)
  BY <1>1 DEF OpsOf, device
<1>4. OneAtATime'
  BY <1>1 DEF MirrorInv, OneAtATime, InState, device, IInv, TypeOK
<1>5. \A i \in DOMAIN queue : queue[i].row \in Row
                              /\ (queue[i].operation = "create" => queue[i].row \notin Native)
  BY QueueType, CustomerAssumption DEF MirrorInv, OneCreate
<1>6. OneCreate'
  <2>1. \A i \in accepted : cloud'[queue[i].row] # Absent
    BY <1>1, <1>5 DEF MirrorInv, OneCreate, IInv, TypeOK
  <2>2. \A i \in job.acknowledged : Seen(queue[i].row)' # Absent
    BY <1>1, <1>2, <1>5 DEF MirrorInv, OneCreate, IInv, TypeOK, device
  <2>3. \A s \in job.rows : cloud'[s] = cloud[s]
    BY <1>1 DEF IInv, TypeOK
  <2> QED BY <1>1, <1>3, <2>1, <2>2, <2>3 DEF MirrorInv, OneCreate, device
<1>7. SkipsHold'
  BY <1>1, <1>5 DEF MirrorInv, SkipsHold, device, IInv, TypeOK
<1>8. RefusalsSpoil'
  <2>1. ASSUME NEW s \in Row, NEW i \in OpsOf(s), queue[i].operation = "create", cloud[s] = Absent
        PROVE  cloud'[s] = Absent /\ Seen(s)' = Seen(s)
    BY <1>1, <1>2, <1>5, <2>1 DEF OpsOf
  <2>2. ASSUME NEW s \in Row, NEW i \in OpsOf(s), queue[i].operation = "create", Seen(s) = Absent
        PROVE  Seen(s)' = Absent
    BY <1>2, <2>1, <2>2
  <2>3. ASSUME NEW i \in InState("conflict")
        PROVE  (\E j \in OpsOf(queue[i].row) : Lost(j)) \/ cloud'[queue[i].row] = Absent
    <3>1. i \in DOMAIN queue /\ queue[i].row \in Row /\ queue[i].state = "conflict"
          /\ i \in OpsOf(queue[i].row)
      BY QueueType DEF InState, OpsOf
    <3>2. CASE queue[i].operation # "create"
      BY <3>1, <3>2 DEF Lost
    <3>3. CASE queue[i].operation = "create"
      BY <2>1, <3>1, <3>3 DEF MirrorInv, RefusalsSpoil
    <3> QED BY <3>2, <3>3
  <2>4. \A s \in Row : job.result.refused[s] # "none" =>
          \E i \in OpsOf(s) \cap InState("pending") :
             queue[i].operation # "create"
               \/ (i \notin push.left \cup {job.found} /\ Seen(s)' = Absent)
    BY <2>2 DEF MirrorInv, RefusalsSpoil
  <2>5. \A s \in Row : answer.refused[s] # "none" =>
          \E i \in OpsOf(s) \cap InState("pending") :
             queue[i].operation # "create" \/ cloud'[s] = Absent
    BY <2>1 DEF MirrorInv, RefusalsSpoil
  <2> QED BY <1>1, <1>3, <2>3, <2>4, <2>5 DEF RefusalsSpoil, InState, Lost, device
<1>9. LagExplained'
  <2> SUFFICES ASSUME NEW s \in Row, s \notin Unpulled, s # r PROVE Explained(s)'
    BY <1>1 DEF LagExplained, Unpulled
  <2>1. Explained(s) /\ cloud'[s] = cloud[s]
    BY <1>1 DEF MirrorInv, LagExplained
  <2> QED BY <1>1, <1>3, <2>1 DEF Explained, Clean, WouldWrite, device, OpsOf
<1> QED BY <1>4, <1>6, <1>7, <1>8, <1>9 DEF MirrorInv

LEMMA HandlersMirror ==
    ASSUME IInv, MirrorInv, NEW r \in Row,
           \/ \E e \in Email : create_customer(r, e) \/ update_customer(r, e)
           \/ delete_customer(r)
    PROVE  MirrorInv'
<1>1. ASSUME NEW e \in Email, create_customer(r, e) PROVE MirrorInv'
  <2>1. Live(e) \in Record /\ Live(e) # Absent
    BY DEF Live, Record, Absent
  <2> QED BY <1>1, <2>1, RestMirror DEF create_customer
<1>2. cloud[r].state = "live" =>
        /\ cloud[r] = [state |-> "live", email |-> cloud[r].email] /\ cloud[r].email \in Email
        /\ cloud[r] # Absent
  BY DEF IInv, TypeOK, Record, Absent
<1>3. ASSUME NEW e \in Email, update_customer(r, e) PROVE MirrorInv'
  <2> DEFINE row == [cloud[r] EXCEPT !.email = e]
  <2>1. row = Live(e)
    BY <1>2, <1>3 DEF update_customer, Live
  <2>2. row \in Record /\ row # Absent
    BY <2>1 DEF Live, Record, Absent
  <2>3. Rest(r, row) /\ cloud[r] # Absent
    BY <1>2, <1>3 DEF update_customer
  <2> HIDE DEF row
  <2> QED BY <2>2, <2>3, RestMirror
<1>4. CASE delete_customer(r)
  <2> DEFINE row == [cloud[r] EXCEPT !.state = "deleted"]
  <2>1. row = [state |-> "deleted", email |-> cloud[r].email] /\ cloud[r].email \in Email
    BY <1>2, <1>4 DEF delete_customer
  <2>2. row \in Record /\ row # Absent
    BY <2>1 DEF Record, Absent
  <2>3. Rest(r, row) /\ cloud[r] # Absent
    BY <1>2, <1>4 DEF delete_customer
  <2> HIDE DEF row
  <2> QED BY <2>2, <2>3, RestMirror
<1> QED BY <1>1, <1>3, <1>4

LEMMA NextMirror == IInv /\ MirrorInv /\ [Next]_vars => MirrorInv'
<1> SUFFICES ASSUME IInv, MirrorInv, [Next]_vars PROVE MirrorInv'
  OBVIOUS
<1>1. CASE UNCHANGED vars
  <2>1. /\ \A r : Seen(r)' = Seen(r)
        /\ \A r : OpsOf(r)' = OpsOf(r)
        /\ UNCHANGED <<device, step, payload, answer, push, job, cloud, changed, accepted>>
    BY <1>1 DEF Seen, OpsOf, vars, device, server
  <2>2. OneAtATime' /\ OneCreate' /\ SkipsHold'
    BY <2>1 DEF MirrorInv, OneAtATime, OneCreate, SkipsHold, InState, device
  <2>3. RefusalsSpoil'
    BY <2>1 DEF MirrorInv, RefusalsSpoil, InState, Lost, device
  <2>4. LagExplained'
    BY <2>1, RestsExplained DEF MirrorInv, Unpulled
  <2> QED BY <2>2, <2>3, <2>4 DEF MirrorInv
<1>2. ASSUME NEW r \in Row, NEW e \in Email,
             CreateCustomer(r, e) \/ UpdateCustomer(r, e) \/ create_customer(r, e)
               \/ update_customer(r, e)
      PROVE  MirrorInv'
  BY <1>2, CreateCustomerMirror, UpdateCustomerMirror, HandlersMirror
<1>3. ASSUME NEW r \in Row, SoftDelete(r) \/ delete_customer(r) PROVE MirrorInv'
  BY <1>3, SoftDeleteMirror, HandlersMirror
<1>4. CASE StartCycle \/ markPushOutcome \/ ServePull \/ applyPull \/ GiveUp
  BY <1>4, StartCycleMirror, markPushOutcomeMirror, ServePullMirror, applyPullMirror, GiveUpMirror
<1>5. CASE ServePush \/ _apply_customer \/ flush \/ Commit \/ RollBack
  BY <1>5, ServePushMirror, ApplyCustomerMirror, flushMirror, CommitMirror, RollBackMirror
<1>6. ASSUME NEW i \in DOMAIN queue,
             KeepCloud(i) \/ Discard(i) \/ \E e \in Email : NewValue(i, e)
      PROVE  MirrorInv'
  BY <1>6, ResolutionsMirror
<1> QED BY <1>1, <1>2, <1>3, <1>4, <1>5, <1>6 DEF Next

\* Where the mirror differs from what it was told, an operation explains it:
\* one the server has not accepted, and which would still write.
THEOREM MirrorInvariance == Spec => []MirrorInv
BY InitMirror, NextMirror, CustomerInvariance, PTL DEF Spec

\* Everything of a customer synced, accepted and pulled: the mirror holds what
\* the cloud holds, whatever other users and repeated pushes did in between.
THEOREM MirrorConverges == Spec => []Converges
<1>1. MirrorInv => Converges
  <2> SUFFICES ASSUME MirrorInv, step = "idle", changed = {}, NEW r \in Row,
                      \A i \in DOMAIN queue :
                         queue[i].row = r => i \in InState("synced") \cap accepted
               PROVE  local[r] = cloud[r]
    BY DEF Converges
  <2>1. r \notin Unpulled
    BY DEF MirrorInv, OneAtATime, Unpulled
  <2>2. Clean(r) /\ OpsOf(r) \ accepted = {}
    BY DEF Clean, OpsOf, InState
  <2> QED BY <2>1, <2>2 DEF MirrorInv, LagExplained, Explained
<1> QED BY <1>1, MirrorInvariance, PTL

================================================================================
