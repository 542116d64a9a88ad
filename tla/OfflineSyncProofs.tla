--------------------------- MODULE OfflineSyncProofs ---------------------------
(***************************************************************************)
(* Proofs about OfflineSync: type correctness, an operation is applied at  *)
(* most once, stock is the ledger of its movements less what a transaction *)
(* overwrote, cloud orders only move forward from what was read of them,   *)
(* and, when the server commits what it answers, what is shown as synced   *)
(* is in the cloud and a quiet mirror has its stock.                       *)
(*                                                                         *)
(* The server works through a batch with a recursive function, and stock   *)
(* is a sum over the queue.  Neither needs an induction theorem with an    *)
(* operator parameter: induction is over the subsets of Nat (section 1),   *)
(* a run of a recursive function is shown to exist once and for all, and   *)
(* what the handlers keep is a SET of server states (sections 3 and 6),    *)
(* each of them the tables and what the transaction has seen of them.      *)
(***************************************************************************)
EXTENDS OfflineSync, WellFoundedInduction, TLAPS

-------------------------------------------------------------------------------
(* 1. Induction, and runs of a recursive function *)

\* A set of naturals with 0 in it that is closed under successor is all of Nat:
\* the least number outside it has a predecessor inside.
LEMMA InductionOnSets ==
  ASSUME NEW S, 0 \in S, \A n \in Nat : n \in S => n + 1 \in S
  PROVE  Nat \subseteq S
<1> DEFINE Less == {ij \in Nat \X Nat : ij[1] < ij[2]}
<1>1. IsWellFoundedOn(Less, Nat)
  BY NatLessThanWellFounded DEF OpToRel
<1> SUFFICES ASSUME Nat \ S # {} PROVE FALSE
  OBVIOUS
<1>2. PICK x \in Nat \ S : \A y \in Nat \ S : ~(<<y, x>> \in Less)
  <2> HIDE DEF Less
  <2> QED BY <1>1, WFMin
<1>3. x # 0 /\ x - 1 \in Nat /\ <<x - 1, x>> \in Less
  OBVIOUS
<1>4. x - 1 \in S
  BY <1>2, <1>3
<1> QED
  BY <1>3, <1>4

\* run[k] is what step k of one makes of run[k - 1].
IsRun(run, from, n, one) ==
    run = [k \in 0..n |-> IF k = 0 THEN from ELSE one[<<k, run[k - 1]>>]]

\* Whatever the steps do, a run of them exists and stays in the set they keep.
LEMMA RunExists ==
  ASSUME NEW A, NEW from \in A, NEW n \in Nat, NEW one \in [(1..n) \X A -> A]
  PROVE  \E run \in [0..n -> A] : IsRun(run, from, n, one)
<1> DEFINE Runs(k) == {run \in [0..k -> A] :
             run[0] = from /\ \A j \in 1..k : run[j] = one[<<j, run[j - 1]>>]}
           S == {k \in Nat : k <= n => Runs(k) # {}}
<1>1. 0 \in S
  <2>1. [j \in 0..0 |-> from] \in Runs(0)
    OBVIOUS
  <2> QED BY <2>1
<1>2. ASSUME NEW k \in Nat, k \in S PROVE k + 1 \in S
  <2> SUFFICES ASSUME k + 1 <= n PROVE Runs(k + 1) # {}
    OBVIOUS
  <2>1. PICK run \in Runs(k) : TRUE
    BY <1>2
  <2> DEFINE longer == [j \in 0..(k + 1) |-> IF j <= k THEN run[j] ELSE one[<<k + 1, run[k]>>]]
  <2>2. /\ run \in [0..k -> A] /\ run[0] = from
        /\ \A j \in 1..k : run[j] = one[<<j, run[j - 1]>>]
    BY <2>1
  <2>3. one[<<k + 1, run[k]>>] \in A
    BY <2>2
  <2>4. longer \in [0..(k + 1) -> A]
    BY <2>2, <2>3
  <2>5. longer[0] = from
    BY <2>2
  <2>6. ASSUME NEW j \in 1..(k + 1) PROVE longer[j] = one[<<j, longer[j - 1]>>]
    <3>1. longer[j - 1] = run[j - 1]
      OBVIOUS
    <3>2. CASE j = k + 1
      <4>1. longer[j] = one[<<k + 1, run[k]>>] /\ run[j - 1] = run[k]
        BY <3>2
      <4> QED BY <4>1, <3>1, <3>2
    <3>3. CASE j \in 1..k
      BY <3>1, <3>3, <2>2
    <3> QED BY <3>2, <3>3
  <2> HIDE DEF longer
  <2> QED BY <2>4, <2>5, <2>6
<1> HIDE DEF S
<1>3. n \in S
  BY <1>1, <1>2, InductionOnSets
<1>4. PICK run \in Runs(n) : TRUE
  BY <1>3 DEF S
<1>5. IsRun(run, from, n, one)
  BY <1>4 DEF IsRun
<1> QED
  BY <1>4, <1>5

-------------------------------------------------------------------------------
(* 2. The sum of the changes a set of movements makes *)

Moves(q) == Len(q) \in Nat /\ \A i \in 1..Len(q) : q[i].change \in Int

Part(q, moves, n) == IF n \in moves THEN q[n].change ELSE 0

IsSum(s, q, moves) ==
    s = [n \in 0..Len(q) |-> IF n = 0 THEN 0 ELSE s[n - 1] + Part(q, moves, n)]

\* A running sum, step by step.
Steps(s, q, moves) ==
    /\ s[0] = 0
    /\ \A n \in Nat : n < Len(q) => s[n + 1] = s[n] + Part(q, moves, n + 1)
    /\ \A n \in 1..Len(q) : Part(q, moves, n) \in Int

LEMMA SumSteps ==
  ASSUME NEW q, NEW moves, Moves(q), NEW s, IsSum(s, q, moves)
  PROVE  Steps(s, q, moves)
BY DEF IsSum, Moves, Part, Steps

\* The running sums of Total exist and are integers.
LEMMA SumExists ==
  ASSUME NEW q, NEW moves, Moves(q)
  PROVE  \E s \in [0..Len(q) -> Int] : Steps(s, q, moves) /\ Total(q, moves) = s[Len(q)]
<1> USE DEF Moves
<1> DEFINE one == [x \in (1..Len(q)) \X Int |->
                     x[2] + IF x[1] \in moves THEN q[x[1]].change ELSE 0]
<1>1. one \in [(1..Len(q)) \X Int -> Int]
  OBVIOUS
<1>2. ASSUME NEW k \in 1..Len(q), NEW t \in Int
      PROVE  one[<<k, t>>] = t + IF k \in moves THEN q[k].change ELSE 0
  <2>1. <<k, t>> \in (1..Len(q)) \X Int
    OBVIOUS
  <2> QED BY <2>1
<1> HIDE DEF one
<1>3. PICK s \in [0..Len(q) -> Int] : IsRun(s, 0, Len(q), one)
  <2>1. 0 \in Int
    OBVIOUS
  <2>2. \A from, n, f : from \in Int /\ n \in Nat /\ f \in [(1..n) \X Int -> Int] =>
          \E run \in [0..n -> Int] : IsRun(run, from, n, f)
    BY RunExists
  <2> QED BY <2>1, <2>2, <1>1
<1>4. IsSum(s, q, moves)
  <2>1. \A k \in 0..Len(q) : k # 0 => k \in 1..Len(q) /\ k - 1 \in 0..Len(q)
    OBVIOUS
  <2> QED BY <1>3, <1>2, <2>1 DEF IsSum, IsRun, Part
<1> DEFINE t == CHOOSE t : IsSum(t, q, moves)
<1>5. IsSum(t, q, moves)
  BY <1>4
<1>6. Total(q, moves) = t[Len(q)]
  BY DEF Total, IsSum, Part
<1> HIDE DEF t
<1>8. Steps(t, q, moves)
  BY <1>5, SumSteps
<1>7. t \in [0..Len(q) -> Int]
  <2> DEFINE S == {n \in Nat : n <= Len(q) => t[n] \in Int}
  <2>1. 0 \in S
    BY <1>5 DEF IsSum
  <2>2. ASSUME NEW n \in Nat, n \in S PROVE n + 1 \in S
    <3> SUFFICES ASSUME n + 1 <= Len(q) PROVE t[n + 1] \in Int
      OBVIOUS
    <3>1. t[n + 1] = t[n] + Part(q, moves, n + 1) /\ Part(q, moves, n + 1) \in Int
      BY <1>8 DEF Steps
    <3> QED BY <2>2, <3>1
  <2> HIDE DEF S
  <2>3. Nat \subseteq S
    BY <2>1, <2>2, InductionOnSets
  <2>4. \A n \in 0..Len(q) : t[n] \in Int
    BY <2>3 DEF S
  <2> QED BY <2>4, <1>5 DEF IsSum
<1> QED
  BY <1>6, <1>7, <1>8

Agree(q, m, r, l, first, last) ==
    \A n \in Nat : first < n /\ n <= last => Part(q, m, n) = Part(r, l, n)

\* Two running sums stay as far apart as they are while their summands agree.
LEMMA SumsAgree ==
  ASSUME NEW q, NEW m, NEW r, NEW l, Moves(q), Moves(r), NEW d \in Int,
         NEW s \in [0..Len(q) -> Int], NEW t \in [0..Len(r) -> Int],
         Steps(s, q, m), Steps(t, r, l), NEW first \in Nat, NEW last \in Nat,
         first <= last, last <= Len(q), last <= Len(r), t[first] = s[first] + d,
         Agree(q, m, r, l, first, last)
  PROVE  t[last] = s[last] + d
<1>0. Len(q) \in Nat /\ Len(r) \in Nat
  BY DEF Moves
<1> DEFINE S == {n \in Nat : first <= n /\ n <= last => t[n] = s[n] + d}
<1>1. 0 \in S
  OBVIOUS
<1>2. ASSUME NEW n \in Nat, n \in S PROVE n + 1 \in S
  <2> SUFFICES ASSUME first <= n + 1, n + 1 <= last PROVE t[n + 1] = s[n + 1] + d
    OBVIOUS
  <2>1. CASE first = n + 1
    BY <2>1
  <2>2. CASE first <= n
    <3>1. s[n + 1] = s[n] + Part(q, m, n + 1) /\ Part(q, m, n + 1) \in Int
      BY <1>0 DEF Steps
    <3>2. t[n + 1] = t[n] + Part(r, l, n + 1)
      BY <1>0 DEF Steps
    <3>3. t[n] = s[n] + d
      BY <1>2, <2>2
    <3>4. Part(q, m, n + 1) = Part(r, l, n + 1)
      BY <2>2 DEF Agree
    <3>5. n \in 0..Len(q) /\ n \in 0..Len(r)
      BY <1>0, <2>2
    <3>6. s[n] \in Int /\ t[n] \in Int
      BY <3>5
    <3> QED BY <3>1, <3>2, <3>3, <3>4, <3>6
  <2> QED BY <2>1, <2>2
<1> HIDE DEF S
<1>3. Nat \subseteq S
  BY <1>1, <1>2, InductionOnSets
<1> QED
  BY <1>3 DEF S

LEMMA TotalTyped ==
  ASSUME NEW q, Moves(q), NEW moves
  PROVE  Total(q, moves) \in Int
<1>1. PICK s \in [0..Len(q) -> Int] : Steps(s, q, moves) /\ Total(q, moves) = s[Len(q)]
  BY SumExists
<1> QED
  BY <1>1 DEF Moves

\* Nothing moved, nothing changed.
LEMMA TotalOfNone ==
  ASSUME NEW q, Moves(q), Len(q) = 0, NEW moves
  PROVE  Total(q, moves) = 0
<1>1. PICK s \in [0..Len(q) -> Int] : Steps(s, q, moves) /\ Total(q, moves) = s[Len(q)]
  BY SumExists
<1> QED
  BY <1>1 DEF Steps

\* One movement more adds its change, once.
LEMMA TotalWithOneMore ==
  ASSUME NEW q, NEW moves, Moves(q), NEW i \in 1..Len(q), i \notin moves
  PROVE  Total(q, moves \cup {i}) = Total(q, moves) + q[i].change
<1> DEFINE more == moves \cup {i}
<1>0. Len(q) \in Nat /\ q[i].change \in Int /\ i \in Nat /\ i - 1 \in Nat
  BY DEF Moves
<1>1. PICK s \in [0..Len(q) -> Int] : Steps(s, q, moves) /\ Total(q, moves) = s[Len(q)]
  BY SumExists
<1>2. PICK t \in [0..Len(q) -> Int] : Steps(t, q, more) /\ Total(q, more) = t[Len(q)]
  BY SumExists
<1>3. t[0] = s[0] + 0
  BY <1>1, <1>2 DEF Steps
<1>4. t[i - 1] = s[i - 1] + 0
  <2>1. Agree(q, moves, q, more, 0, i - 1)
    BY <1>0 DEF Part, Agree
  <2> HIDE DEF more
  <2>2. 0 <= i - 1 /\ i - 1 <= Len(q) /\ 0 \in Int /\ 0 \in Nat
    BY <1>0
  <2> QED BY <2>1, <2>2, <1>0, <1>1, <1>2, <1>3, SumsAgree
<1>5. t[i] = s[i] + q[i].change
  <2>1. s[i - 1 + 1] = s[i - 1] + Part(q, moves, i - 1 + 1)
    <3>1. i - 1 < Len(q)
      BY <1>0
    <3>2. Steps(s, q, moves)
      BY <1>1
    <3> QED BY <3>1, <3>2, <1>0 DEF Steps
  <2>2. t[i - 1 + 1] = t[i - 1] + Part(q, more, i - 1 + 1)
    <3> HIDE DEF more
    <3>1. i - 1 < Len(q)
      BY <1>0
    <3> QED BY <3>1, <1>0, <1>2 DEF Steps
  <2>3. Part(q, moves, i) = 0 /\ Part(q, more, i) = q[i].change
    BY DEF Part
  <2>4. s[i - 1] \in Int /\ t[i - 1] \in Int /\ i - 1 + 1 = i
    BY <1>0, <1>1, <1>2
  <2> QED BY <1>0, <1>4, <2>1, <2>2, <2>3, <2>4
<1>6. t[Len(q)] = s[Len(q)] + q[i].change
  <2>1. Agree(q, moves, q, more, i, Len(q))
    BY <1>0 DEF Part, Agree
  <2> HIDE DEF more
  <2>2. i <= Len(q) /\ Len(q) <= Len(q) /\ Steps(s, q, moves) /\ Steps(t, q, more)
    BY <1>0, <1>1, <1>2
  <2>3. ASSUME NEW d \in Int, t[i] = s[i] + d PROVE t[Len(q)] = s[Len(q)] + d
    BY <2>1, <2>2, <2>3, <1>0, SumsAgree
  <2> QED BY <2>3, <1>0, <1>5
<1> QED
  BY <1>1, <1>2, <1>6

\* A longer queue has the same sum over the movements of the shorter one.
LEMMA TotalOfLonger ==
  ASSUME NEW q, NEW r, Moves(q), Moves(r), Len(q) <= Len(r),
         \A i \in 1..Len(q) : r[i].change = q[i].change,
         NEW moves, moves \subseteq 1..Len(q)
  PROVE  Total(r, moves) = Total(q, moves)
<1>0. Len(q) \in Nat /\ Len(r) \in Nat
  BY DEF Moves
<1>1. PICK s \in [0..Len(q) -> Int] : Steps(s, q, moves) /\ Total(q, moves) = s[Len(q)]
  BY SumExists
<1>2. PICK t \in [0..Len(r) -> Int] : Steps(t, r, moves) /\ Total(r, moves) = t[Len(r)]
  BY SumExists
<1>4. t[0] = s[0] + 0
  BY <1>0, <1>1, <1>2 DEF Steps
<1>5. t[Len(q)] = s[Len(q)] + 0
  <2>1. Agree(q, moves, r, moves, 0, Len(q))
    BY <1>0 DEF Part, Agree
  <2>2. 0 <= Len(q) /\ Len(q) <= Len(q) /\ 0 \in Int /\ 0 \in Nat
    BY <1>0
  <2> QED BY <2>1, <2>2, <1>0, <1>1, <1>2, <1>4, SumsAgree
<1>6. t[Len(r)] = t[Len(q)]
  <2> DEFINE S == {n \in Nat : Len(q) <= n /\ n <= Len(r) => t[n] = t[Len(q)]}
  <2>1. 0 \in S
    BY <1>0
  <2>2. ASSUME NEW n \in Nat, n \in S PROVE n + 1 \in S
    <3> SUFFICES ASSUME Len(q) <= n + 1, n + 1 <= Len(r) PROVE t[n + 1] = t[Len(q)]
      OBVIOUS
    <3>1. CASE Len(q) = n + 1
      BY <3>1
    <3>2. CASE Len(q) <= n
      <4>1. t[n + 1] = t[n] + Part(r, moves, n + 1) /\ t[n] \in Int
        BY <1>0, <1>2, <3>2 DEF Steps
      <4>2. Part(r, moves, n + 1) = 0
        BY <1>0, <3>2 DEF Part
      <4> QED BY <4>1, <4>2, <2>2, <3>2, <1>0
    <3> QED BY <1>0, <3>1, <3>2
  <2> HIDE DEF S
  <2>3. Nat \subseteq S
    BY <2>1, <2>2, InductionOnSets
  <2> QED BY <2>3, <1>0 DEF S
<1> QED
  BY <1>0, <1>1, <1>2, <1>5, <1>6

-------------------------------------------------------------------------------
(* 3. What every handler keeps, the server's pass over a batch keeps *)

\* A is any set of server states that is closed under the handlers.
Kept(A, ops) == \A a \in A, i \in 1..Len(queue) : i \in ops => Apply(a, i) \in A

LEMMA PassStays ==
  ASSUME Len(queue) \in Nat, NEW A, NEW kind, NEW from \in A, NEW ops, Kept(A, ops)
  PROVE  Pass(kind, from, ops) \in A
<1> DEFINE Turn(a, n) == IF n \in ops /\ queue[n].entity = kind THEN Apply(a, n) ELSE a
           one == [x \in (1..Len(queue)) \X A |-> Turn(x[2], x[1])]
           IsPass(run) == run = [n \in 0..Len(queue) |->
                                   IF n = 0 THEN from
                                   ELSE IF n \in ops /\ queue[n].entity = kind
                                          THEN Apply(run[n - 1], n)
                                   ELSE run[n - 1]]
<1>1. \A a \in A, n \in 1..Len(queue) : Turn(a, n) \in A
  BY DEF Kept
<1>2. one \in [(1..Len(queue)) \X A -> A]
  <2> HIDE DEF Turn
  <2> QED BY <1>1
<1>3. ASSUME NEW n \in 1..Len(queue), NEW a \in A PROVE one[<<n, a>>] = Turn(a, n)
  <2> HIDE DEF Turn
  <2>1. <<n, a>> \in (1..Len(queue)) \X A
    OBVIOUS
  <2> QED BY <2>1
<1>4. PICK s \in [0..Len(queue) -> A] : IsRun(s, from, Len(queue), one)
  <2> HIDE DEF one
  <2> QED BY <1>2, RunExists
<1>5. IsPass(s)
  <2> HIDE DEF one
  <2>1. \A n \in 0..Len(queue) : n # 0 => n \in 1..Len(queue) /\ n - 1 \in 0..Len(queue)
    OBVIOUS
  <2> QED BY <1>3, <1>4, <2>1 DEF IsRun
<1> DEFINE run == CHOOSE r : IsPass(r)
<1>6. IsPass(run)
  <2> HIDE DEF IsPass
  <2> QED BY <1>5
<1>7. Pass(kind, from, ops) = run[Len(queue)]
  BY DEF Pass
<1> HIDE DEF run
<1>8. run[0] = from /\ \A n \in Nat : n < Len(queue) => run[n + 1] = Turn(run[n], n + 1)
  BY <1>6
<1> DEFINE S == {n \in Nat : n <= Len(queue) => run[n] \in A}
<1> HIDE DEF Turn, one, IsPass
<1>9. ASSUME NEW n \in Nat, n \in S PROVE n + 1 \in S
  BY <1>1, <1>8, <1>9
<1>10. 0 \in S
  BY <1>8
<1> HIDE DEF S
<1>11. Len(queue) \in S
  BY <1>9, <1>10, InductionOnSets
<1> QED
  BY <1>7, <1>11 DEF S

LEMMA PushStays ==
  ASSUME Len(queue) \in Nat, NEW A, NEW seen, Applying(seen) \in A, NEW ops, Kept(A, ops)
  PROVE  apply_push(ops, seen) \in A
BY PassStays DEF apply_push

-------------------------------------------------------------------------------
(* 4. The inductive invariant *)

\* What a push identifies an operation by.
Key == ({"order", "order_item"} \X Order) \cup ({"stock_movement"} \X Nat)

Finding == [client : Key, cause : Cause]

LocalState == [order : [Order -> OrderStatus], qty : [Order -> Nat],
               stock : Nat, corrected : BOOLEAN]

CloudState == [order : [Order -> OrderStatus], item : SUBSET Order,
               move : SUBSET (1..Len(queue)), stock : Nat, changed : SUBSET Rows]

SightState == [order : [Order -> OrderStatus], item : SUBSET Order,
               move : SUBSET (1..Len(queue)), stock : Nat]

RequestState == [ops : SUBSET (1..Len(queue)), live : BOOLEAN, seen : SightState]

Answer == [ids : SUBSET Key, conflicts : SUBSET Finding]

PullState == [rows : SUBSET Rows, full : BOOLEAN, order : [Order -> OrderStatus],
              item : SUBSET Order, move : SUBSET (1..Len(queue)), stock : Nat]

RestState == [order : Order \cup {"none"}, from : Status \cup {"none"},
              to : Status \cup {"none"}, change : Int, stock : Nat]

OthersState == [changes : Nat, stock : Int]

CycleSteps == {"idle", "push", "replied", "pull", "ingest"}

Typed ==
    /\ local \in LocalState
    /\ queue \in Seq(QueueRow) /\ Len(queue) <= MaxOps
    /\ step \in CycleSteps /\ needFullPull \in BOOLEAN
    /\ wire \subseteq RequestState /\ reply \in Answer /\ payload \in PullState
    /\ cloud \in CloudState /\ rest \in RestState
    /\ others \in OthersState /\ effect \in [1..MaxOps -> Nat]
    /\ lost \in Int /\ overtaken \subseteq Order

\* A row of the queue is one the repositories write; only an order's operation
\* is ever refused for its transition.
Formed ==
    \A i \in 1..Len(queue) :
        /\ queue[i].entity = "order" => queue[i].order \in Order /\ queue[i].to \in Status
        /\ queue[i].entity = "order_item" => queue[i].order \in Order
        /\ queue[i].entity # "order" => queue[i].operation = "create"
        /\ queue[i].cause.reason = "invalid_transition" => queue[i].entity = "order"

Fits(conflicts) ==
    \A c \in conflicts : c.cause.reason = "invalid_transition" => c.client[1] = "order"

AnswerFits == Fits(reply.conflicts)

\* A row that a transaction has read is still there: nothing takes a row out of
\* the cloud, whatever becomes of its status.
Held(seen, c) ==
    /\ \A o \in Order : seen.order[o] # "absent" => c.order[o] # "absent"
    /\ seen.item \subseteq c.item /\ seen.move \subseteq c.move

SeenIsHeld == \A w \in wire : Held(w.seen, cloud)

\* Another user's request has been checked against what it has read.
RestFits ==
    /\ rest.stock + rest.change >= 0
    /\ rest.order # "none" => /\ Legal(rest.from, rest.to) /\ rest.change >= 0
                              /\ cloud.order[rest.order] # "absent"

\* The cloud c shows that operation i has been applied.
Took(c, i) ==
    IF queue[i].entity = "order"
      THEN IF queue[i].operation = "create" THEN c.order[queue[i].order] # "absent"
           ELSE \/ c.order[queue[i].order] = queue[i].to
                \/ c.order[queue[i].order] \in Later[queue[i].to]
    ELSE IF queue[i].entity = "order_item" THEN queue[i].order \in c.item
    ELSE i \in c.move

\* The status of an operation has been overwritten unseen.
Exempt(i, over) == IsUpdate(i) /\ queue[i].order \in over

\* An operation changed the cloud at most once, and the cloud shows it.
Once ==
    \A i \in 1..MaxOps :
        \/ effect[i] = 0
        \/ /\ i \in 1..Len(queue)
           /\ Exempt(i, overtaken) \/ (effect[i] = 1 /\ Took(cloud, i))

\* The row a key names is in the cloud c.
Present(key, c) ==
    IF key[1] = "order" THEN c.order[key[2]] # "absent"
    ELSE IF key[1] = "order_item" THEN key[2] \in c.item
    ELSE key[2] \in c.move

AnswerHolds == ~CommitFails => \A key \in reply.ids : Present(key, cloud)

Delivered == ~CommitFails => CreatesDelivered

\* The renderer waits for one request at a time: the others were abandoned.
LiveWaits ==
    /\ \A w \in wire : w.live => step = "push"
    /\ \A v, w \in wire : v.live /\ w.live => v = w

Unpulled == cloud.changed \cup IF step = "ingest" THEN payload.rows ELSE {}

AllMovesIn == \A i \in 1..Len(queue) : queue[i].entity = "stock_movement" => i \in cloud.move

\* Once the cloud has every movement and the mirror every change of stock, the
\* two agree; a discarded movement is the one way to leave that.
StockFollows ==
    InState("resolved") = {} /\ AllMovesIn /\ "stock" \notin Unpulled
        => local.stock = cloud.stock

PayloadFresh ==
    step = "ingest" /\ "stock" \in payload.rows /\ "stock" \notin cloud.changed
        => payload.stock = cloud.stock

IInv ==
    /\ Typed /\ Formed /\ AnswerFits /\ LiveWaits
    /\ SeenIsHeld /\ RestFits
    /\ Once /\ StockIsLedger
    /\ AnswerHolds /\ Delivered
    /\ StockFollows /\ PayloadFresh

-------------------------------------------------------------------------------
(* 5. The order machine *)

LEMMA Statuses ==
    /\ Status = {"pending", "confirmed", "shipped", "delivered", "cancelled"}
    /\ OrderStatus = {"absent", "pending", "confirmed", "shipped", "delivered", "cancelled"}
BY DEF Status, OrderStatus

\* A legal move is a move forward, to a status that was not passed before.
LEMMA LegalIsLater ==
  ASSUME NEW from, NEW to, Legal(from, to)
  PROVE  /\ from \in Status /\ to \in Status /\ to # from
         /\ to \in Later[from] /\ from \notin Later[to]
<1>1. from \in {"pending", "confirmed", "shipped", "delivered", "cancelled"}
  BY Statuses DEF Legal
<1> QED
  BY <1>1, Statuses DEF Legal, ALLOWED_ORDER_TRANSITIONS, Later

LEMMA LaterMoves ==
  ASSUME NEW x \in OrderStatus, NEW y \in Later[x]
  PROVE  y \in Status /\ y # "absent" /\ Later[y] \subseteq Later[x]
<1>1. x \in {"absent", "pending", "confirmed", "shipped", "delivered", "cancelled"}
  BY Statuses
<1> QED
  BY <1>1, Statuses DEF Later

\* The cloud keeps its rows, and an order moves forward unless its status was
\* overwritten unseen.
Grows(c, d, over) ==
    /\ \A o \in Order :
          \/ d.order[o] = c.order[o]
          \/ d.order[o] \in Later[c.order[o]]
          \/ o \in over /\ c.order[o] # "absent" /\ d.order[o] # "absent"
    /\ c.item \subseteq d.item /\ c.move \subseteq d.move

LEMMA GrowsTransitive ==
  ASSUME NEW b, NEW c, NEW d, NEW less, NEW over, less \subseteq over,
         \A o \in Order : b.order[o] \in OrderStatus,
         \A o \in Order : c.order[o] \in OrderStatus,
         \A o \in Order : d.order[o] \in OrderStatus,
         Grows(b, c, less), Grows(c, d, over)
  PROVE  Grows(b, d, over)
<1>1. ASSUME NEW o \in Order
      PROVE  \/ d.order[o] = b.order[o]
             \/ d.order[o] \in Later[b.order[o]]
             \/ o \in over /\ b.order[o] # "absent" /\ d.order[o] # "absent"
  <2>1. b.order[o] \in OrderStatus /\ c.order[o] \in OrderStatus /\ d.order[o] \in OrderStatus
    OBVIOUS
  <2>2. d.order[o] # "absent" => d.order[o] \in Later["absent"]
    BY <2>1, Statuses DEF Later
  <2>3. /\ \/ c.order[o] = b.order[o] \/ c.order[o] \in Later[b.order[o]]
           \/ o \in over /\ b.order[o] # "absent" /\ c.order[o] # "absent"
        /\ \/ d.order[o] = c.order[o] \/ d.order[o] \in Later[c.order[o]]
           \/ o \in over /\ c.order[o] # "absent" /\ d.order[o] # "absent"
    BY DEF Grows
  <2> QED BY <2>1, <2>2, <2>3, LaterMoves
<1> QED
  BY <1>1 DEF Grows

\* What the cloud shows of an operation, it goes on showing, unless overwritten.
LEMMA TookStays ==
  ASSUME Formed, NEW c, NEW d, NEW over, \A o \in Order : c.order[o] \in OrderStatus,
         Grows(c, d, over), NEW i \in 1..Len(queue), Took(c, i),
         queue[i].operation \in {"create", "update"}
  PROVE  Took(d, i) \/ Exempt(i, over)
<1>1. CASE queue[i].entity = "order"
  <2>1. queue[i].order \in Order /\ queue[i].to \in OrderStatus
    BY <1>1 DEF Formed, OrderStatus
  <2>2. CASE queue[i].operation = "create"
    BY <1>1, <2>1, <2>2, LaterMoves DEF Took, Grows
  <2>3. CASE queue[i].operation # "create"
    BY <1>1, <2>1, <2>3, LaterMoves DEF Took, Grows, Exempt, IsUpdate
  <2> QED BY <2>2, <2>3
<1>2. CASE queue[i].entity # "order"
  BY <1>2 DEF Took, Grows
<1> QED
  BY <1>1, <1>2

\* A row in the cloud stays there.
LEMMA PresentStays ==
  ASSUME NEW c, NEW d, NEW over, \A o \in Order : c.order[o] \in OrderStatus,
         Grows(c, d, over), NEW key \in Key, Present(key, c)
  PROVE  Present(key, d)
<1>1. CASE key[1] = "order"
  <2>1. key[2] \in Order
    BY <1>1 DEF Key
  <2> QED BY <1>1, <2>1, LaterMoves DEF Present, Grows
<1>2. CASE key[1] # "order"
  BY <1>2 DEF Present, Grows
<1> QED
  BY <1>1, <1>2

LEMMA HeldStays ==
  ASSUME NEW seen, NEW c, NEW d, NEW over, \A o \in Order : c.order[o] \in OrderStatus,
         Grows(c, d, over), Held(seen, c)
  PROVE  Held(seen, d)
<1>1. ASSUME NEW o \in Order, c.order[o] # "absent" PROVE d.order[o] # "absent"
  BY <1>1, LaterMoves DEF Grows
<1> QED
  BY <1>1 DEF Held, Grows

-------------------------------------------------------------------------------
(* 6. The server's pass over a batch *)

Server == [cloud : CloudState, seen : SightState, lost : Int, overtaken : SUBSET Order,
           ids : SUBSET Key, conflicts : SUBSET Finding, done : SUBSET (1..Len(queue))]

Ledger(a) == a.cloud.stock = Opening + others.stock + Total(queue, a.cloud.move) - a.lost

\* A change of stock is marked for the next pull.
Marked(c, d) ==
    /\ c.changed \subseteq d.changed
    /\ "stock" \in d.changed \/ (d.stock = c.stock /\ d.move = c.move)

\* An order is as the request saw it and as the cloud has it, or the pass has
\* written it: forward from what was seen, over what the cloud had.
Follows(a, seen) ==
    \A o \in Order :
        \/ a.seen.order[o] = seen.order[o] /\ a.cloud.order[o] = cloud.order[o]
        \/ /\ a.seen.order[o] \in Later[seen.order[o]] /\ a.cloud.order[o] = a.seen.order[o]
           /\ \/ seen.order[o] = cloud.order[o]
              \/ seen.order[o] # "absent" /\ o \in a.overtaken

\* What the pass has done so far, provided the rows it makes are new.
Worked(a, seen) ==
    /\ overtaken \subseteq a.overtaken
    /\ Grows(cloud, a.cloud, a.overtaken) /\ Marked(cloud, a.cloud) /\ Ledger(a)
    /\ Held(a.seen, a.cloud) /\ a.cloud.move \subseteq cloud.move \cup a.seen.move
    /\ Follows(a, seen)
    /\ \A key \in a.ids : Present(key, a.cloud)
    /\ Fits(a.conflicts)
    /\ \A i \in a.done : Exempt(i, a.overtaken) \/ (Took(a.cloud, i) /\ ~Took(cloud, i))

Served(seen) == {a \in Server : Unique(a) => Worked(a, seen)}

LEMMA QueueTyped ==
  ASSUME Typed
  PROVE  /\ Len(queue) \in Nat /\ MaxOps \in Nat /\ DOMAIN queue = 1..Len(queue)
         /\ \A i \in 1..Len(queue) : queue[i] \in QueueRow
         /\ \A i \in 1..Len(queue) : queue[i].operation \in {"create", "update"}
         /\ Moves(queue)
<1>1. /\ Len(queue) \in Nat /\ MaxOps \in Nat /\ DOMAIN queue = 1..Len(queue)
      /\ \A i \in 1..Len(queue) : queue[i] \in QueueRow
  BY SyncAssumption DEF Typed
<1>2. Moves(queue)
  BY <1>1 DEF Moves, QueueRow
<1>3. \A i \in 1..Len(queue) : queue[i].operation \in {"create", "update"}
  BY <1>1 DEF QueueRow
<1> QED
  BY <1>1, <1>2, <1>3

LEMMA ClientTyped ==
  ASSUME Typed, Formed, NEW i \in 1..Len(queue)
  PROVE  /\ Client(i) \in Key
         /\ Client(i)[1] = queue[i].entity
         /\ queue[i].entity = "order" => Client(i)[2] = queue[i].order
         /\ queue[i].entity = "order_item" => Client(i)[2] = queue[i].order
         /\ queue[i].entity = "stock_movement" => Client(i)[2] = i
<1>1. /\ queue[i] \in QueueRow
      /\ queue[i].entity = "order" => queue[i].order \in Order
      /\ queue[i].entity = "order_item" => queue[i].order \in Order
  BY QueueTyped DEF Formed
<1>2. queue[i].entity \in {"order", "order_item", "stock_movement"}
  BY <1>1 DEF QueueRow
<1> QED
  BY <1>1, <1>2 DEF Client, Key

\* Typing says where the invariant's other parts may look.
LEMMA CloudTyped ==
  ASSUME Typed
  PROVE  /\ cloud \in CloudState /\ cloud.order \in [Order -> OrderStatus]
         /\ \A o \in Order : cloud.order[o] \in OrderStatus
         /\ cloud.item \subseteq Order /\ cloud.move \subseteq 1..Len(queue)
         /\ cloud.stock \in Nat /\ cloud.changed \subseteq Rows
BY DEF Typed, CloudState

LEMMA ApplyingServed ==
  ASSUME Typed, StockIsLedger, NEW seen \in SightState, Held(seen, cloud)
  PROVE  Applying(seen) \in Served(seen)
<1>1. Applying(seen) \in Server
  BY DEF Applying, Server, Typed
<1>2. Worked(Applying(seen), seen)
  BY DEF Applying, Worked, Grows, Marked, Ledger, StockIsLedger, Fits, Follows
<1> QED
  BY <1>1, <1>2 DEF Served

LEMMA CloudFields ==
  ASSUME NEW c \in CloudState
  PROVE  c = [order |-> c.order, item |-> c.item, move |-> c.move, stock |-> c.stock,
              changed |-> c.changed]
BY DEF CloudState

LEMMA SightFields ==
  ASSUME NEW s \in SightState
  PROVE  s = [order |-> s.order, item |-> s.item, move |-> s.move, stock |-> s.stock]
BY DEF SightState

LEMMA ServerFields ==
  ASSUME NEW a \in Server
  PROVE  a = [cloud |-> a.cloud, seen |-> a.seen, lost |-> a.lost, overtaken |-> a.overtaken,
              ids |-> a.ids, conflicts |-> a.conflicts, done |-> a.done]
BY DEF Server

LEMMA SkipFields ==
  ASSUME NEW a \in Server, NEW i
  PROVE  Skip(a, i) = [cloud |-> a.cloud, seen |-> a.seen, lost |-> a.lost,
                       overtaken |-> a.overtaken, ids |-> a.ids \cup {Client(i)},
                       conflicts |-> a.conflicts, done |-> a.done]
<1>1. a = [cloud |-> a.cloud, seen |-> a.seen, lost |-> a.lost, overtaken |-> a.overtaken,
           ids |-> a.ids, conflicts |-> a.conflicts, done |-> a.done]
  BY ServerFields
<1>2. Skip(a, i) = [a EXCEPT !.ids = a.ids \cup {Client(i)}]
  BY DEF Skip
<1> QED
  BY <1>1, <1>2

LEMMA AppliedFields ==
  ASSUME NEW a \in Server, NEW i
  PROVE  Applied(a, i) = [cloud |-> a.cloud, seen |-> a.seen, lost |-> a.lost,
                          overtaken |-> a.overtaken, ids |-> a.ids \cup {Client(i)},
                          conflicts |-> a.conflicts, done |-> a.done \cup {i}]
<1> DEFINE b == Skip(a, i)
           ids == a.ids \cup {Client(i)}
           done == a.done \cup {i}
<1>1. b = [cloud |-> a.cloud, seen |-> a.seen, lost |-> a.lost,
           overtaken |-> a.overtaken, ids |-> ids, conflicts |-> a.conflicts, done |-> a.done]
  BY SkipFields
<1>2. Applied(a, i) = [b EXCEPT !.done = b.done \cup {i}]
  BY DEF Applied
<1> HIDE DEF b, ids
<1>3. b.done \cup {i} = done
  BY <1>1
<1> HIDE DEF done
<1>4. Applied(a, i) = [cloud |-> a.cloud, seen |-> a.seen, lost |-> a.lost,
           overtaken |-> a.overtaken, ids |-> ids, conflicts |-> a.conflicts, done |-> done]
  BY <1>1, <1>2, <1>3
<1> QED
  BY <1>4 DEF ids, done

\* What holds of a pass whose rows are new held of it one operation before.
LEMMA UniqueBefore ==
  ASSUME NEW a, NEW b, a.done \subseteq b.done, Unique(b)
  PROVE  Unique(a)
BY DEF Unique

\* Acknowledging an operation that was seen in the cloud.
LEMMA SkipServed ==
  ASSUME Typed, Formed, NEW seen, NEW a \in Served(seen), NEW i \in 1..Len(queue),
         Unique(a) => Present(Client(i), a.cloud)
  PROVE  Skip(a, i) \in Served(seen)
<1>1. Client(i) \in Key
  BY ClientTyped
<1>2. Skip(a, i) = [cloud |-> a.cloud, seen |-> a.seen, lost |-> a.lost,
                    overtaken |-> a.overtaken, ids |-> a.ids \cup {Client(i)},
                    conflicts |-> a.conflicts, done |-> a.done]
  BY SkipFields DEF Served
<1>3. Skip(a, i) \in Server
  BY <1>1, <1>2 DEF Served, Server
<1>4. ASSUME Unique(Skip(a, i)) PROVE Worked(Skip(a, i), seen)
  <2>1. Unique(a)
    BY <1>2, <1>4, UniqueBefore
  <2>2. Worked(a, seen)
    BY <2>1 DEF Served
  <2> QED BY <1>2, <2>1, <2>2 DEF Worked, Ledger, Follows
<1> QED
  BY <1>3, <1>4 DEF Served

\* Refusing an operation changes nothing in the cloud.
LEMMA ConflictServed ==
  ASSUME Typed, Formed, NEW seen, NEW a \in Served(seen), NEW i \in 1..Len(queue),
         NEW reason \in {"not_found", "invalid_transition", "insufficient_stock"},
         reason = "invalid_transition" =>
            queue[i].entity = "order" /\ a.seen.order[queue[i].order] \in Status
  PROVE  Conflict(a, i, reason) \in Served(seen)
<1> DEFINE found == [client |-> Client(i),
                     cause |-> [reason |-> reason,
                                status |-> IF reason = "invalid_transition"
                                             THEN a.seen.order[queue[i].order] ELSE "none",
                                stock |-> IF reason = "insufficient_stock"
                                            THEN a.seen.stock ELSE 0]]
           kept == {c \in a.conflicts : c.client # Client(i)}
<1>1. a.seen.stock \in Nat /\ Client(i) \in Key /\ Client(i)[1] = queue[i].entity
  BY ClientTyped DEF Served, Server, SightState
<1>2. found \in Finding
  BY <1>1 DEF Finding, Cause
<1>3. found.cause.reason = "invalid_transition" => found.client[1] = "order"
  BY <1>1
<1>4. Conflict(a, i, reason) = [cloud |-> a.cloud, seen |-> a.seen, lost |-> a.lost,
                                overtaken |-> a.overtaken, ids |-> a.ids,
                                conflicts |-> kept \cup {found}, done |-> a.done]
  <2>1. a \in Server
    BY DEF Served
  <2>2. a = [cloud |-> a.cloud, seen |-> a.seen, lost |-> a.lost, overtaken |-> a.overtaken,
             ids |-> a.ids, conflicts |-> a.conflicts, done |-> a.done]
    BY <2>1, ServerFields
  <2>3. Conflict(a, i, reason) = [a EXCEPT !.conflicts = kept \cup {found}]
    BY DEF Conflict
  <2> HIDE DEF found, kept
  <2> QED BY <2>2, <2>3
<1> HIDE DEF found
<1>5. Conflict(a, i, reason) \in Server
  BY <1>2, <1>4 DEF Served, Server
<1>6. ASSUME Unique(Conflict(a, i, reason)) PROVE Worked(Conflict(a, i, reason), seen)
  <2>1. Unique(a)
    BY <1>4, <1>6, UniqueBefore
  <2>2. Worked(a, seen)
    BY <2>1 DEF Served
  <2>3. Fits(kept \cup {found})
    BY <1>3, <2>2 DEF Worked, Fits
  <2> QED BY <1>4, <2>2, <2>3 DEF Worked, Ledger, Follows
<1> QED
  BY <1>5, <1>6 DEF Served

\* Applying an operation: b is the pass after it.
LEMMA AppliedServed ==
  ASSUME Typed, Formed, NEW seen, NEW a \in Served(seen), NEW i \in 1..Len(queue),
         NEW b \in Server, b.ids = a.ids \cup {Client(i)}, b.conflicts = a.conflicts,
         b.done = a.done \cup {i}, a.overtaken \subseteq b.overtaken,
         Marked(a.cloud, b.cloud),
         Unique(b) /\ Worked(a, seen) =>
            /\ Grows(a.cloud, b.cloud, b.overtaken) /\ Ledger(b)
            /\ Held(b.seen, b.cloud) /\ b.cloud.move \subseteq cloud.move \cup b.seen.move
            /\ Follows(b, seen) /\ Present(Client(i), b.cloud)
            /\ Exempt(i, b.overtaken) \/ (Took(b.cloud, i) /\ ~Took(cloud, i))
  PROVE  b \in Served(seen)
<1> SUFFICES ASSUME Unique(b) PROVE Worked(b, seen)
  BY DEF Served
<1>1. Unique(a)
  BY UniqueBefore
<1>2. Worked(a, seen) /\ a \in Server
  BY <1>1 DEF Served
<1>3. /\ Grows(a.cloud, b.cloud, b.overtaken) /\ Ledger(b)
      /\ Held(b.seen, b.cloud) /\ b.cloud.move \subseteq cloud.move \cup b.seen.move
      /\ Follows(b, seen) /\ Present(Client(i), b.cloud)
      /\ Exempt(i, b.overtaken) \/ (Took(b.cloud, i) /\ ~Took(cloud, i))
  BY <1>2
<1>4. /\ \A o \in Order : cloud.order[o] \in OrderStatus
      /\ \A o \in Order : a.cloud.order[o] \in OrderStatus
      /\ \A o \in Order : b.cloud.order[o] \in OrderStatus
  BY <1>2, CloudTyped DEF CloudState, Server
<1>5. Grows(cloud, b.cloud, b.overtaken) /\ overtaken \subseteq b.overtaken
  BY <1>2, <1>3, <1>4, GrowsTransitive DEF Worked
<1>6. Marked(cloud, b.cloud)
  BY <1>2 DEF Worked, Marked
<1>7. \A key \in b.ids : Present(key, b.cloud)
  <2>1. ASSUME NEW key \in a.ids PROVE Present(key, b.cloud)
    <3>1. key \in Key /\ Present(key, a.cloud)
      BY <1>2 DEF Server, Worked
    <3> QED BY <3>1, <1>3, <1>4, PresentStays
  <2> QED BY <2>1, <1>3
<1>8. ASSUME NEW j \in b.done
      PROVE  Exempt(j, b.overtaken) \/ (Took(b.cloud, j) /\ ~Took(cloud, j))
  <2>1. CASE j = i
    BY <1>3, <2>1
  <2>2. CASE j \in a.done
    <3>1. /\ j \in 1..Len(queue) /\ queue[j].operation \in {"create", "update"}
          /\ Exempt(j, a.overtaken) \/ (Took(a.cloud, j) /\ ~Took(cloud, j))
      BY <1>2, <2>2, QueueTyped DEF Server, Worked
    <3>2. Exempt(j, a.overtaken) => Exempt(j, b.overtaken)
      BY DEF Exempt
    <3>3. Took(a.cloud, j) => Took(b.cloud, j) \/ Exempt(j, b.overtaken)
      BY <1>3, <1>4, <3>1, TookStays
    <3> QED BY <3>1, <3>2, <3>3
  <2> QED BY <2>1, <2>2
<1>9. Fits(b.conflicts)
  BY <1>2 DEF Worked
<1> QED
  BY <1>3, <1>5, <1>6, <1>7, <1>8, <1>9 DEF Worked

\* What a status written over another makes of the pass.
LEMMA WriteOrderFields ==
  ASSUME Typed, Formed, NEW a \in Server, NEW i \in 1..Len(queue),
         NEW o \in Order, o = queue[i].order,
         NEW x, x = queue[i].to, x \in Status
  PROVE  \E b \in Server :
            /\ b = WriteOrder(a, i)
            /\ b.cloud.order = [a.cloud.order EXCEPT ![o] = x]
            /\ b.cloud.item = a.cloud.item /\ b.cloud.move = a.cloud.move
            /\ b.cloud.stock = a.cloud.stock /\ b.cloud.changed = a.cloud.changed \cup {o}
            /\ b.seen.order = [a.seen.order EXCEPT ![o] = x]
            /\ b.seen.item = a.seen.item /\ b.seen.move = a.seen.move
            /\ b.seen.stock = a.seen.stock
            /\ b.lost = a.lost
            /\ b.overtaken = a.overtaken \cup
                  (IF a.seen.order[o] = a.cloud.order[o] THEN {} ELSE {o})
            /\ b.ids = a.ids \cup {Client(i)} /\ b.conflicts = a.conflicts
            /\ b.done = a.done \cup {i}
<1> DEFINE unseen == IF a.seen.order[o] = a.cloud.order[o] THEN {} ELSE {o}
           over == a.overtaken \cup unseen
           f == [a.cloud.order EXCEPT ![o] = x]
           g == [a.seen.order EXCEPT ![o] = x]
           rows == a.cloud.changed \cup {o}
           c == [order |-> f, item |-> a.cloud.item, move |-> a.cloud.move,
                 stock |-> a.cloud.stock, changed |-> rows]
           s == [order |-> g, item |-> a.seen.item, move |-> a.seen.move, stock |-> a.seen.stock]
           d == [cloud |-> c, seen |-> s, lost |-> a.lost, overtaken |-> over,
                 ids |-> a.ids, conflicts |-> a.conflicts, done |-> a.done]
           w == [a EXCEPT !.cloud.order[o] = x, !.cloud.changed = @ \cup {o},
                          !.seen.order[o] = x, !.overtaken = @ \cup unseen]
<1>1. /\ a.cloud \in CloudState /\ a.seen \in SightState /\ a.overtaken \subseteq Order
      /\ a.cloud.order \in [Order -> OrderStatus] /\ a.seen.order \in [Order -> OrderStatus]
  BY DEF Server, CloudState, SightState
<1>2. f \in [Order -> OrderStatus] /\ g \in [Order -> OrderStatus]
  BY <1>1, Statuses
<1>3. rows \subseteq Rows /\ over \subseteq Order
  BY <1>1 DEF Rows, CloudState
<1>4. w = d
  <2>1. a.cloud = [order |-> a.cloud.order, item |-> a.cloud.item, move |-> a.cloud.move,
                   stock |-> a.cloud.stock, changed |-> a.cloud.changed]
    BY <1>1, CloudFields
  <2>2. a.seen = [order |-> a.seen.order, item |-> a.seen.item, move |-> a.seen.move,
                  stock |-> a.seen.stock]
    BY <1>1, SightFields
  <2>3. a = [cloud |-> a.cloud, seen |-> a.seen, lost |-> a.lost, overtaken |-> a.overtaken,
             ids |-> a.ids, conflicts |-> a.conflicts, done |-> a.done]
    BY ServerFields
  <2>4. c = [a.cloud EXCEPT !.order[o] = x, !.changed = @ \cup {o}]
    <3>1. [a.cloud EXCEPT !.order[o] = x] = [a.cloud EXCEPT !.order = f]
      BY <2>1
    <3>2. [a.cloud EXCEPT !.order[o] = x, !.changed = @ \cup {o}]
            = [[a.cloud EXCEPT !.order[o] = x] EXCEPT !.changed = rows]
      OBVIOUS
    <3> DEFINE m == [a.cloud EXCEPT !.order = f]
    <3> HIDE DEF f, rows
    <3>3. m =
            [order |-> f, item |-> a.cloud.item, move |-> a.cloud.move,
             stock |-> a.cloud.stock, changed |-> a.cloud.changed]
      BY <2>1
    <3> HIDE DEF m
    <3>4. [m EXCEPT !.changed = rows] = c
      BY <3>3
    <3> QED BY <3>1, <3>2, <3>4 DEF m
  <2>5. s = [a.seen EXCEPT !.order[o] = x]
    <3>1. [a.seen EXCEPT !.order[o] = x] = [a.seen EXCEPT !.order = g]
      BY <2>2
    <3> HIDE DEF g
    <3> QED BY <2>2, <3>1
  <2>6. w = [a EXCEPT !.cloud = [a.cloud EXCEPT !.order[o] = x, !.changed = @ \cup {o}],
                      !.seen = [a.seen EXCEPT !.order[o] = x], !.overtaken = over]
    <3> HIDE DEF unseen
    <3> QED BY <2>3
  <2>7. w = [a EXCEPT !.cloud = c, !.seen = s, !.overtaken = over]
    <3> HIDE DEF w, c, s, over
    <3> QED BY <2>4, <2>5, <2>6
  <2> HIDE DEF w, c, s, over
  <2> QED BY <2>3, <2>7
<1>5. c \in CloudState /\ s \in SightState
  <2> HIDE DEF f, g, rows
  <2> QED BY <1>1, <1>2, <1>3 DEF CloudState, SightState
<1>6. d \in Server
  <2> HIDE DEF c, s, over
  <2> QED BY <1>3, <1>5 DEF Server
<1>7. PICK b : b = Applied(d, i)
  OBVIOUS
<1>8. b = WriteOrder(a, i)
  <2>1. WriteOrder(a, i) = Applied(w, i)
    BY DEF WriteOrder
  <2> HIDE DEF w, d
  <2> QED BY <1>4, <1>7, <2>1
<1>9. b = [cloud |-> c, seen |-> s, lost |-> a.lost, overtaken |-> over,
           ids |-> a.ids \cup {Client(i)}, conflicts |-> a.conflicts, done |-> a.done \cup {i}]
  <2> HIDE DEF c, s, over
  <2> QED BY <1>6, <1>7, AppliedFields
<1>10. b \in Server
  <2>1. Client(i) \in Key
    BY ClientTyped
  <2> HIDE DEF c, s, over
  <2> QED BY <1>3, <1>5, <1>9, <2>1 DEF Server
<1> QED
  BY <1>8, <1>9, <1>10

\* A status written as _apply_order writes it: an order that was not seen, or a
\* legal move from the status that was.
LEMMA OrderWritten ==
  ASSUME Typed, Formed, NEW seen \in SightState, NEW a \in Served(seen),
         NEW i \in 1..Len(queue), queue[i].entity = "order", NEW o, o = queue[i].order,
         IF queue[i].operation = "create" THEN a.seen.order[o] = "absent"
         ELSE Legal(a.seen.order[o], queue[i].to)
  PROVE  WriteOrder(a, i) \in Served(seen)
<1>1. PICK x : x = queue[i].to
  OBVIOUS
<1>2. /\ o \in Order /\ x \in Status /\ a \in Server
      /\ queue[i].operation \in {"create", "update"}
  BY <1>1, QueueTyped DEF Formed, Served
<1>3. PICK b \in Server :
        /\ b = WriteOrder(a, i)
        /\ b.cloud.order = [a.cloud.order EXCEPT ![o] = x]
        /\ b.cloud.item = a.cloud.item /\ b.cloud.move = a.cloud.move
        /\ b.cloud.stock = a.cloud.stock /\ b.cloud.changed = a.cloud.changed \cup {o}
        /\ b.seen.order = [a.seen.order EXCEPT ![o] = x]
        /\ b.seen.item = a.seen.item /\ b.seen.move = a.seen.move
        /\ b.seen.stock = a.seen.stock
        /\ b.lost = a.lost
        /\ b.overtaken = a.overtaken \cup
              (IF a.seen.order[o] = a.cloud.order[o] THEN {} ELSE {o})
        /\ b.ids = a.ids \cup {Client(i)} /\ b.conflicts = a.conflicts
        /\ b.done = a.done \cup {i}
  BY <1>1, <1>2, WriteOrderFields
<1>4. /\ a.cloud.order \in [Order -> OrderStatus] /\ a.seen.order \in [Order -> OrderStatus]
      /\ seen.order \in [Order -> OrderStatus] /\ seen.order[o] \in OrderStatus
      /\ \A p \in Order : cloud.order[p] \in OrderStatus
  BY <1>2, CloudTyped DEF Server, CloudState, SightState
<1>5. x # "absent" /\ x \in Later["absent"]
  BY <1>2 DEF Later, Status
<1>6. /\ a.overtaken \subseteq b.overtaken /\ Marked(a.cloud, b.cloud)
      /\ b.cloud.order[o] = x /\ b.seen.order[o] = x
      /\ \A p \in Order \ {o} : /\ b.cloud.order[p] = a.cloud.order[p]
                                /\ b.seen.order[p] = a.seen.order[p]
  BY <1>2, <1>3, <1>4 DEF Marked
<1>7. ASSUME Unique(b), Worked(a, seen)
      PROVE  /\ Grows(a.cloud, b.cloud, b.overtaken) /\ Ledger(b)
             /\ Held(b.seen, b.cloud) /\ b.cloud.move \subseteq cloud.move \cup b.seen.move
             /\ Follows(b, seen) /\ Present(Client(i), b.cloud)
             /\ Exempt(i, b.overtaken) \/ (Took(b.cloud, i) /\ ~Took(cloud, i))
  <2>1. /\ Ledger(a) /\ Held(a.seen, a.cloud) /\ a.cloud.move \subseteq cloud.move \cup a.seen.move
        /\ Follows(a, seen) /\ Grows(cloud, a.cloud, a.overtaken)
    BY <1>7 DEF Worked
  <2>2. \/ a.seen.order[o] = seen.order[o] /\ a.cloud.order[o] = cloud.order[o]
        \/ /\ a.seen.order[o] \in Later[seen.order[o]] /\ a.cloud.order[o] = a.seen.order[o]
           /\ \/ seen.order[o] = cloud.order[o]
              \/ seen.order[o] # "absent" /\ o \in a.overtaken
    BY <1>2, <2>1 DEF Follows
  <2>3. Ledger(b) /\ b.cloud.move \subseteq cloud.move \cup b.seen.move
    BY <1>3, <2>1 DEF Ledger
  <2>4. Held(b.seen, b.cloud)
    BY <1>3, <1>5, <1>6, <2>1 DEF Held
  <2>5. Present(Client(i), b.cloud)
    BY <1>5, <1>6, ClientTyped DEF Present
  <2>6. /\ x \in Later[a.cloud.order[o]] \/ (o \in b.overtaken /\ a.cloud.order[o] # "absent")
        /\ x \in Later[seen.order[o]]
        /\ seen.order[o] = cloud.order[o] \/ (seen.order[o] # "absent" /\ o \in b.overtaken)
        /\ Exempt(i, b.overtaken) \/ (Took(b.cloud, i) /\ ~Took(cloud, i))
    <3>1. CASE queue[i].operation = "create"
      <4>1. a.seen.order[o] = "absent" /\ a.seen.order[o] \notin Later[seen.order[o]]
        BY <1>4, <3>1, LaterMoves
      <4>2. seen.order[o] = "absent" /\ a.cloud.order[o] = cloud.order[o]
        BY <2>2, <4>1
      <4>3. cloud.order[o] = "absent"
        BY <1>3, <1>7, <3>1 DEF Unique, InCloud
      <4>4. Took(b.cloud, i) /\ ~Took(cloud, i)
        BY <1>5, <1>6, <3>1, <4>3 DEF Took
      <4> QED BY <1>5, <4>2, <4>3, <4>4
    <3>2. CASE queue[i].operation = "update"
      <4>1. /\ a.seen.order[o] \in Status /\ a.seen.order[o] # "absent"
            /\ x \in Later[a.seen.order[o]] /\ x # a.seen.order[o]
            /\ a.seen.order[o] \notin Later[x]
        BY <1>1, <3>2, LegalIsLater DEF Status
      <4>2. a.cloud.order[o] # "absent"
        BY <1>2, <2>1, <4>1 DEF Held
      <4>3. x \in Later[seen.order[o]]
        BY <1>4, <2>2, <4>1, LaterMoves
      <4>4. Took(b.cloud, i)
        BY <1>1, <1>6, <3>2 DEF Took
      <4>5. CASE a.seen.order[o] = a.cloud.order[o]
        <5>1. ~Took(a.cloud, i)
          BY <1>1, <3>2, <4>1, <4>5 DEF Took
        <5>2. Took(cloud, i) => Exempt(i, a.overtaken)
          BY <1>2, <1>4, <2>1, <5>1, TookStays
        <5>3. Exempt(i, a.overtaken) => Exempt(i, b.overtaken)
          BY <1>6 DEF Exempt
        <5> QED BY <1>6, <2>2, <4>1, <4>3, <4>4, <4>5, <5>2, <5>3
      <4>6. CASE a.seen.order[o] # a.cloud.order[o]
        <5>1. o \in b.overtaken
          BY <1>3, <4>6
        <5>2. Exempt(i, b.overtaken)
          BY <3>2, <5>1 DEF Exempt, IsUpdate
        <5>3. seen.order[o] # "absent"
          BY <2>2, <4>1, <4>6
        <5> QED BY <4>2, <4>3, <5>1, <5>2, <5>3
      <4> QED BY <4>5, <4>6
    <3> QED BY <1>2, <3>1, <3>2
  <2>7. Grows(a.cloud, b.cloud, b.overtaken)
    <3>1. ASSUME NEW p \in Order
          PROVE  \/ b.cloud.order[p] = a.cloud.order[p]
                 \/ b.cloud.order[p] \in Later[a.cloud.order[p]]
                 \/ p \in b.overtaken /\ a.cloud.order[p] # "absent" /\ b.cloud.order[p] # "absent"
      <4>1. CASE p = o
        BY <1>5, <1>6, <2>6, <4>1
      <4>2. CASE p # o
        BY <1>6, <4>2
      <4> QED BY <4>1, <4>2
    <3> QED BY <1>3, <3>1 DEF Grows
  <2>8. Follows(b, seen)
    <3> SUFFICES ASSUME NEW p \in Order
          PROVE  \/ b.seen.order[p] = seen.order[p] /\ b.cloud.order[p] = cloud.order[p]
                 \/ /\ b.seen.order[p] \in Later[seen.order[p]]
                    /\ b.cloud.order[p] = b.seen.order[p]
                    /\ \/ seen.order[p] = cloud.order[p]
                       \/ seen.order[p] # "absent" /\ p \in b.overtaken
      BY DEF Follows
    <3>1. CASE p = o
      BY <1>6, <2>6, <3>1
    <3>2. CASE p # o
      <4>1. b.seen.order[p] = a.seen.order[p] /\ b.cloud.order[p] = a.cloud.order[p]
        BY <1>6, <3>2
      <4> QED BY <1>6, <2>1, <4>1 DEF Follows
    <3> QED BY <3>1, <3>2
  <2> QED BY <2>3, <2>4, <2>5, <2>6, <2>7, <2>8
<1>8. b \in Served(seen)
  BY <1>3, <1>6, <1>7, AppliedServed
<1> QED
  BY <1>3, <1>8

\* A row that the pass has seen is in the cloud.
LEMMA SeenIsPresent ==
  ASSUME Typed, Formed, NEW seen, NEW a \in Served(seen), NEW i \in 1..Len(queue),
         Present(Client(i), a.seen), Unique(a)
  PROVE  Present(Client(i), a.cloud)
<1>1. Held(a.seen, a.cloud) /\ Client(i) \in Key
  BY ClientTyped DEF Served, Worked
<1>2. Client(i)[1] = "order" => Client(i)[2] \in Order
  BY <1>1 DEF Key
<1> QED
  BY <1>1, <1>2 DEF Held, Present

\* _apply_order: written when absent or on a legal move, acknowledged when the
\* cloud is there already, refused otherwise.
LEMMA OrderServed ==
  ASSUME Typed, Formed, NEW seen \in SightState, NEW a \in Served(seen),
         NEW i \in 1..Len(queue), queue[i].entity = "order"
  PROVE  _apply_order(a, i) \in Served(seen)
<1> DEFINE op == queue[i]
           current == a.seen.order[op.order]
<1>1. /\ op.order \in Order /\ op.operation \in {"create", "update"} /\ a \in Server
      /\ a.seen.order \in [Order -> OrderStatus] /\ current \in OrderStatus
  BY QueueTyped DEF Formed, Served, Server, SightState
<1>2. Client(i)[1] = "order" /\ Client(i)[2] = op.order
  BY ClientTyped
<1>4. ASSUME current # "absent" PROVE Skip(a, i) \in Served(seen)
  <2>1. Present(Client(i), a.seen)
    BY <1>2, <1>4 DEF Present
  <2> QED BY <2>1, SeenIsPresent, SkipServed
<1>5. current # "absent" => current \in Status
  BY <1>1, Statuses
<1>7. CASE op.operation = "create" /\ current = "absent"
  <2>1. WriteOrder(a, i) \in Served(seen)
    BY <1>7, OrderWritten
  <2> QED BY <1>7, <2>1 DEF _apply_order
<1>8. CASE op.operation = "create" /\ current # "absent"
  BY <1>4, <1>8 DEF _apply_order
<1>9. CASE op.operation # "create" /\ current = "absent"
  <2>1. Conflict(a, i, "not_found") \in Served(seen)
    BY ConflictServed
  <2> QED BY <1>9, <2>1 DEF _apply_order
<1>10. CASE op.operation # "create" /\ current # "absent" /\ op.to = current
  BY <1>4, <1>10 DEF _apply_order
<1>11. CASE op.operation # "create" /\ current # "absent" /\ op.to # current /\ Legal(current, op.to)
  <2>1. WriteOrder(a, i) \in Served(seen)
    BY <1>11, OrderWritten
  <2> QED BY <1>11, <2>1 DEF _apply_order
<1>12. CASE op.operation # "create" /\ current # "absent" /\ op.to # current /\ ~Legal(current, op.to)
  <2>1. Conflict(a, i, "invalid_transition") \in Served(seen)
    BY <1>5, <1>12, ConflictServed
  <2> QED BY <1>12, <2>1 DEF _apply_order
<1> QED
  BY <1>7, <1>8, <1>9, <1>10, <1>11, <1>12

LEMMA WriteItemFields ==
  ASSUME Typed, Formed, NEW a \in Server, NEW i \in 1..Len(queue),
         NEW o \in Order, o = queue[i].order
  PROVE  \E b \in Server :
            /\ b = WriteItem(a, i)
            /\ b.cloud = [order |-> a.cloud.order, item |-> a.cloud.item \cup {o},
                          move |-> a.cloud.move, stock |-> a.cloud.stock,
                          changed |-> a.cloud.changed]
            /\ b.seen = [order |-> a.seen.order, item |-> a.seen.item \cup {o},
                         move |-> a.seen.move, stock |-> a.seen.stock]
            /\ b.lost = a.lost /\ b.overtaken = a.overtaken
            /\ b.ids = a.ids \cup {Client(i)} /\ b.conflicts = a.conflicts
            /\ b.done = a.done \cup {i}
<1> DEFINE items == a.cloud.item \cup {o}
           sight == a.seen.item \cup {o}
           c == [order |-> a.cloud.order, item |-> items, move |-> a.cloud.move,
                 stock |-> a.cloud.stock, changed |-> a.cloud.changed]
           s == [order |-> a.seen.order, item |-> sight, move |-> a.seen.move,
                 stock |-> a.seen.stock]
           d == [cloud |-> c, seen |-> s, lost |-> a.lost, overtaken |-> a.overtaken,
                 ids |-> a.ids, conflicts |-> a.conflicts, done |-> a.done]
           w == [a EXCEPT !.cloud.item = @ \cup {o}, !.seen.item = @ \cup {o}]
<1>1. a.cloud \in CloudState /\ a.seen \in SightState
  BY DEF Server
<1>2. items \subseteq Order /\ sight \subseteq Order
  BY <1>1 DEF CloudState, SightState
<1>3. w = d
  <2>1. a.cloud = [order |-> a.cloud.order, item |-> a.cloud.item, move |-> a.cloud.move,
                   stock |-> a.cloud.stock, changed |-> a.cloud.changed]
    BY <1>1, CloudFields
  <2>2. a.seen = [order |-> a.seen.order, item |-> a.seen.item, move |-> a.seen.move,
                  stock |-> a.seen.stock]
    BY <1>1, SightFields
  <2>3. a = [cloud |-> a.cloud, seen |-> a.seen, lost |-> a.lost, overtaken |-> a.overtaken,
             ids |-> a.ids, conflicts |-> a.conflicts, done |-> a.done]
    BY ServerFields
  <2>4. w = [a EXCEPT !.cloud = [a.cloud EXCEPT !.item = items],
                      !.seen = [a.seen EXCEPT !.item = sight]]
    BY <2>3
  <2>5. c = [a.cloud EXCEPT !.item = items]
    <3> HIDE DEF items
    <3> QED BY <2>1
  <2>6. s = [a.seen EXCEPT !.item = sight]
    <3> HIDE DEF sight
    <3> QED BY <2>2
  <2> HIDE DEF w, c, s
  <2>7. w = [a EXCEPT !.cloud = c, !.seen = s]
    BY <2>4, <2>5, <2>6
  <2> QED BY <2>3, <2>7
<1>4. c \in CloudState /\ s \in SightState
  <2> HIDE DEF items, sight
  <2> QED BY <1>1, <1>2 DEF CloudState, SightState
<1>5. d \in Server
  <2> HIDE DEF c, s
  <2> QED BY <1>4 DEF Server
<1>6. PICK b : b = Applied(d, i)
  OBVIOUS
<1>7. b = WriteItem(a, i)
  <2>1. WriteItem(a, i) = Applied(w, i)
    BY DEF WriteItem
  <2> HIDE DEF w, d
  <2> QED BY <1>3, <1>6, <2>1
<1>8. b = [cloud |-> c, seen |-> s, lost |-> a.lost, overtaken |-> a.overtaken,
           ids |-> a.ids \cup {Client(i)}, conflicts |-> a.conflicts, done |-> a.done \cup {i}]
  <2> HIDE DEF c, s
  <2> QED BY <1>5, <1>6, AppliedFields
<1>9. b \in Server
  <2>1. Client(i) \in Key
    BY ClientTyped
  <2> HIDE DEF c, s
  <2> QED BY <1>4, <1>8, <2>1 DEF Server
<1> QED
  BY <1>7, <1>8, <1>9

\* _apply_order_item: once, and only when its order is there.
LEMMA ItemServed ==
  ASSUME Typed, Formed, NEW seen \in SightState, NEW a \in Served(seen),
         NEW i \in 1..Len(queue), queue[i].entity = "order_item"
  PROVE  _apply_order_item(a, i) \in Served(seen)
<1>1. PICK o \in Order : o = queue[i].order
  BY DEF Formed
<1>2. /\ Client(i)[1] = "order_item" /\ Client(i)[2] = o /\ a \in Server
      /\ queue[i].operation = "create"
  BY <1>1, ClientTyped DEF Formed, Served
<1>3. CASE o \in a.seen.item
  <2>1. Present(Client(i), a.seen)
    BY <1>2, <1>3 DEF Present
  <2>2. Skip(a, i) \in Served(seen)
    BY <2>1, SeenIsPresent, SkipServed
  <2> QED BY <1>1, <1>3, <2>2 DEF _apply_order_item
<1>4. CASE o \notin a.seen.item /\ a.seen.order[o] = "absent"
  <2>1. Conflict(a, i, "not_found") \in Served(seen)
    BY ConflictServed
  <2> QED BY <1>1, <1>4, <2>1 DEF _apply_order_item
<1>5. CASE o \notin a.seen.item /\ a.seen.order[o] # "absent"
  <2>1. PICK b \in Server :
            /\ b = WriteItem(a, i)
            /\ b.cloud = [order |-> a.cloud.order, item |-> a.cloud.item \cup {o},
                          move |-> a.cloud.move, stock |-> a.cloud.stock,
                          changed |-> a.cloud.changed]
            /\ b.seen = [order |-> a.seen.order, item |-> a.seen.item \cup {o},
                         move |-> a.seen.move, stock |-> a.seen.stock]
            /\ b.lost = a.lost /\ b.overtaken = a.overtaken
            /\ b.ids = a.ids \cup {Client(i)} /\ b.conflicts = a.conflicts
            /\ b.done = a.done \cup {i}
    BY <1>1, <1>2, WriteItemFields
  <2>2. Marked(a.cloud, b.cloud)
    BY <2>1 DEF Marked
  <2>3. ASSUME Unique(b), Worked(a, seen)
        PROVE  /\ Grows(a.cloud, b.cloud, b.overtaken) /\ Ledger(b)
               /\ Held(b.seen, b.cloud) /\ b.cloud.move \subseteq cloud.move \cup b.seen.move
               /\ Follows(b, seen) /\ Present(Client(i), b.cloud)
               /\ Took(b.cloud, i) /\ ~Took(cloud, i)
    <3>1. Grows(a.cloud, b.cloud, b.overtaken)
      BY <2>1 DEF Grows
    <3>2. Ledger(b) /\ Held(b.seen, b.cloud) /\ b.cloud.move \subseteq cloud.move \cup b.seen.move
      BY <2>1, <2>3 DEF Worked, Ledger, Held
    <3>3. Follows(b, seen)
      BY <2>1, <2>3 DEF Worked, Follows
    <3>4. Present(Client(i), b.cloud) /\ Took(b.cloud, i)
      BY <1>1, <1>2, <2>1 DEF Present, Took
    <3>5. ~Took(cloud, i)
      BY <1>1, <1>2, <2>1, <2>3 DEF Unique, InCloud, Took
    <3> QED BY <3>1, <3>2, <3>3, <3>4, <3>5
  <2>4. b \in Served(seen)
    BY <2>1, <2>2, <2>3, AppliedServed
  <2> QED BY <1>1, <1>5, <2>1, <2>4 DEF _apply_order_item
<1> QED
  BY <1>3, <1>4, <1>5

LEMMA WriteStockFields ==
  ASSUME Typed, Formed, NEW a \in Server, NEW i \in 1..Len(queue),
         NEW level \in Nat, level = a.seen.stock + queue[i].change
  PROVE  \E b \in Server :
            /\ b = WriteStock(a, i)
            /\ b.cloud = [order |-> a.cloud.order, item |-> a.cloud.item,
                          move |-> a.cloud.move \cup {i}, stock |-> level,
                          changed |-> a.cloud.changed \cup {"stock"}]
            /\ b.seen = [order |-> a.seen.order, item |-> a.seen.item,
                         move |-> a.seen.move \cup {i}, stock |-> level]
            /\ b.lost = a.lost + a.cloud.stock - a.seen.stock
            /\ b.overtaken = a.overtaken
            /\ b.ids = a.ids \cup {Client(i)} /\ b.conflicts = a.conflicts
            /\ b.done = a.done \cup {i}
<1> DEFINE moves == a.cloud.move \cup {i}
           sight == a.seen.move \cup {i}
           rows == a.cloud.changed \cup {"stock"}
           gone == a.lost + a.cloud.stock - a.seen.stock
           c == [order |-> a.cloud.order, item |-> a.cloud.item, move |-> moves,
                 stock |-> level, changed |-> rows]
           s == [order |-> a.seen.order, item |-> a.seen.item, move |-> sight, stock |-> level]
           d == [cloud |-> c, seen |-> s, lost |-> gone, overtaken |-> a.overtaken,
                 ids |-> a.ids, conflicts |-> a.conflicts, done |-> a.done]
           w == [a EXCEPT !.cloud.move = @ \cup {i}, !.cloud.stock = level,
                          !.cloud.changed = @ \cup {"stock"},
                          !.seen.move = @ \cup {i}, !.seen.stock = level,
                          !.lost = @ + a.cloud.stock - a.seen.stock]
<1>1. a.cloud \in CloudState /\ a.seen \in SightState /\ a.lost \in Int
  BY DEF Server
<1>2. moves \subseteq 1..Len(queue) /\ sight \subseteq 1..Len(queue) /\ rows \subseteq Rows
  BY <1>1 DEF CloudState, SightState, Rows
<1>3. gone \in Int
  <2>1. a.cloud.stock \in Int /\ a.seen.stock \in Int
    BY <1>1 DEF CloudState, SightState
  <2> QED BY <1>1, <2>1
<1>4. w = d
  <2>1. a.cloud = [order |-> a.cloud.order, item |-> a.cloud.item, move |-> a.cloud.move,
                   stock |-> a.cloud.stock, changed |-> a.cloud.changed]
    BY <1>1, CloudFields
  <2>2. a.seen = [order |-> a.seen.order, item |-> a.seen.item, move |-> a.seen.move,
                  stock |-> a.seen.stock]
    BY <1>1, SightFields
  <2>3. a = [cloud |-> a.cloud, seen |-> a.seen, lost |-> a.lost, overtaken |-> a.overtaken,
             ids |-> a.ids, conflicts |-> a.conflicts, done |-> a.done]
    BY ServerFields
  <2> DEFINE cc == [a.cloud EXCEPT !.move = @ \cup {i}, !.stock = level,
                                   !.changed = @ \cup {"stock"}]
             ss == [a.seen EXCEPT !.move = @ \cup {i}, !.stock = level]
  <2>4. w = [a EXCEPT !.cloud = cc, !.seen = ss, !.lost = gone]
    <3> HIDE DEF gone
    <3>1. a.lost + a.cloud.stock - a.seen.stock = gone
      BY DEF gone
    <3>2. w = [a EXCEPT !.cloud.move = @ \cup {i}, !.cloud.stock = level,
                        !.cloud.changed = @ \cup {"stock"},
                        !.seen.move = @ \cup {i}, !.seen.stock = level, !.lost = gone]
      BY <3>1
    <3> HIDE DEF w
    <3> QED BY <2>3, <3>2
  <2>5. c = cc
    <3>1. cc = [a.cloud EXCEPT !.move = moves, !.stock = level, !.changed = rows]
      OBVIOUS
    <3> HIDE DEF moves, rows, cc
    <3> QED BY <2>1, <3>1
  <2>6. s = ss
    <3>1. ss = [a.seen EXCEPT !.move = sight, !.stock = level]
      OBVIOUS
    <3> HIDE DEF sight, ss
    <3> QED BY <2>2, <3>1
  <2> HIDE DEF w, c, s, cc, ss, gone
  <2>7. w = [a EXCEPT !.cloud = c, !.seen = s, !.lost = gone]
    BY <2>4, <2>5, <2>6
  <2> QED BY <2>3, <2>7
<1>5. c \in CloudState /\ s \in SightState
  <2> HIDE DEF moves, sight, rows
  <2> QED BY <1>1, <1>2 DEF CloudState, SightState
<1>6. d \in Server
  <2> HIDE DEF c, s, gone
  <2> QED BY <1>3, <1>5 DEF Server
<1>7. PICK b : b = Applied(d, i)
  OBVIOUS
<1>8. b = WriteStock(a, i)
  <2>1. WriteStock(a, i) = Applied(w, i)
    BY DEF WriteStock
  <2> HIDE DEF w, d
  <2> QED BY <1>4, <1>7, <2>1
<1>9. b = [cloud |-> c, seen |-> s, lost |-> gone, overtaken |-> a.overtaken,
           ids |-> a.ids \cup {Client(i)}, conflicts |-> a.conflicts, done |-> a.done \cup {i}]
  <2> HIDE DEF c, s, gone
  <2> QED BY <1>6, <1>7, AppliedFields
<1>10. b \in Server
  <2>1. Client(i) \in Key
    BY ClientTyped
  <2> HIDE DEF c, s, gone
  <2> QED BY <1>3, <1>5, <1>9, <2>1 DEF Server
<1> QED
  BY <1>8, <1>9, <1>10

\* _apply_stock_movement: once, and only when the level made of the one that was
\* read stays at zero or above; what the write overwrites is lost.
LEMMA MovementServed ==
  ASSUME Typed, Formed, NEW seen \in SightState, NEW a \in Served(seen),
         NEW i \in 1..Len(queue), queue[i].entity = "stock_movement"
  PROVE  _apply_stock_movement(a, i) \in Served(seen)
<1>1. PICK level : level = a.seen.stock + queue[i].change
  OBVIOUS
<1>2. /\ Client(i)[1] = "stock_movement" /\ Client(i)[2] = i /\ a \in Server
      /\ queue[i].operation = "create" /\ queue[i].change \in Int
  BY ClientTyped, QueueTyped DEF Formed, Served, QueueRow
<1>3. CASE i \in a.seen.move
  <2>1. Present(Client(i), a.seen)
    BY <1>2, <1>3 DEF Present
  <2>2. Skip(a, i) \in Served(seen)
    BY <2>1, SeenIsPresent, SkipServed
  <2> QED BY <1>3, <2>2 DEF _apply_stock_movement
<1>4. CASE i \notin a.seen.move /\ level < 0
  <2>1. Conflict(a, i, "insufficient_stock") \in Served(seen)
    BY ConflictServed
  <2> QED BY <1>1, <1>4, <2>1 DEF _apply_stock_movement
<1>5. CASE i \notin a.seen.move /\ ~(level < 0)
  <2>0. a.cloud.stock \in Int /\ a.seen.stock \in Int /\ a.lost \in Int
    BY <1>2 DEF Server, CloudState, SightState
  <2>1. level \in Nat
    BY <1>1, <1>2, <1>5, <2>0
  <2>2. PICK b \in Server :
            /\ b = WriteStock(a, i)
            /\ b.cloud = [order |-> a.cloud.order, item |-> a.cloud.item,
                          move |-> a.cloud.move \cup {i}, stock |-> level,
                          changed |-> a.cloud.changed \cup {"stock"}]
            /\ b.seen = [order |-> a.seen.order, item |-> a.seen.item,
                         move |-> a.seen.move \cup {i}, stock |-> level]
            /\ b.lost = a.lost + a.cloud.stock - a.seen.stock
            /\ b.overtaken = a.overtaken
            /\ b.ids = a.ids \cup {Client(i)} /\ b.conflicts = a.conflicts
            /\ b.done = a.done \cup {i}
    BY <1>1, <1>2, <2>1, WriteStockFields
  <2>3. Marked(a.cloud, b.cloud)
    BY <2>2 DEF Marked
  <2>4. ASSUME Unique(b), Worked(a, seen)
        PROVE  /\ Grows(a.cloud, b.cloud, b.overtaken) /\ Ledger(b)
               /\ Held(b.seen, b.cloud) /\ b.cloud.move \subseteq cloud.move \cup b.seen.move
               /\ Follows(b, seen) /\ Present(Client(i), b.cloud)
               /\ Took(b.cloud, i) /\ ~Took(cloud, i)
    <3>1. Grows(a.cloud, b.cloud, b.overtaken)
      BY <2>2 DEF Grows
    <3>2. Held(b.seen, b.cloud) /\ b.cloud.move \subseteq cloud.move \cup b.seen.move
      BY <2>2, <2>4 DEF Worked, Held
    <3>3. Follows(b, seen)
      BY <2>2, <2>4 DEF Worked, Follows
    <3>4. Present(Client(i), b.cloud) /\ Took(b.cloud, i)
      BY <1>2, <2>2 DEF Present, Took
    <3>5. i \notin cloud.move /\ ~Took(cloud, i)
      BY <1>2, <2>2, <2>4 DEF Unique, InCloud, Took
    <3>6. i \notin a.cloud.move
      BY <1>5, <2>4, <3>5 DEF Worked
    <3>7. Ledger(b)
      <4>1. Total(queue, a.cloud.move \cup {i}) = Total(queue, a.cloud.move) + queue[i].change
        BY <3>6, QueueTyped, TotalWithOneMore
      <4>2. Total(queue, a.cloud.move) \in Int
        BY QueueTyped, TotalTyped
      <4>3. Opening \in Int /\ others.stock \in Int
        BY SyncAssumption DEF Typed, OthersState
      <4>4. a.cloud.stock = Opening + others.stock + Total(queue, a.cloud.move) - a.lost
        BY <2>4 DEF Worked, Ledger
      <4>5. level = Opening + others.stock + Total(queue, a.cloud.move \cup {i}) - b.lost
        <5>1. PICK k \in Int, was \in Int, now \in Int : /\ k = Opening + others.stock
                /\ was = Total(queue, a.cloud.move) /\ now = Total(queue, a.cloud.move \cup {i})
          BY <1>2, <4>1, <4>2, <4>3
        <5>2. PICK s \in Int, c \in Int, l \in Int, ch \in Int :
                s = a.seen.stock /\ c = a.cloud.stock /\ l = a.lost /\ ch = queue[i].change
          BY <1>2, <2>0
        <5>3. now = was + ch /\ c = k + was - l /\ level = s + ch /\ b.lost = l + c - s
          BY <1>1, <2>2, <4>1, <4>4, <5>1, <5>2
        <5>4. level = k + now - b.lost
          BY <5>3
        <5> QED BY <5>1, <5>4
      <4> QED BY <2>2, <4>5 DEF Ledger
    <3> QED BY <3>1, <3>2, <3>3, <3>4, <3>5, <3>7
  <2>5. b \in Served(seen)
    BY <2>2, <2>3, <2>4, AppliedServed
  <2> QED BY <1>1, <1>5, <2>2, <2>5 DEF _apply_stock_movement
<1> QED
  BY <1>3, <1>4, <1>5

\* Whatever the batch and whenever its rows were read, the server answers from a
\* state it could be in.
LEMMA PushServed ==
  ASSUME Typed, Formed, StockIsLedger, NEW seen \in SightState, Held(seen, cloud), NEW ops
  PROVE  apply_push(ops, seen) \in Served(seen)
<1>1. ASSUME NEW a \in Served(seen), NEW i \in 1..Len(queue) PROVE Apply(a, i) \in Served(seen)
  <2>1. queue[i].entity \in {"order", "order_item", "stock_movement"}
    BY QueueTyped DEF QueueRow
  <2> QED BY <2>1, OrderServed, ItemServed, MovementServed DEF Apply
<1>2. Kept(Served(seen), ops)
  BY <1>1 DEF Kept
<1> QED
  BY <1>2, QueueTyped, ApplyingServed, PushStays

-------------------------------------------------------------------------------
(* 7. What a step leaves in place *)

\* The queue keeps its rows: only the state and the cause of one ever change.
SameOp(x, y) ==
    /\ y.entity = x.entity /\ y.operation = x.operation
    /\ y.order = x.order /\ y.to = x.to /\ y.change = x.change

Longer ==
    /\ Len(queue') \in Nat /\ Len(queue) <= Len(queue')
    /\ \A i \in 1..Len(queue) : SameOp(queue[i], queue'[i])

LEMMA OnceKeeps ==
  ASSUME IInv, Longer, Grows(cloud, cloud', overtaken'), overtaken \subseteq overtaken',
         effect' = effect
  PROVE  Once'
<1> SUFFICES ASSUME NEW i \in 1..MaxOps
             PROVE  \/ effect[i] = 0
                    \/ /\ i \in 1..Len(queue')
                       /\ Exempt(i, overtaken)' \/ (effect[i] = 1 /\ Took(cloud, i)')
  BY DEF Once
<1>1. \/ effect[i] = 0
      \/ /\ i \in 1..Len(queue)
         /\ Exempt(i, overtaken) \/ (effect[i] = 1 /\ Took(cloud, i))
  BY DEF IInv, Once
<1>2. ASSUME i \in 1..Len(queue), Exempt(i, overtaken') PROVE Exempt(i, overtaken)'
  <2>1. SameOp(queue[i], queue'[i])
    BY <1>2 DEF Longer
  <2> QED BY <1>2, <2>1 DEF Exempt, IsUpdate, SameOp
<1>3. ASSUME i \in 1..Len(queue), Took(cloud, i)
      PROVE  Took(cloud, i)' \/ Exempt(i, overtaken)'
  <2>1. queue[i].operation \in {"create", "update"}
    BY <1>3, QueueTyped DEF IInv
  <2>2. Took(cloud', i) \/ Exempt(i, overtaken')
    BY <1>3, <2>1, CloudTyped, TookStays DEF IInv
  <2>3. SameOp(queue[i], queue'[i])
    BY <1>3 DEF Longer
  <2> QED BY <1>2, <1>3, <2>2, <2>3 DEF Took, SameOp
<1>4. i \in 1..Len(queue) => i \in 1..Len(queue')
  BY QueueTyped DEF IInv, Longer
<1>5. Exempt(i, overtaken) => Exempt(i, overtaken')
  BY DEF Exempt
<1> QED
  BY <1>1, <1>2, <1>3, <1>4, <1>5

LEMMA LedgerKeeps ==
  ASSUME IInv, Longer, Moves(queue'), cloud'.stock = cloud.stock, cloud'.move = cloud.move,
         others'.stock = others.stock, lost' = lost
  PROVE  StockIsLedger'
<1>1. Moves(queue) /\ cloud.move \subseteq 1..Len(queue)
  BY QueueTyped, CloudTyped DEF IInv
<1>2. Len(queue) <= Len(queue') /\ \A i \in 1..Len(queue) : queue'[i].change = queue[i].change
  BY DEF Longer, SameOp
<1>3. Total(queue', cloud.move) = Total(queue, cloud.move)
  BY <1>1, <1>2, TotalOfLonger
<1>4. cloud.stock = Opening + others.stock + Total(queue, cloud.move) - lost
  BY DEF IInv, StockIsLedger
<1> QED
  BY <1>3, <1>4 DEF StockIsLedger

LEMMA AnswerKeeps ==
  ASSUME IInv, NEW over, Grows(cloud, cloud', over), reply'.ids \subseteq reply.ids
  PROVE  AnswerHolds'
<1> SUFFICES ASSUME ~CommitFails, NEW key \in reply'.ids PROVE Present(key, cloud')
  BY DEF AnswerHolds
<1>1. key \in Key /\ Present(key, cloud)
  BY DEF IInv, Typed, Answer, AnswerHolds
<1> QED
  BY <1>1, CloudTyped, PresentStays DEF IInv

\* What the requests under way have read, the cloud goes on holding.
LEMMA SeenKeeps ==
  ASSUME IInv, NEW over, Grows(cloud, cloud', over),
         \A w \in wire' : \E v \in wire : w.seen = v.seen
  PROVE  SeenIsHeld'
<1> SUFFICES ASSUME NEW w \in wire' PROVE Held(w.seen, cloud')
  BY DEF SeenIsHeld
<1>1. PICK v \in wire : w.seen = v.seen
  OBVIOUS
<1>2. Held(v.seen, cloud)
  BY DEF IInv, SeenIsHeld
<1> QED
  BY <1>1, <1>2, CloudTyped, HeldStays DEF IInv

LEMMA RestKeeps ==
  ASSUME IInv, NEW over, Grows(cloud, cloud', over), rest' = rest
  PROVE  RestFits'
<1>1. Typed /\ RestFits
  BY DEF IInv
<1>2. ASSUME rest.order # "none" PROVE cloud'.order[rest.order] # "absent"
  <2>1. rest.order \in Order /\ cloud.order[rest.order] # "absent"
    BY <1>1, <1>2 DEF Typed, RestState, RestFits
  <2> QED BY <1>1, <2>1, CloudTyped, LaterMoves DEF Grows
<1> QED
  BY <1>1, <1>2 DEF RestFits

\* A row that stays or becomes synced is one whose key the cloud holds.
LEMMA InCloudIsPresent ==
  ASSUME Typed, Formed, NEW i \in 1..Len(queue)
  PROVE  InCloud(i) <=> Present(Client(i), cloud)
<1>1. queue[i].entity \in {"order", "order_item", "stock_movement"}
  BY QueueTyped DEF QueueRow
<1> QED
  BY <1>1, ClientTyped DEF InCloud, Present

LEMMA DeliveredKeeps ==
  ASSUME IInv, Longer, DOMAIN queue' = 1..Len(queue'),
         NEW over, Grows(cloud, cloud', over),
         \A i \in 1..Len(queue') : queue'[i].state = "synced" =>
            i \in 1..Len(queue) /\ (queue[i].state = "synced" \/ Present(Client(i), cloud))
  PROVE  Delivered'
<1> SUFFICES ASSUME ~CommitFails, NEW i \in 1..Len(queue'), queue'[i].state = "synced",
                    queue'[i].operation = "create"
             PROVE  InCloud(i)'
  BY DEF Delivered, CreatesDelivered, InState
<1>1. i \in 1..Len(queue) /\ SameOp(queue[i], queue'[i])
  BY DEF Longer
<1>2. Present(Client(i), cloud)
  <2>1. CASE queue[i].state = "synced"
    <3>1. InCloud(i)
      BY <1>1, <2>1, QueueTyped DEF IInv, Delivered, CreatesDelivered, InState, SameOp
    <3> QED BY <1>1, <3>1, InCloudIsPresent DEF IInv
  <2>2. CASE queue[i].state # "synced"
    BY <2>2
  <2> QED BY <2>1, <2>2
<1>3. Client(i) \in Key
  BY <1>1, ClientTyped DEF IInv
<1>4. Present(Client(i), cloud')
  BY <1>2, <1>3, CloudTyped, PresentStays DEF IInv
<1>5. queue[i].entity \in {"order", "order_item", "stock_movement"}
  BY <1>1, QueueTyped DEF IInv, QueueRow
<1> QED
  BY <1>1, <1>4, <1>5, ClientTyped DEF IInv, InCloud, Present, SameOp

\* A failed cycle, or the application's end: what is under way is dropped and
\* what was pulled and not stored is still to be pulled.
Reset ==
    /\ step' = "idle" /\ needFullPull' \in BOOLEAN
    /\ wire' = Abandoned /\ cloud' = Unread
    /\ reply' = NoReply /\ payload' = NoPayload
    /\ UNCHANGED <<rest, past>>

NetStep == UNCHANGED <<net, server>> \/ Reset

LEMMA UnreadFields ==
  ASSUME Typed
  PROVE  /\ Unread \in CloudState /\ Unread.order = cloud.order /\ Unread.item = cloud.item
         /\ Unread.move = cloud.move /\ Unread.stock = cloud.stock /\ Unread.changed = Unpulled
<1>1. cloud \in CloudState /\ payload.rows \subseteq Rows
  BY DEF Typed, PullState
<1>2. CASE step = "ingest"
  <2>1. Unread = [cloud EXCEPT !.changed = cloud.changed \cup payload.rows]
    BY <1>2 DEF Unread
  <2>2. cloud = [order |-> cloud.order, item |-> cloud.item, move |-> cloud.move,
                 stock |-> cloud.stock, changed |-> cloud.changed]
    BY <1>1, CloudFields
  <2>3. Unread = [order |-> cloud.order, item |-> cloud.item, move |-> cloud.move,
                  stock |-> cloud.stock, changed |-> cloud.changed \cup payload.rows]
    BY <2>1, <2>2
  <2> QED BY <1>1, <1>2, <2>3 DEF CloudState, Unpulled
<1>3. CASE step # "ingest"
  BY <1>1, <1>3 DEF Unread, Unpulled, CloudState
<1> QED
  BY <1>2, <1>3

\* An abandoned request still has its operations, and what it has read.
LEMMA AbandonedFields ==
  ASSUME NEW w \in RequestState
  PROVE  LET v == [w EXCEPT !.live = FALSE]
         IN v \in RequestState /\ v.live = FALSE /\ v.seen = w.seen
<1>1. PICK no \in BOOLEAN : no = FALSE
  OBVIOUS
<1>2. [w EXCEPT !.live = no] = [ops |-> w.ops, live |-> no, seen |-> w.seen]
  BY DEF RequestState
<1> QED
  BY <1>1, <1>2 DEF RequestState

\* What a step of the network or a reset leaves of the renderer and the cloud.
LEMMA NetStepKeeps ==
  ASSUME IInv, NetStep
  PROVE  /\ step' \in CycleSteps /\ needFullPull' \in BOOLEAN
         /\ wire' \subseteq RequestState /\ reply' \in Answer /\ payload' \in PullState
         /\ cloud' \in CloudState /\ rest' = rest
         /\ others' = others /\ effect' = effect /\ lost' = lost /\ overtaken' = overtaken
         /\ cloud'.order = cloud.order /\ cloud'.item = cloud.item
         /\ cloud'.move = cloud.move /\ cloud'.stock = cloud.stock
         /\ Unpulled' = Unpulled /\ PayloadFresh'
         /\ reply'.ids \subseteq reply.ids /\ AnswerFits' /\ LiveWaits'
         /\ \A w \in wire' : \E v \in wire : w.seen = v.seen
<1>1. Typed /\ AnswerFits /\ PayloadFresh /\ LiveWaits
  BY DEF IInv
<1>2. CASE UNCHANGED <<net, server>>
  <2>1. /\ UNCHANGED <<step, needFullPull, wire, reply, payload>>
        /\ UNCHANGED <<cloud, rest, others, effect, lost, overtaken>>
    BY <1>2 DEF net, server, past
  <2>2. PayloadFresh' /\ AnswerFits' /\ LiveWaits' /\ Unpulled' = Unpulled
    BY <1>1, <2>1 DEF PayloadFresh, AnswerFits, LiveWaits, Unpulled
  <2> QED BY <1>1, <2>1, <2>2 DEF Typed
<1>3. CASE Reset
  <2>1. NoReply \in Answer /\ NoReply.ids = {}
    BY DEF NoReply, Answer
  <2>2. NoPayload \in PullState
    BY DEF NoPayload, NoOrders, OrderStatus, PullState
  <2>3. Fits(NoReply.conflicts)
    BY DEF NoReply, Fits
  <2>4. ASSUME NEW w \in wire
        PROVE  LET v == [w EXCEPT !.live = FALSE]
               IN v \in RequestState /\ v.live = FALSE /\ v.seen = w.seen
    <3>1. w \in RequestState
      BY <1>1 DEF Typed
    <3> QED BY <3>1, AbandonedFields
  <2>5. /\ Abandoned \subseteq RequestState
        /\ \A v \in Abandoned : v.live = FALSE
        /\ \A v \in Abandoned : \E w \in wire : v.seen = w.seen
    BY <2>4 DEF Abandoned
  <2>6. Unpulled' = Unread.changed /\ PayloadFresh'
    BY <1>3 DEF Reset, Unpulled, PayloadFresh
  <2>7. LiveWaits' /\ \A w \in wire' : \E v \in wire : w.seen = v.seen
    BY <1>3, <2>5 DEF Reset, LiveWaits
  <2>8. /\ step' \in CycleSteps /\ UNCHANGED <<rest, others, effect, lost, overtaken>>
        /\ wire' \subseteq RequestState
    BY <1>3, <2>5 DEF Reset, CycleSteps, past
  <2>9. /\ reply' \in Answer /\ payload' \in PullState /\ AnswerFits'
        /\ reply'.ids \subseteq reply.ids /\ needFullPull' \in BOOLEAN
    BY <1>3, <2>1, <2>2, <2>3 DEF Reset, AnswerFits
  <2> QED
    BY <1>1, <1>3, <2>6, <2>7, <2>8, <2>9, UnreadFields DEF Reset
<1> QED
  BY <1>2, <1>3 DEF NetStep

\* The rows the repositories enqueue.
NewRows ==
    {op \in QueueRow :
        /\ op.state = "pending" /\ op.cause = NoCause
        /\ op.entity = "order" => op.order \in Order /\ op.to \in Status
        /\ op.entity = "order_item" => op.order \in Order
        /\ op.entity # "order" => op.operation = "create"}

\* A change of the rows' states: nothing becomes synced, a resolved row stays so.
Updated(base) ==
    /\ base \in Seq(QueueRow) /\ Len(base) = Len(queue)
    /\ \A i \in 1..Len(queue) :
        /\ SameOp(queue[i], base[i])
        /\ base[i].cause.reason = "invalid_transition" => queue[i].entity = "order"
        /\ base[i].state = "synced" => queue[i].state = "synced"
        /\ queue[i].state = "resolved" => base[i].state = "resolved"

\* A write of the device: rows change state, rows are added, and when stock
\* moves a movement is queued with it or a row is resolved for good.
Writes(base, ops) ==
    /\ Updated(base) /\ ops \in Seq(NewRows) /\ queue' = base \o ops
    /\ Len(queue) + Len(ops) <= MaxOps
    /\ local' \in LocalState
    /\ \/ local'.stock = local.stock
       \/ \E k \in 1..Len(ops) : ops[k].entity = "stock_movement"
       \/ \E i \in 1..Len(queue) : base[i].state = "resolved"

LEMMA WrittenRows ==
  ASSUME Typed, Formed, NEW base, NEW ops, Writes(base, ops)
  PROVE  /\ queue' \in Seq(QueueRow) /\ Len(queue') \in Nat /\ Len(queue') <= MaxOps
         /\ Len(queue') = Len(queue) + Len(ops) /\ Len(ops) \in Nat
         /\ \A i \in 1..Len(queue) : queue'[i] = base[i]
         /\ \A k \in 1..Len(ops) : queue'[Len(queue) + k] = ops[k] /\ ops[k] \in NewRows
         /\ \A i \in 1..Len(queue') :
                i \in 1..Len(queue) \/ (i - Len(queue) \in 1..Len(ops) /\ queue'[i] = ops[i - Len(queue)])
<1>1. base \in Seq(QueueRow) /\ ops \in Seq(NewRows) /\ Len(base) = Len(queue) /\ queue' = base \o ops
  BY DEF Writes, Updated
<1>2. NewRows \subseteq QueueRow
  BY DEF NewRows
<1>3. Len(queue) \in Nat /\ Len(ops) \in Nat /\ \A k \in 1..Len(ops) : ops[k] \in NewRows
  BY <1>1, QueueTyped
<1>4. ops \in Seq(QueueRow)
  BY <1>1, <1>2, <1>3
<1>5. queue' \in Seq(QueueRow) /\ Len(queue') = Len(queue) + Len(ops)
  BY <1>1, <1>4
<1>6. \A i \in 1..Len(queue) : queue'[i] = base[i]
  BY <1>1, <1>3, <1>4
<1>7. \A k \in 1..Len(ops) : queue'[Len(queue) + k] = ops[k]
  BY <1>1, <1>3, <1>4
<1>8. ASSUME NEW i \in 1..Len(queue'), i \notin 1..Len(queue)
      PROVE  i - Len(queue) \in 1..Len(ops) /\ queue'[i] = ops[i - Len(queue)]
  <2>1. i - Len(queue) \in 1..Len(ops) /\ Len(queue) + (i - Len(queue)) = i
    BY <1>3, <1>5, <1>8
  <2> QED BY <2>1, <1>7
<1> QED
  BY <1>3, <1>5, <1>6, <1>7, <1>8 DEF Writes

LEMMA DeviceStep ==
  ASSUME IInv, NetStep, NEW base, NEW ops, Writes(base, ops)
  PROVE  IInv'
<1>0. Typed /\ Formed /\ Updated(base)
  BY DEF IInv, Writes
<1>1. /\ queue' \in Seq(QueueRow) /\ Len(queue') \in Nat /\ Len(queue') <= MaxOps
      /\ Len(queue') = Len(queue) + Len(ops) /\ Len(ops) \in Nat /\ Len(queue) \in Nat
      /\ \A i \in 1..Len(queue) : queue'[i] = base[i]
      /\ \A k \in 1..Len(ops) : queue'[Len(queue) + k] = ops[k] /\ ops[k] \in NewRows
      /\ \A i \in 1..Len(queue') :
             i \in 1..Len(queue) \/ (i - Len(queue) \in 1..Len(ops) /\ queue'[i] = ops[i - Len(queue)])
  BY <1>0, WrittenRows, QueueTyped
<1>2. Longer /\ 1..Len(queue) \subseteq 1..Len(queue')
  BY <1>0, <1>1 DEF Longer, Updated
<1>3. Grows(cloud, cloud', overtaken') /\ overtaken' = overtaken
  BY NetStepKeeps DEF Grows
<1>4. Typed'
  <2>1. local' \in LocalState'
    BY DEF Writes, LocalState
  <2>2. SUBSET (1..Len(queue)) \subseteq SUBSET (1..Len(queue'))
    BY <1>2
  <2>3. /\ CloudState \subseteq CloudState' /\ SightState \subseteq SightState'
        /\ PullState \subseteq PullState'
    BY <2>2 DEF CloudState, SightState, PullState
  <2>4. RequestState \subseteq RequestState'
    BY <2>2, <2>3 DEF RequestState
  <2>5. cloud' \in CloudState' /\ wire' \subseteq RequestState' /\ payload' \in PullState'
    BY <2>3, <2>4, NetStepKeeps
  <2>6. reply' \in Answer' /\ rest' \in RestState' /\ others' \in OthersState'
    BY <1>0, NetStepKeeps DEF Typed, Answer, RestState, OthersState
  <2>7. /\ step' \in CycleSteps /\ needFullPull' \in BOOLEAN
        /\ effect' \in [1..MaxOps -> Nat] /\ lost' \in Int /\ overtaken' \subseteq Order
    BY <1>0, NetStepKeeps DEF Typed
  <2> QED
    BY <1>1, <2>1, <2>5, <2>6, <2>7 DEF Typed, CycleSteps
<1>5. Formed'
  <2> SUFFICES ASSUME NEW i \in 1..Len(queue')
               PROVE  /\ queue'[i].entity = "order" => queue'[i].order \in Order /\ queue'[i].to \in Status
                      /\ queue'[i].entity = "order_item" => queue'[i].order \in Order
                      /\ queue'[i].entity # "order" => queue'[i].operation = "create"
                      /\ queue'[i].cause.reason = "invalid_transition" => queue'[i].entity = "order"
    BY DEF Formed
  <2>1. CASE i \in 1..Len(queue)
    <3>1. /\ SameOp(queue[i], base[i]) /\ queue'[i] = base[i]
          /\ base[i].cause.reason = "invalid_transition" => queue[i].entity = "order"
      BY <1>0, <1>1, <2>1 DEF Updated
    <3>2. /\ queue[i].entity = "order" => queue[i].order \in Order /\ queue[i].to \in Status
          /\ queue[i].entity = "order_item" => queue[i].order \in Order
          /\ queue[i].entity # "order" => queue[i].operation = "create"
      BY <1>0, <2>1 DEF Formed
    <3> QED BY <3>1, <3>2 DEF SameOp
  <2>2. CASE i \notin 1..Len(queue)
    <3>1. queue'[i] \in NewRows
      BY <1>1, <2>2
    <3> QED BY <3>1 DEF NewRows, NoCause
  <2> QED BY <2>1, <2>2
<1>6. AnswerFits' /\ PayloadFresh' /\ LiveWaits'
  BY NetStepKeeps
<1>13. SeenIsHeld' /\ RestFits'
  BY <1>3, SeenKeeps, RestKeeps, NetStepKeeps
<1>7. Once'
  BY <1>2, <1>3, OnceKeeps, NetStepKeeps
<1>8. StockIsLedger'
  <2>1. Moves(queue')
    <3>1. \A i \in 1..Len(queue') : queue'[i] \in QueueRow
      BY <1>1
    <3> QED BY <1>1, <3>1 DEF Moves, QueueRow
  <2> QED BY <2>1, <1>2, LedgerKeeps, NetStepKeeps
<1>9. AnswerHolds'
  BY <1>3, AnswerKeeps, NetStepKeeps
<1>10. DOMAIN queue' = 1..Len(queue') /\ DOMAIN queue = 1..Len(queue)
  BY <1>0, <1>1, QueueTyped
<1>11. Delivered'
  <2>1. ASSUME NEW i \in 1..Len(queue'), queue'[i].state = "synced"
        PROVE  i \in 1..Len(queue) /\ queue[i].state = "synced"
    <3>1. CASE i \in 1..Len(queue)
      BY <1>0, <1>1, <2>1, <3>1 DEF Updated
    <3>2. CASE i \notin 1..Len(queue)
      <4>1. queue'[i] \in NewRows
        BY <1>1, <3>2
      <4> QED BY <4>1, <2>1 DEF NewRows
    <3> QED BY <3>1, <3>2
  <2> QED BY <2>1, <1>2, <1>3, <1>10, DeliveredKeeps
<1>12. StockFollows'
  <2> SUFFICES ASSUME InState("resolved")' = {}, AllMovesIn', "stock" \notin Unpulled'
               PROVE  local'.stock = cloud'.stock
    BY DEF StockFollows
  <2>1. \A i \in 1..Len(queue') : queue'[i].state # "resolved"
    BY <1>10 DEF InState
  <2>2. \A i \in 1..Len(queue') : queue'[i].entity = "stock_movement" => i \in cloud.move
    BY NetStepKeeps DEF AllMovesIn
  <2>3. cloud.move \subseteq 1..Len(queue)
    BY <1>0, CloudTyped
  <2>4. \A k \in 1..Len(ops) : ops[k].entity # "stock_movement"
    <3> SUFFICES ASSUME NEW k \in 1..Len(ops), ops[k].entity = "stock_movement" PROVE FALSE
      OBVIOUS
    <3>1. Len(queue) + k \in 1..Len(queue') /\ Len(queue) + k \notin 1..Len(queue)
      BY <1>1
    <3> QED BY <3>1, <1>1, <2>2, <2>3
  <2>5. \A i \in 1..Len(queue) : base[i].state # "resolved"
    BY <2>1, <1>1, <1>2
  <2>6. local'.stock = local.stock
    BY <2>4, <2>5 DEF Writes
  <2>7. InState("resolved") = {}
    BY <2>5, <1>0, <1>10 DEF InState, Updated
  <2>8. AllMovesIn
    BY <2>2, <1>2 DEF AllMovesIn, Longer, SameOp
  <2>9. "stock" \notin Unpulled /\ cloud'.stock = cloud.stock
    BY NetStepKeeps
  <2> QED
    BY <2>6, <2>7, <2>8, <2>9 DEF IInv, StockFollows
<1> QED
  BY <1>4, <1>5, <1>6, <1>7, <1>8, <1>9, <1>11, <1>12, <1>13 DEF IInv

-------------------------------------------------------------------------------
(* 8. The steps: what the device writes *)

LEMMA OpIsNew ==
  ASSUME NEW o
  PROVE  /\ o \in Order => Op("order", "create", o, "pending", 0) \in NewRows
         /\ o \in Order => Op("order_item", "create", o, "none", 0) \in NewRows
         /\ \A s \in Status : o \in Order => Op("order", "update", o, s, 0) \in NewRows
         /\ \A d \in Int : o \in Order \cup {"none"} =>
               /\ Op("stock_movement", "create", o, "none", d) \in NewRows
               /\ Op("stock_movement", "create", o, "none", d).entity = "stock_movement"
<1>1. NoCause \in Cause
  BY DEF NoCause, Cause
<1>2. "pending" \in Status
  BY DEF Status
<1> QED
  BY <1>1, <1>2 DEF Op, NewRows, QueueRow

LEMMA UpdatedSelf ==
  ASSUME Typed, Formed
  PROVE  Updated(queue)
BY DEF Updated, SameOp, Typed, Formed

LEMMA UpdatedRow ==
  ASSUME Typed, Formed, NEW i \in 1..Len(queue), queue[i].state # "resolved",
         NEW row \in QueueRow, SameOp(queue[i], row), row.state # "synced",
         row.cause.reason = "invalid_transition" => queue[i].entity = "order"
  PROVE  /\ Updated([queue EXCEPT ![i] = row])
         /\ [queue EXCEPT ![i] = row][i] = row
<1> DEFINE base == [queue EXCEPT ![i] = row]
<1>1. queue \in Seq(QueueRow) /\ Len(queue) \in Nat
  BY QueueTyped DEF Typed
<1>2. base \in Seq(QueueRow) /\ Len(base) = Len(queue)
  BY <1>1
<1>3. \A j \in 1..Len(queue) : base[j] = IF j = i THEN row ELSE queue[j]
  BY <1>1
<1> HIDE DEF base
<1>4. Updated(base)
  BY <1>2, <1>3 DEF Updated, SameOp, Formed
<1> QED
  BY <1>3, <1>4 DEF base

\* _adjustInline never takes stock below zero, and moves it with a movement only.
LEMMA AdjustedInline ==
  ASSUME Typed, NEW d \in Int, NEW o \in Order \cup {"none"}
  PROVE  /\ _adjustInline(d, o).stock \in Nat /\ _adjustInline(d, o).ops \in Seq(NewRows)
         /\ \/ _adjustInline(d, o).stock = local.stock /\ _adjustInline(d, o).ops = <<>>
            \/ \E op \in NewRows : _adjustInline(d, o).ops = <<op>> /\ op.entity = "stock_movement"
<1> DEFINE op == Op("stock_movement", "create", o, "none", d)
<1>1. op \in NewRows /\ op.entity = "stock_movement"
  BY OpIsNew
<1>2. local.stock \in Nat
  BY DEF Typed, LocalState
<1> HIDE DEF op
<1>3. <<op>> \in Seq(NewRows) /\ <<>> \in Seq(NewRows)
  BY <1>1
<1> QED
  BY <1>1, <1>2, <1>3 DEF _adjustInline, op

LEMMA LocalFields ==
  ASSUME Typed
  PROVE  /\ local = [order |-> local.order, qty |-> local.qty, stock |-> local.stock,
                     corrected |-> local.corrected]
         /\ local.order \in [Order -> OrderStatus] /\ local.qty \in [Order -> Nat]
         /\ local.stock \in Nat /\ local.corrected \in BOOLEAN
BY DEF Typed, LocalState

LEMMA CreateOrderStep ==
  ASSUME IInv, NEW o \in Order, NEW q \in 1..MaxQty, CreateOrder(o, q)
  PROVE  IInv'
<1> DEFINE adjusted == _adjustInline(-q, o)
           item == Op("order_item", "create", o, "none", 0)
           order == Op("order", "create", o, "pending", 0)
           ops == <<item>> \o adjusted.ops \o <<order>>
<1>1. Typed /\ Formed /\ q \in Nat /\ -q \in Int
  BY SyncAssumption DEF IInv
<1>2. /\ adjusted.stock \in Nat /\ adjusted.ops \in Seq(NewRows)
      /\ \/ adjusted.stock = local.stock
         \/ \E op \in NewRows : adjusted.ops = <<op>> /\ op.entity = "stock_movement"
  BY <1>1, AdjustedInline
<1>3. item \in NewRows /\ order \in NewRows
  BY OpIsNew
<1>4. /\ queue' = queue \o ops /\ Len(queue) + Len(ops) <= MaxOps
      /\ local' = [local EXCEPT !.order[o] = "pending", !.qty[o] = q, !.stock = adjusted.stock]
      /\ UNCHANGED <<net, server>>
  BY DEF CreateOrder, Enqueue
<1> HIDE DEF adjusted, item, order
<1>5. ops \in Seq(NewRows)
  BY <1>2, <1>3
<1>6. adjusted.stock = local.stock \/ \E k \in 1..Len(ops) : ops[k].entity = "stock_movement"
  <2> SUFFICES ASSUME NEW op \in NewRows, adjusted.ops = <<op>>, op.entity = "stock_movement"
               PROVE  \E k \in 1..Len(ops) : ops[k].entity = "stock_movement"
    BY <1>2
  <2>1. Len(ops) = 3 /\ ops[2] = op
    BY <1>3
  <2> QED BY <2>1
<1>7. local' \in LocalState /\ local'.stock = adjusted.stock
  <2>1. local' = [order |-> [local.order EXCEPT ![o] = "pending"], qty |-> [local.qty EXCEPT ![o] = q],
                  stock |-> adjusted.stock, corrected |-> local.corrected]
    BY <1>1, <1>4, LocalFields
  <2>2. "pending" \in OrderStatus
    BY Statuses
  <2> QED
    BY <1>1, <1>2, <2>1, <2>2, LocalFields DEF LocalState
<1> HIDE DEF ops
<1>8. Writes(queue, ops)
  BY <1>1, <1>4, <1>5, <1>6, <1>7, UpdatedSelf DEF Writes
<1> QED
  BY <1>4, <1>8, DeviceStep DEF NetStep

\* setStatus: the status, its operation, and for a cancellation the restored
\* stock with its movement.
LEMMA SetStatusWrites ==
  ASSUME Typed, Formed, NEW o \in Order, NEW s \in Status
  PROVE  /\ setStatus(o, s).ops \in Seq(NewRows) /\ setStatus(o, s).local \in LocalState
         /\ \/ setStatus(o, s).local.stock = local.stock
            \/ \E k \in 1..Len(setStatus(o, s).ops) :
                  setStatus(o, s).ops[k].entity = "stock_movement"
<1> DEFINE restored == IF s = "cancelled" /\ local.order[o] # "cancelled"
                         THEN _adjustInline(local.qty[o], o)
                         ELSE [stock |-> local.stock, ops |-> <<>>]
           op == Op("order", "update", o, s, 0)
           l == [local EXCEPT !.order[o] = s, !.stock = restored.stock]
<1>1. op \in NewRows
  BY OpIsNew
<1>2. /\ restored.stock \in Nat /\ restored.ops \in Seq(NewRows)
      /\ \/ restored.stock = local.stock
         \/ \E move \in NewRows : restored.ops = <<move>> /\ move.entity = "stock_movement"
  <2>1. local.qty[o] \in Int /\ local.stock \in Nat
    BY LocalFields
  <2>2. CASE s = "cancelled" /\ local.order[o] # "cancelled"
    BY <2>1, <2>2, AdjustedInline
  <2>3. CASE ~(s = "cancelled" /\ local.order[o] # "cancelled")
    BY <2>1, <2>3
  <2> QED BY <2>2, <2>3
<1>3. setStatus(o, s) = [local |-> l, ops |-> <<op>> \o restored.ops]
  BY DEF setStatus
<1> HIDE DEF restored, op
<1>4. <<op>> \o restored.ops \in Seq(NewRows)
  BY <1>1, <1>2
<1>5. restored.stock = local.stock \/ \E k \in 1..Len(<<op>> \o restored.ops) :
                                         (<<op>> \o restored.ops)[k].entity = "stock_movement"
  <2> SUFFICES ASSUME NEW move \in NewRows, restored.ops = <<move>>, move.entity = "stock_movement"
               PROVE  \E k \in 1..Len(<<op>> \o restored.ops) :
                         (<<op>> \o restored.ops)[k].entity = "stock_movement"
    BY <1>2
  <2>1. Len(<<op>> \o restored.ops) = 2 /\ (<<op>> \o restored.ops)[2] = move
    BY <1>1
  <2> QED BY <2>1
<1>6. l \in LocalState /\ l.stock = restored.stock
  <2>1. l = [order |-> [local.order EXCEPT ![o] = s], qty |-> local.qty,
             stock |-> restored.stock, corrected |-> local.corrected]
    <3>1. local = [order |-> local.order, qty |-> local.qty, stock |-> local.stock,
                  corrected |-> local.corrected]
      BY LocalFields
    <3> DEFINE f == [local.order EXCEPT ![o] = s]
    <3>2. l = [local EXCEPT !.order = f, !.stock = restored.stock]
      BY <3>1
    <3> HIDE DEF f, l
    <3>3. l = [order |-> f, qty |-> local.qty, stock |-> restored.stock,
               corrected |-> local.corrected]
      BY <3>1, <3>2
    <3> QED BY <3>3 DEF f
  <2>2. s \in OrderStatus
    BY DEF OrderStatus
  <2> QED
    BY <1>2, <2>1, <2>2, LocalFields DEF LocalState
<1> HIDE DEF l
<1> QED
  BY <1>3, <1>4, <1>5, <1>6

LEMMA SetStatusStep ==
  ASSUME IInv, NEW o \in Order, NEW s \in Status, SetStatus(o, s)
  PROVE  IInv'
<1>1. Typed /\ Formed
  BY DEF IInv
<1>2. /\ queue' = queue \o setStatus(o, s).ops
      /\ Len(queue) + Len(setStatus(o, s).ops) <= MaxOps
      /\ local' = setStatus(o, s).local /\ UNCHANGED <<net, server>>
  BY DEF SetStatus, Enqueue
<1>3. Writes(queue, setStatus(o, s).ops)
  BY <1>1, <1>2, SetStatusWrites, UpdatedSelf DEF Writes
<1> QED
  BY <1>2, <1>3, DeviceStep DEF NetStep

LEMMA AdjustStockStep ==
  ASSUME IInv, NEW d \in Changes, AdjustStock(d)
  PROVE  IInv'
<1> DEFINE op == Op("stock_movement", "create", "none", "none", d)
<1>1. Typed /\ Formed /\ d \in Int /\ local.stock \in Nat
  BY SyncAssumption, LocalFields DEF IInv, Changes
<1>2. op \in NewRows /\ op.entity = "stock_movement"
  BY <1>1, OpIsNew
<1>3. /\ queue' = queue \o <<op>> /\ Len(queue) + Len(<<op>>) <= MaxOps
      /\ local' = [local EXCEPT !.stock = local.stock + d] /\ local.stock + d >= 0
      /\ UNCHANGED <<net, server>>
  BY <1>1 DEF AdjustStock, Enqueue, _adjustInline
<1> HIDE DEF op
<1>4. local' \in LocalState
  <2>1. local' = [order |-> local.order, qty |-> local.qty, stock |-> local.stock + d,
                  corrected |-> local.corrected]
    BY <1>1, <1>3, LocalFields
  <2>2. local.stock + d \in Nat
    BY <1>1, <1>3
  <2> QED BY <1>1, <2>1, <2>2, LocalFields DEF LocalState
<1>5. <<op>> \in Seq(NewRows) /\ 1 \in 1..Len(<<op>>) /\ <<op>>[1].entity = "stock_movement"
  BY <1>2
<1>6. Writes(queue, <<op>>)
  BY <1>1, <1>3, <1>4, <1>5, UpdatedSelf DEF Writes
<1> QED
  BY <1>3, <1>6, DeviceStep DEF NetStep

\* A step that writes nothing on the device.
LEMMA WritesNothing ==
  ASSUME IInv, UNCHANGED queue, local' \in LocalState, local'.stock = local.stock
  PROVE  Writes(queue, <<>>)
<1>1. Typed /\ Formed /\ Len(queue) \in Nat /\ Len(queue) <= MaxOps /\ MaxOps \in Nat
  BY QueueTyped DEF IInv, Typed
<1>2. queue \o <<>> = queue
  BY <1>1 DEF Typed
<1>3. <<>> \in Seq(NewRows) /\ Len(<<>>) = 0
  OBVIOUS
<1> QED
  BY <1>1, <1>2, <1>3, UpdatedSelf DEF Writes

LEMMA ForgetResets ==
  ASSUME IInv, Forget \/ Catch
  PROVE  Reset
BY DEF Forget, Catch, Reset, IInv, Typed

LEMMA ResetStep ==
  ASSUME IInv, Reset, UNCHANGED device
  PROVE  IInv'
<1>1. local' \in LocalState /\ local'.stock = local.stock /\ UNCHANGED queue
  BY DEF device, LocalState, IInv, Typed
<1>2. Writes(queue, <<>>)
  BY <1>1, WritesNothing
<1> QED
  BY <1>2, DeviceStep DEF NetStep

LEMMA CrashInSetStatusStep ==
  ASSUME IInv, NEW o \in Order, NEW s \in Status, NEW queued \in BOOLEAN,
         CrashInSetStatus(o, s, queued)
  PROVE  IInv'
<1> DEFINE op == Op("order", "update", o, s, 0)
<1>1. Typed /\ Formed /\ NetStep
  BY ForgetResets DEF IInv, CrashInSetStatus, NetStep
<1>2. local' \in LocalState /\ local'.stock = local.stock
  <2>1. local' = [local EXCEPT !.order[o] = s]
    BY DEF CrashInSetStatus
  <2>2. local' = [order |-> [local.order EXCEPT ![o] = s], qty |-> local.qty,
                  stock |-> local.stock, corrected |-> local.corrected]
    BY <1>1, <2>1, LocalFields
  <2>3. s \in OrderStatus
    BY DEF OrderStatus
  <2> QED BY <1>1, <2>2, <2>3, LocalFields DEF LocalState
<1>3. CASE queued
  <2>1. op \in NewRows
    BY OpIsNew
  <2>2. queue' = queue \o <<op>> /\ Len(queue) + Len(<<op>>) <= MaxOps
    BY <1>3 DEF CrashInSetStatus, Enqueue
  <2> HIDE DEF op
  <2>3. <<op>> \in Seq(NewRows)
    BY <2>1
  <2>4. Writes(queue, <<op>>)
    BY <1>1, <1>2, <2>2, <2>3, UpdatedSelf DEF Writes
  <2> QED BY <1>1, <2>4, DeviceStep
<1>4. CASE ~queued
  <2>1. UNCHANGED queue
    BY <1>4 DEF CrashInSetStatus
  <2>2. Writes(queue, <<>>)
    BY <1>2, <2>1, WritesNothing
  <2> QED BY <1>1, <2>2, DeviceStep
<1> QED
  BY <1>3, <1>4

LEMMA GiveUpStep ==
  ASSUME IInv, GiveUp \/ RejectPull \/ Restart
  PROVE  IInv'
<1>1. Reset /\ UNCHANGED device
  BY ForgetResets DEF GiveUp, RejectPull, Restart, Catch
<1> QED
  BY <1>1, ResetStep

-------------------------------------------------------------------------------
(* 9. The steps: what the user does about a conflict *)

\* A row with another state, or a state and no cause.
LEMMA RowChanged ==
  ASSUME Typed, Formed, NEW i \in 1..Len(queue), queue[i].state = "conflict"
  PROVE  /\ Updated(Resolved(queue, i)) /\ Resolved(queue, i)[i].state = "resolved"
         /\ Updated([queue EXCEPT ![i].state = "pending", ![i].cause = NoCause])
<1> DEFINE x == queue[i]
           resolved == [entity |-> x.entity, operation |-> x.operation, order |-> x.order,
                        to |-> x.to, change |-> x.change, state |-> "resolved", cause |-> x.cause]
           again == [entity |-> x.entity, operation |-> x.operation, order |-> x.order,
                     to |-> x.to, change |-> x.change, state |-> "pending", cause |-> NoCause]
<1>1. queue \in Seq(QueueRow) /\ x \in QueueRow /\ i \in DOMAIN queue
  BY QueueTyped DEF Typed
<1>2. x = [entity |-> x.entity, operation |-> x.operation, order |-> x.order,
           to |-> x.to, change |-> x.change, state |-> x.state, cause |-> x.cause]
  BY <1>1 DEF QueueRow
<1>3. NoCause \in Cause /\ NoCause.reason = "none"
  BY DEF NoCause, Cause
<1>4. resolved \in QueueRow /\ again \in QueueRow
  BY <1>1, <1>3 DEF QueueRow
<1>5. SameOp(x, resolved) /\ SameOp(x, again)
  BY DEF SameOp
<1>6. resolved.state = "resolved" /\ again.state = "pending"
  OBVIOUS
<1>7. resolved.cause.reason = "invalid_transition" => x.entity = "order"
  BY DEF Formed
<1>8. again.cause.reason = "invalid_transition" => x.entity = "order"
  BY <1>3
<1>9. [x EXCEPT !.state = "resolved"] = resolved
  <2> HIDE DEF x
  <2> QED BY <1>2
<1>10. [x EXCEPT !.state = "pending", !.cause = NoCause] = again
  <2> HIDE DEF x
  <2> DEFINE y == [x EXCEPT !.state = "pending"]
  <2>1. y = [entity |-> x.entity, operation |-> x.operation, order |-> x.order,
             to |-> x.to, change |-> x.change, state |-> "pending", cause |-> x.cause]
    BY <1>2
  <2>2. [x EXCEPT !.state = "pending", !.cause = NoCause] = [y EXCEPT !.cause = NoCause]
    OBVIOUS
  <2> HIDE DEF y
  <2>3. [y EXCEPT !.cause = NoCause] = again
    BY <2>1
  <2> HIDE DEF again
  <2> QED BY <2>2, <2>3
<1>11. Resolved(queue, i) = [queue EXCEPT ![i] = resolved]
  BY <1>1, <1>9 DEF Resolved
<1>12. [queue EXCEPT ![i].state = "pending", ![i].cause = NoCause] = [queue EXCEPT ![i] = again]
  BY <1>1, <1>10
<1> HIDE DEF resolved, again
<1> QED
  BY <1>4, <1>5, <1>6, <1>7, <1>8, <1>11, <1>12, UpdatedRow

LEMMA ParkedRow ==
  ASSUME Typed, NEW i, NEW reason, Parked(i, reason)
  PROVE  i \in 1..Len(queue) /\ queue[i].state = "conflict" /\ queue[i].cause.reason = reason
BY QueueTyped DEF Parked, InState

\* A row changes its state and the mirror nothing but, perhaps, its stock.
LEMMA RowStep ==
  ASSUME IInv, NEW base, Updated(base), queue' = base, UNCHANGED <<net, server>>,
         local' \in LocalState,
         local'.stock = local.stock \/ \E i \in 1..Len(queue) : base[i].state = "resolved"
  PROVE  IInv'
<1>1. base \in Seq(QueueRow) /\ Len(queue) \in Nat /\ Len(queue) <= MaxOps /\ MaxOps \in Nat
  BY QueueTyped DEF IInv, Typed, Updated
<1>2. base \o <<>> = base /\ <<>> \in Seq(NewRows) /\ Len(<<>>) = 0
  BY <1>1
<1>3. Writes(base, <<>>)
  BY <1>1, <1>2 DEF Writes
<1> QED
  BY <1>3, DeviceStep DEF NetStep

LEMMA RequeueStep ==
  ASSUME IInv, NEW i \in DOMAIN queue, requeue(i)
  PROVE  IInv'
<1>1. Updated(queue')
  BY ParkedRow, RowChanged DEF requeue, IInv
<1>2. local' \in LocalState /\ local'.stock = local.stock
  BY DEF requeue, IInv, Typed, LocalState
<1> QED
  BY <1>1, <1>2, RowStep DEF requeue

LEMMA DiscardUnfoundedStep ==
  ASSUME IInv, NEW i \in DOMAIN queue, DiscardUnfounded(i)
  PROVE  IInv'
<1>1. Updated(queue')
  BY ParkedRow, RowChanged DEF DiscardUnfounded, IInv
<1>2. local' \in LocalState /\ local'.stock = local.stock
  BY DEF DiscardUnfounded, IInv, Typed, LocalState
<1> QED
  BY <1>1, <1>2, RowStep DEF DiscardUnfounded

LEMMA DiscardMovementStep ==
  ASSUME IInv, NEW i \in DOMAIN queue, DiscardMovement(i)
  PROVE  IInv'
<1> DEFINE level == queue[i].cause.stock
           corrected == local.corrected \/ local.stock # level
<1>1. Typed /\ Formed /\ i \in 1..Len(queue) /\ queue[i].state = "conflict"
  BY ParkedRow DEF DiscardMovement, IInv
<1>2. /\ queue' = Resolved(queue, i) /\ UNCHANGED <<net, server>>
      /\ local' = [local EXCEPT !.stock = level, !.corrected = corrected]
  BY DEF DiscardMovement
<1>3. Updated(queue') /\ queue'[i].state = "resolved"
  BY <1>1, <1>2, RowChanged
<1>4. level \in Nat /\ corrected \in BOOLEAN
  <2>1. queue[i] \in QueueRow
    BY <1>1, QueueTyped
  <2> QED BY <2>1 DEF QueueRow, Cause
<1>5. local' \in LocalState
  <2> HIDE DEF level, corrected
  <2>1. local' = [order |-> local.order, qty |-> local.qty, stock |-> level, corrected |-> corrected]
    BY <1>1, <1>2, LocalFields
  <2> QED BY <1>1, <1>4, <2>1, LocalFields DEF LocalState
<1> QED
  BY <1>1, <1>2, <1>3, <1>5, RowStep

LEMMA ResolveTransitionStep ==
  ASSUME IInv, NEW i \in DOMAIN queue, NEW s \in Status, ResolveTransition(i, s)
  PROVE  IInv'
<1> DEFINE o == queue[i].order
           base == Resolved(queue, i)
           ops == setStatus(o, s).ops
<1>1. /\ Typed /\ Formed /\ i \in 1..Len(queue) /\ queue[i].state = "conflict"
      /\ queue[i].cause.reason = "invalid_transition"
  BY ParkedRow DEF ResolveTransition, IInv
<1>2. o \in Order
  BY <1>1 DEF Formed
<1>3. /\ Len(queue) + Len(ops) <= MaxOps /\ queue' = base \o ops
      /\ local' = setStatus(o, s).local /\ UNCHANGED <<net, server>>
  BY DEF ResolveTransition
<1>4. ops \in Seq(NewRows) /\ local' \in LocalState
  BY <1>1, <1>2, <1>3, SetStatusWrites
<1>5. Updated(base) /\ base[i].state = "resolved"
  BY <1>1, RowChanged
<1> HIDE DEF base, ops
<1>6. Writes(base, ops)
  BY <1>1, <1>3, <1>4, <1>5 DEF Writes
<1> QED
  BY <1>3, <1>6, DeviceStep DEF NetStep

-------------------------------------------------------------------------------
(* 10. The steps: the sync cycle, the network and the server *)

LEMMA NetTyped ==
  ASSUME Typed
  PROVE  /\ wire \subseteq RequestState /\ reply \in Answer /\ payload \in PullState
         /\ rest \in RestState /\ others \in OthersState /\ effect \in [1..MaxOps -> Nat]
         /\ lost \in Int /\ overtaken \subseteq Order
         /\ local \in LocalState /\ needFullPull \in BOOLEAN
         /\ queue \in Seq(QueueRow) /\ Len(queue) <= MaxOps
         /\ step \in CycleSteps
BY DEF Typed

\* The types that speak of the queue are the same while it is.
LEMMA SameTypes ==
  ASSUME queue' = queue
  PROVE  /\ CloudState' = CloudState /\ RequestState' = RequestState
         /\ PullState' = PullState /\ Answer' = Answer /\ LocalState' = LocalState
         /\ RestState' = RestState /\ OthersState' = OthersState
BY DEF CloudState, RequestState, SightState, PullState, Answer, LocalState, RestState, OthersState

\* The device unchanged: what is left to show is what moved in the network or
\* in the cloud, whose changes of stock are marked.
LEMMA CloudStep ==
  ASSUME IInv, UNCHANGED device, cloud' \in CloudState,
         Grows(cloud, cloud', overtaken'), Marked(cloud, cloud'), StockIsLedger',
         step' \in CycleSteps, (step' = "ingest" <=> step = "ingest"),
         UNCHANGED <<needFullPull, payload>>,
         wire' \subseteq RequestState, LiveWaits', SeenIsHeld',
         reply' \in Answer, AnswerFits', AnswerHolds',
         rest' \in RestState, RestFits', others' \in OthersState,
         effect' \in [1..MaxOps -> Nat], Once', lost' \in Int, overtaken' \subseteq Order
  PROVE  IInv'
<1>1. Typed /\ Formed /\ queue' = queue /\ local' = local /\ payload' = payload
  BY DEF IInv, device
<1>2. Typed'
  <2>1. /\ local' \in LocalState' /\ cloud' \in CloudState' /\ wire' \subseteq RequestState'
        /\ reply' \in Answer' /\ payload' \in PullState' /\ rest' \in RestState'
        /\ others' \in OthersState'
    BY <1>1, NetTyped, SameTypes
  <2>2. queue' \in Seq(QueueRow) /\ Len(queue') <= MaxOps /\ needFullPull' \in BOOLEAN
    BY <1>1, NetTyped
  <2> QED BY <2>1, <2>2 DEF Typed, CycleSteps
<1>3. Formed'
  BY <1>1 DEF Formed
<1>5. Delivered'
  <2>1. Longer /\ DOMAIN queue' = 1..Len(queue')
    BY <1>1, QueueTyped DEF Longer, SameOp
  <2> QED BY <1>1, <2>1, DeliveredKeeps
<1>6. StockFollows'
  <2> SUFFICES ASSUME InState("resolved")' = {}, AllMovesIn', "stock" \notin Unpulled'
               PROVE  local'.stock = cloud'.stock
    BY DEF StockFollows
  <2>1. InState("resolved") = {}
    BY <1>1 DEF InState
  <2>2. "stock" \notin cloud'.changed
    BY DEF Unpulled
  <2>3. cloud'.stock = cloud.stock /\ cloud'.move = cloud.move /\ cloud.changed \subseteq cloud'.changed
    BY <2>2 DEF Marked
  <2>4. AllMovesIn
    BY <1>1, <2>3 DEF AllMovesIn
  <2>5. "stock" \notin Unpulled
    BY <1>1, <2>3 DEF Unpulled
  <2> QED
    BY <1>1, <2>1, <2>3, <2>4, <2>5 DEF IInv, StockFollows
<1>7. PayloadFresh'
  BY <1>1 DEF IInv, PayloadFresh, Marked
<1> QED
  BY <1>2, <1>3, <1>5, <1>6, <1>7 DEF IInv

\* Nothing changes but the requests and the answers under way.
LEMMA WireStep ==
  ASSUME IInv, UNCHANGED <<device, server, needFullPull, payload>>,
         step' \in CycleSteps, (step' = "ingest" <=> step = "ingest"),
         wire' \subseteq RequestState, LiveWaits', SeenIsHeld',
         reply' \in Answer, AnswerFits', AnswerHolds'
  PROVE  IInv'
<1>1. /\ Typed /\ cloud' = cloud /\ others' = others /\ effect' = effect /\ queue' = queue
      /\ rest' = rest /\ lost' = lost /\ overtaken' = overtaken
  BY DEF IInv, server, past, device
<1>2. /\ cloud' \in CloudState /\ Grows(cloud, cloud', overtaken') /\ Marked(cloud, cloud')
  BY <1>1, CloudTyped DEF Grows, Marked
<1>3. StockIsLedger' /\ RestFits'
  BY <1>1 DEF IInv, StockIsLedger, RestFits
<1>4. Once'
  BY <1>1 DEF IInv, Once, Took, Exempt, IsUpdate
<1>5. /\ rest' \in RestState /\ others' \in OthersState /\ effect' \in [1..MaxOps -> Nat]
      /\ lost' \in Int /\ overtaken' \subseteq Order
  BY <1>1, NetTyped
<1> QED
  BY <1>1, <1>2, <1>3, <1>4, <1>5, CloudStep

\* A transaction that looks now sees the tables as they are.
LEMMA SightHolds ==
  ASSUME Typed
  PROVE  Sight \in SightState /\ Held(Sight, cloud)
BY CloudTyped DEF Sight, SightState, Held

LEMMA StartCycleStep ==
  ASSUME IInv, StartCycle
  PROVE  IInv'
<1> DEFINE w == [ops |-> Batch, live |-> TRUE, seen |-> Sight]
<1>1. Typed /\ LiveWaits /\ step = "idle" /\ DOMAIN queue = 1..Len(queue)
  BY QueueTyped DEF IInv, StartCycle
<1>2. Batch \subseteq 1..Len(queue)
  BY <1>1 DEF Batch, InState
<1>3. /\ UNCHANGED <<device, server, needFullPull, payload, reply>>
      /\ \/ step' = "pull" /\ wire' = wire
         \/ step' = "push" /\ wire' = wire \cup {w}
  BY DEF StartCycle
<1>4. w \in RequestState /\ w.seen = Sight
  BY <1>1, <1>2, SightHolds DEF RequestState
<1> HIDE DEF w
<1>5. \A v \in wire : ~v.live
  BY <1>1, NetTyped DEF LiveWaits, RequestState
<1>6. wire' \subseteq RequestState
  BY <1>1, <1>3, <1>4, NetTyped
<1>7. LiveWaits'
  BY <1>3, <1>5 DEF LiveWaits
<1>8. reply' \in Answer /\ AnswerFits' /\ AnswerHolds' /\ cloud' = cloud
  BY <1>1, <1>3, NetTyped DEF IInv, AnswerFits, AnswerHolds, server
<1>9. SeenIsHeld'
  BY <1>1, <1>3, <1>4, <1>8, SightHolds DEF IInv, SeenIsHeld
<1>10. step' \in CycleSteps /\ (step' = "ingest" <=> step = "ingest")
  BY <1>1, <1>3 DEF CycleSteps
<1> QED
  BY <1>1, <1>3, <1>6, <1>7, <1>8, <1>9, <1>10, WireStep

\* What a push has still to read it finds as the cloud has it now.
LEMMA LookHolds ==
  ASSUME IInv, NEW w \in wire, NEW seen \in StillToRead(w)
  PROVE  seen \in SightState /\ Held(seen, cloud)
<1>1. /\ Typed /\ Held(w.seen, cloud) /\ w.seen \in SightState
      /\ Sight \in SightState /\ Held(Sight, cloud)
  BY SightHolds, NetTyped DEF IInv, SeenIsHeld, RequestState
<1>2. /\ Sight = [order |-> Sight.order, item |-> Sight.item, move |-> Sight.move,
                  stock |-> Sight.stock]
      /\ w.seen.order \in [Order -> OrderStatus] /\ w.seen.item \subseteq Order
      /\ Sight.item \subseteq Order /\ Sight.move \subseteq 1..Len(queue) /\ Sight.stock \in Nat
  BY <1>1, SightFields DEF SightState
<1>3. CASE seen = Sight
  BY <1>1, <1>3
<1>4. CASE seen = [Sight EXCEPT !.order = w.seen.order]
  <2>1. seen = [order |-> w.seen.order, item |-> Sight.item, move |-> Sight.move,
                stock |-> Sight.stock]
    BY <1>2, <1>4
  <2> QED BY <1>1, <1>2, <2>1 DEF SightState, Held
<1>5. CASE seen = [Sight EXCEPT !.order = w.seen.order, !.item = w.seen.item]
  <2>1. seen = [order |-> w.seen.order, item |-> w.seen.item, move |-> Sight.move,
                stock |-> Sight.stock]
    <3> DEFINE k == [Sight EXCEPT !.order = w.seen.order]
    <3>1. k = [order |-> w.seen.order, item |-> Sight.item, move |-> Sight.move,
               stock |-> Sight.stock]
      BY <1>2
    <3>2. seen = [k EXCEPT !.item = w.seen.item]
      BY <1>5
    <3> HIDE DEF k
    <3> QED BY <3>1, <3>2
  <2> QED BY <1>1, <1>2, <2>1 DEF SightState, Held
<1> QED
  BY <1>3, <1>4, <1>5 DEF StillToRead

LEMMA LookStep ==
  ASSUME IInv, NEW w \in wire, NEW seen \in StillToRead(w), Look(w, seen)
  PROVE  IInv'
<1> DEFINE v == [w EXCEPT !.seen = seen]
<1>1. /\ Typed /\ LiveWaits /\ SeenIsHeld /\ w \in RequestState
      /\ UNCHANGED <<device, server, needFullPull, payload, reply, step>>
      /\ wire' = (wire \ {w}) \cup {v}
  BY NetTyped DEF IInv, Look
<1>2. v = [ops |-> w.ops, live |-> w.live, seen |-> seen]
  BY <1>1 DEF RequestState
<1> HIDE DEF v
<1>3. v \in RequestState /\ v.seen = seen /\ v.live = w.live
  BY <1>1, <1>2, LookHolds DEF RequestState
<1>4. wire' \subseteq RequestState
  BY <1>1, <1>3, NetTyped
<1>5. LiveWaits'
  <2>1. ASSUME NEW x \in wire', x.live PROVE step' = "push"
    BY <1>1, <1>3, <2>1 DEF LiveWaits
  <2>2. ASSUME NEW x \in wire', NEW y \in wire', x.live, y.live PROVE x = y
    BY <1>1, <1>3, <2>2 DEF LiveWaits
  <2> QED BY <2>1, <2>2 DEF LiveWaits
<1>6. cloud' = cloud /\ SeenIsHeld'
  BY <1>1, <1>3, LookHolds DEF SeenIsHeld, server
<1>7. reply' \in Answer /\ AnswerFits' /\ AnswerHolds' /\ step' \in CycleSteps
  BY <1>1, <1>6, NetTyped DEF IInv, AnswerFits, AnswerHolds
<1> QED
  BY <1>1, <1>4, <1>5, <1>6, <1>7, WireStep

LEMMA LoseRequestStep ==
  ASSUME IInv, NEW w \in wire, LoseRequest(w)
  PROVE  IInv'
<1>1. /\ UNCHANGED <<device, server, needFullPull, payload, reply, step>> /\ wire' = wire \ {w}
      /\ Typed
  BY DEF LoseRequest, IInv
<1>2. wire' \subseteq RequestState /\ LiveWaits' /\ step' \in CycleSteps
  BY <1>1, NetTyped DEF IInv, LiveWaits
<1>3. reply' \in Answer /\ AnswerFits' /\ AnswerHolds' /\ SeenIsHeld'
  BY <1>1, NetTyped DEF IInv, AnswerFits, AnswerHolds, SeenIsHeld, server
<1> QED
  BY <1>1, <1>2, <1>3, WireStep

\* What the server makes of a batch, in the words of section 6.
LEMMA PushResult ==
  ASSUME IInv, NEW w \in wire, NEW a, a = apply_push(w.ops, w.seen)
  PROVE  a \in Server /\ (Unique(a) => Worked(a, w.seen))
<1>1. /\ Typed /\ Formed /\ StockIsLedger /\ w.seen \in SightState /\ Held(w.seen, cloud)
  BY NetTyped DEF IInv, RequestState, SeenIsHeld
<1>2. \A ops : apply_push(ops, w.seen) \in Served(w.seen)
  BY <1>1, PushServed
<1> QED
  BY <1>2 DEF Served

LEMMA ServePushStep ==
  ASSUME IInv, NEW w \in wire, ServePush(w)
  PROVE  IInv'
<1>1. PICK a : a = apply_push(w.ops, w.seen)
  OBVIOUS
<1>2. a \in Server /\ Worked(a, w.seen)
  BY <1>1, PushResult DEF ServePush
<1>3. /\ cloud' = a.cloud /\ lost' = a.lost /\ overtaken' = a.overtaken /\ wire' = wire \ {w}
      /\ effect' = [i \in DOMAIN effect |-> effect[i] + IF i \in a.done THEN 1 ELSE 0]
      /\ IF w.live
           THEN step' = "replied" /\ reply' = [ids |-> a.ids, conflicts |-> a.conflicts]
           ELSE UNCHANGED <<step, reply>>
      /\ UNCHANGED <<device, needFullPull, payload, rest, others>>
  BY <1>1 DEF ServePush
<1>4. /\ Typed /\ LiveWaits /\ Once /\ queue' = queue
      /\ overtaken \subseteq overtaken' /\ Grows(cloud, cloud', overtaken')
  BY <1>2, <1>3 DEF IInv, device, Worked
<1>5. w.live => step = "push"
  BY <1>4 DEF LiveWaits
<1>6. /\ step' \in CycleSteps /\ (step' = "ingest" <=> step = "ingest")
  BY <1>3, <1>4, <1>5, NetTyped DEF CycleSteps
<1>7. wire' \subseteq RequestState /\ LiveWaits'
  BY <1>3, <1>4, NetTyped DEF LiveWaits, RequestState
<1>8. reply' \in Answer /\ AnswerFits'
  BY <1>2, <1>3, <1>4, NetTyped DEF Server, Worked, Answer, AnswerFits, IInv
<1>9. AnswerHolds'
  <2>1. CASE w.live
    BY <1>2, <1>3, <2>1 DEF AnswerHolds, Worked
  <2>2. CASE ~w.live
    BY <1>3, <1>4, <2>2, AnswerKeeps
  <2> QED BY <2>1, <2>2
<1>10. StockIsLedger'
  BY <1>2, <1>3, <1>4 DEF Worked, Ledger, StockIsLedger
<1>11. effect' \in [1..MaxOps -> Nat]
  BY <1>3, <1>4, NetTyped
<1>12. Once'
  <2> SUFFICES ASSUME NEW i \in 1..MaxOps
               PROVE  \/ effect'[i] = 0
                      \/ /\ i \in 1..Len(queue)
                         /\ Exempt(i, overtaken') \/ (effect'[i] = 1 /\ Took(cloud', i))
    BY <1>4 DEF Once, Took, Exempt, IsUpdate
  <2>1. /\ effect[i] \in Nat
        /\ \/ effect[i] = 0
           \/ /\ i \in 1..Len(queue)
              /\ Exempt(i, overtaken) \/ (effect[i] = 1 /\ Took(cloud, i))
    BY <1>4, NetTyped DEF Once
  <2>2. effect'[i] = effect[i] + IF i \in a.done THEN 1 ELSE 0
    BY <1>3, <1>4, NetTyped
  <2>3. Exempt(i, overtaken) => Exempt(i, overtaken')
    BY <1>4 DEF Exempt
  <2>4. CASE i \in a.done
    <3>1. /\ i \in 1..Len(queue)
          /\ Exempt(i, overtaken') \/ (Took(cloud', i) /\ ~Took(cloud, i))
      BY <1>2, <1>3, <2>4 DEF Server, Worked
    <3>2. effect'[i] = effect[i] + 1
      BY <2>2, <2>4
    <3>3. effect[i] = 0 => effect'[i] = 1
      BY <3>2
    <3> HIDE DEF Exempt
    <3> QED BY <2>1, <2>3, <3>1, <3>3
  <2>5. CASE i \notin a.done
    <3>1. effect'[i] = effect[i]
      BY <2>1, <2>2, <2>5
    <3>2. ASSUME i \in 1..Len(queue), Took(cloud, i)
          PROVE  Took(cloud', i) \/ Exempt(i, overtaken')
      <4>1. queue[i].operation \in {"create", "update"}
        BY <1>4, <3>2, QueueTyped
      <4> QED BY <1>4, <3>2, <4>1, CloudTyped, TookStays DEF IInv
    <3> QED BY <2>1, <2>3, <3>1, <3>2
  <2> QED BY <2>4, <2>5
<1>13. /\ cloud' \in CloudState /\ Marked(cloud, cloud')
       /\ lost' \in Int /\ overtaken' \subseteq Order
  BY <1>2, <1>3 DEF Server, Worked
<1>14. rest' \in RestState /\ others' \in OthersState
  BY <1>3, <1>4, NetTyped
<1>15. SeenIsHeld' /\ RestFits'
  BY <1>3, <1>4, SeenKeeps, RestKeeps
<1> QED
  BY <1>3, <1>4, <1>6, <1>7, <1>8, <1>9, <1>10, <1>11, <1>12, <1>13, <1>14, <1>15, CloudStep

LEMMA AnswerUncommittedStep ==
  ASSUME IInv, NEW w \in wire, AnswerUncommitted(w)
  PROVE  IInv'
<1>1. PICK a : a = apply_push(w.ops, w.seen)
  OBVIOUS
<1>2. a.ids \subseteq Key /\ a.conflicts \subseteq Finding /\ Fits(a.conflicts)
  BY <1>1, PushResult DEF AnswerUncommitted, Server, Worked
<1>3. /\ CommitFails /\ w.live /\ step' = "replied" /\ wire' = wire \ {w}
      /\ reply' = [ids |-> a.ids, conflicts |-> a.conflicts]
      /\ UNCHANGED <<device, server, needFullPull, payload>>
  BY <1>1 DEF AnswerUncommitted
<1>4. Typed /\ LiveWaits /\ step = "push" /\ cloud' = cloud
  BY <1>3 DEF IInv, LiveWaits, server
<1>5. wire' \subseteq RequestState /\ LiveWaits' /\ SeenIsHeld'
  BY <1>3, <1>4, NetTyped DEF LiveWaits, RequestState, SeenIsHeld, IInv
<1>6. reply' \in Answer /\ AnswerFits' /\ AnswerHolds'
  BY <1>2, <1>3 DEF Answer, AnswerFits, AnswerHolds
<1>7. step' \in CycleSteps /\ (step' = "ingest" <=> step = "ingest")
  BY <1>3, <1>4 DEF CycleSteps
<1> QED
  BY <1>3, <1>4, <1>5, <1>6, <1>7, WireStep

\* Steps that leave the cloud's rows alone.
LEMMA CloudRestsStep ==
  ASSUME IInv, Longer, Moves(queue'), DOMAIN queue' = 1..Len(queue'),
         cloud'.order = cloud.order, cloud'.item = cloud.item,
         cloud'.move = cloud.move, cloud'.stock = cloud.stock,
         UNCHANGED <<rest, wire, past>>, reply'.ids \subseteq reply.ids,
         \A i \in 1..Len(queue') : queue'[i].state = "synced" =>
            \/ i \in 1..Len(queue) /\ (queue[i].state = "synced" \/ Present(Client(i), cloud))
            \/ CommitFails
  PROVE  Once' /\ StockIsLedger' /\ AnswerHolds' /\ Delivered' /\ SeenIsHeld' /\ RestFits'
<1>1. /\ Grows(cloud, cloud', overtaken')
      /\ UNCHANGED <<others, effect, lost, overtaken>>
  BY DEF Grows, past
<1>2. Once' /\ StockIsLedger' /\ AnswerHolds' /\ SeenIsHeld' /\ RestFits'
  BY <1>1, OnceKeeps, LedgerKeeps, AnswerKeeps, SeenKeeps, RestKeeps
<1>3. Delivered'
  <2>1. CASE CommitFails
    BY <2>1 DEF Delivered
  <2>2. CASE ~CommitFails
    BY <1>1, <2>2, DeliveredKeeps
  <2> QED BY <2>1, <2>2
<1> QED
  BY <1>2, <1>3

LEMMA SameQueue ==
  ASSUME IInv, UNCHANGED queue
  PROVE  /\ Longer /\ Moves(queue') /\ DOMAIN queue' = 1..Len(queue') /\ Formed'
         /\ \A i \in 1..Len(queue') : queue'[i].state = "synced" =>
               i \in 1..Len(queue) /\ queue[i].state = "synced"
BY QueueTyped DEF IInv, Longer, SameOp, Formed

\* A row the answer names takes over the conflict, or the acknowledgement.
LEMMA MarkedRow ==
  ASSUME IInv, markPushOutcome, NEW i \in 1..Len(queue)
  PROVE  /\ queue'[i] \in QueueRow /\ SameOp(queue[i], queue'[i])
         /\ queue'[i].cause.reason = "invalid_transition" => queue[i].entity = "order"
         /\ queue'[i].state = "synced" => queue[i].state = "synced" \/ Client(i) \in reply.ids
         /\ queue[i].state = "resolved" <=> queue'[i].state = "resolved"
<1> DEFINE found == {c \in reply.conflicts : c.client = Client(i)}
           c0 == CHOOSE c \in found : TRUE
           x == queue[i]
           parked == [entity |-> x.entity, operation |-> x.operation, order |-> x.order,
                      to |-> x.to, change |-> x.change, state |-> "conflict", cause |-> c0.cause]
           synced == [entity |-> x.entity, operation |-> x.operation, order |-> x.order,
                      to |-> x.to, change |-> x.change, state |-> "synced", cause |-> x.cause]
<1>1. /\ Typed /\ x \in QueueRow /\ i \in DOMAIN queue
      /\ x.cause.reason = "invalid_transition" => x.entity = "order"
  BY QueueTyped DEF IInv, Formed
<1>2. x = [entity |-> x.entity, operation |-> x.operation, order |-> x.order,
           to |-> x.to, change |-> x.change, state |-> x.state, cause |-> x.cause]
  BY <1>1 DEF QueueRow
<1>3. [x EXCEPT !.state = "synced"] = synced
  <2> HIDE DEF x
  <2> QED BY <1>2
<1>4. [x EXCEPT !.state = "conflict", !.cause = c0.cause] = parked
  <2> DEFINE y == [x EXCEPT !.state = "conflict"]
             k == c0.cause
  <2> HIDE DEF x
  <2>1. y = [entity |-> x.entity, operation |-> x.operation, order |-> x.order,
             to |-> x.to, change |-> x.change, state |-> "conflict", cause |-> x.cause]
    BY <1>2
  <2> HIDE DEF c0
  <2>2. [x EXCEPT !.state = "conflict", !.cause = k] = [y EXCEPT !.cause = k]
    OBVIOUS
  <2> HIDE DEF y, k
  <2>3. [y EXCEPT !.cause = k] =
          [entity |-> x.entity, operation |-> x.operation, order |-> x.order,
           to |-> x.to, change |-> x.change, state |-> "conflict", cause |-> k]
    BY <2>1
  <2> QED BY <2>2, <2>3 DEF k
<1>5. queue'[i] = IF x.state # "pending" THEN x
                  ELSE IF found # {} THEN [x EXCEPT !.state = "conflict", !.cause = c0.cause]
                  ELSE IF Client(i) \in reply.ids THEN [x EXCEPT !.state = "synced"]
                  ELSE x
  BY <1>1 DEF markPushOutcome
<1>6. CASE x.state # "pending"
  BY <1>1, <1>5, <1>6 DEF SameOp
<1>7. CASE x.state = "pending" /\ found # {}
  <2>1. c0 \in reply.conflicts /\ c0.client = Client(i)
    BY <1>7
  <2>2. /\ c0.cause \in Cause
        /\ c0.cause.reason = "invalid_transition" => c0.client[1] = "order"
    BY <2>1, NetTyped DEF IInv, Answer, Finding, AnswerFits, Fits
  <2>3. Client(i)[1] = x.entity
    BY ClientTyped DEF IInv
  <2>4. queue'[i] = parked
    BY <1>4, <1>5, <1>7
  <2> HIDE DEF c0, x, found
  <2>5. parked \in QueueRow /\ SameOp(x, parked) /\ parked.state = "conflict"
        /\ parked.cause = c0.cause
    BY <1>1, <2>2 DEF QueueRow, SameOp
  <2> HIDE DEF parked
  <2>6. x = queue[i]
    BY DEF x
  <2> QED
    BY <1>7, <2>1, <2>2, <2>3, <2>4, <2>5, <2>6
<1>8. CASE x.state = "pending" /\ found = {} /\ Client(i) \in reply.ids
  <2>1. queue'[i] = synced
    BY <1>3, <1>5, <1>8
  <2>2. synced \in QueueRow /\ SameOp(x, synced) /\ synced.state = "synced" /\ synced.cause = x.cause
    BY <1>1 DEF QueueRow, SameOp
  <2> HIDE DEF synced
  <2> QED
    BY <1>1, <1>8, <2>1, <2>2
<1>9. CASE x.state = "pending" /\ found = {} /\ Client(i) \notin reply.ids
  BY <1>1, <1>5, <1>9 DEF SameOp
<1> QED
  BY <1>6, <1>7, <1>8, <1>9

LEMMA markPushOutcomeStep ==
  ASSUME IInv, markPushOutcome
  PROVE  IInv'
<1>1. /\ Typed /\ Formed /\ step = "replied" /\ step' = "pull" /\ reply' = NoReply
      /\ UNCHANGED <<local, needFullPull, wire, payload>>
      /\ UNCHANGED <<cloud, rest, past>> /\ UNCHANGED <<others, effect, lost, overtaken>>
  BY DEF markPushOutcome, IInv, server, past
<1>2. DOMAIN queue = 1..Len(queue) /\ Len(queue) \in Nat /\ DOMAIN queue' = DOMAIN queue
  BY <1>1, QueueTyped DEF markPushOutcome
<1>3. queue' \in Seq(QueueRow) /\ Len(queue') = Len(queue)
  <2> DEFINE f == [i \in 1..Len(queue) |-> queue'[i]]
  <2>1. queue' = f
    BY <1>2 DEF markPushOutcome
  <2>2. \A i \in 1..Len(queue) : f[i] \in QueueRow
    BY MarkedRow
  <2>3. f \in [1..Len(queue) -> QueueRow]
    BY <2>2
  <2> HIDE DEF f
  <2> QED BY <1>2, <2>1, <2>3
<1>4. Longer /\ Moves(queue') /\ DOMAIN queue' = 1..Len(queue')
  <2>1. \A i \in 1..Len(queue') : queue'[i] \in QueueRow
    BY <1>3, MarkedRow
  <2>2. Moves(queue')
    BY <1>2, <1>3, <2>1 DEF Moves, QueueRow
  <2> QED BY <1>2, <1>3, <2>2, MarkedRow DEF Longer
<1>5. Formed'
  BY <1>1, <1>3, MarkedRow DEF Formed, SameOp
<1>6. NoReply \in Answer /\ NoReply.ids = {} /\ NoReply.conflicts = {}
  BY DEF NoReply, Answer
<1>7. Typed'
  <2>1. cloud' \in CloudState'
    BY <1>1, <1>3, CloudTyped DEF CloudState
  <2>2. wire' \subseteq RequestState' /\ payload' \in PullState'
    BY <1>1, <1>3, NetTyped DEF RequestState, SightState, PullState
  <2>3. /\ local' \in LocalState' /\ reply' \in Answer' /\ rest' \in RestState'
        /\ others' \in OthersState'
    BY <1>1, <1>6, NetTyped DEF LocalState, Answer, RestState, OthersState
  <2> QED
    BY <1>1, <1>3, <2>1, <2>2, <2>3, NetTyped DEF Typed, CycleSteps
<1>8. Once' /\ StockIsLedger' /\ AnswerHolds' /\ Delivered' /\ SeenIsHeld' /\ RestFits'
  <2>1. ASSUME NEW i \in 1..Len(queue'), queue'[i].state = "synced"
        PROVE  \/ CommitFails
               \/ i \in 1..Len(queue) /\ (queue[i].state = "synced" \/ Present(Client(i), cloud))
    BY <1>3, <2>1, MarkedRow DEF IInv, AnswerHolds
  <2> QED BY <1>1, <1>4, <1>6, <2>1, CloudRestsStep
<1>9. AnswerFits' /\ LiveWaits' /\ PayloadFresh'
  <2>1. AnswerFits'
    BY <1>1, <1>6 DEF AnswerFits, Fits
  <2>2. LiveWaits'
    BY <1>1 DEF IInv, LiveWaits
  <2>3. PayloadFresh'
    BY <1>1 DEF PayloadFresh
  <2> QED BY <2>1, <2>2, <2>3
<1>10. StockFollows'
  <2> SUFFICES ASSUME InState("resolved")' = {}, AllMovesIn', "stock" \notin Unpulled'
               PROVE  local.stock = cloud.stock
    BY <1>1 DEF StockFollows
  <2>1. InState("resolved") = {}
    BY <1>2, <1>3, MarkedRow DEF InState
  <2>2. AllMovesIn
    BY <1>1, <1>3, MarkedRow DEF AllMovesIn, SameOp
  <2>3. "stock" \notin Unpulled
    BY <1>1 DEF Unpulled
  <2> QED
    BY <2>1, <2>2, <2>3 DEF IInv, StockFollows
<1> QED
  BY <1>5, <1>7, <1>8, <1>9, <1>10 DEF IInv

LEMMA ServePullStep ==
  ASSUME IInv, ServePull
  PROVE  IInv'
<1>1. PICK again \in SUBSET Rows, rows \in SUBSET Rows :
        /\ rows = IF needFullPull THEN Rows ELSE cloud.changed \cup again
        /\ payload' = [rows |-> rows, full |-> needFullPull,
                       order |-> [o \in Order |-> IF o \in rows THEN cloud.order[o] ELSE "absent"],
                       item |-> IF needFullPull THEN cloud.item ELSE {},
                       move |-> IF needFullPull THEN cloud.move ELSE {},
                       stock |-> IF "stock" \in rows THEN cloud.stock ELSE 0]
  <2>1. Typed
    BY DEF IInv
  <2>2. PICK again \in SUBSET Rows :
          LET rows == IF needFullPull THEN Rows ELSE cloud.changed \cup again IN
          payload' = [rows |-> rows, full |-> needFullPull,
                      order |-> [o \in Order |-> IF o \in rows THEN cloud.order[o] ELSE "absent"],
                      item |-> IF needFullPull THEN cloud.item ELSE {},
                      move |-> IF needFullPull THEN cloud.move ELSE {},
                      stock |-> IF "stock" \in rows THEN cloud.stock ELSE 0]
    BY DEF ServePull
  <2> DEFINE rows == IF needFullPull THEN Rows ELSE cloud.changed \cup again
  <2>3. rows \in SUBSET Rows
    BY <2>1, CloudTyped
  <2> QED BY <2>2, <2>3
<1>2. /\ Typed /\ Formed /\ step = "pull" /\ step' = "ingest"
      /\ UNCHANGED <<device, needFullPull, wire, reply>>
      /\ UNCHANGED <<queue, local>> /\ UNCHANGED <<rest, past>>
      /\ UNCHANGED <<others, effect, lost, overtaken>>
      /\ cloud' = [cloud EXCEPT !.changed = {}]
  BY DEF ServePull, IInv, device, past
<1>3. cloud' = [order |-> cloud.order, item |-> cloud.item, move |-> cloud.move,
                stock |-> cloud.stock, changed |-> {}]
  <2>1. cloud = [order |-> cloud.order, item |-> cloud.item, move |-> cloud.move,
                 stock |-> cloud.stock, changed |-> cloud.changed]
    BY <1>2, CloudTyped, CloudFields
  <2> QED BY <1>2, <2>1
<1>4. /\ cloud'.order = cloud.order /\ cloud'.item = cloud.item /\ cloud'.move = cloud.move
      /\ cloud'.stock = cloud.stock /\ cloud'.changed = {} /\ cloud' \in CloudState
  BY <1>2, <1>3, CloudTyped DEF CloudState
<1>5. payload' \in PullState /\ payload'.rows = rows
      /\ ("stock" \in rows => payload'.stock = cloud.stock)
  <2>1. needFullPull \in BOOLEAN /\ "absent" \in OrderStatus
    BY <1>2, NetTyped, Statuses
  <2>2. [o \in Order |-> IF o \in rows THEN cloud.order[o] ELSE "absent"] \in [Order -> OrderStatus]
    BY <1>2, <2>1, CloudTyped
  <2>3. (IF needFullPull THEN cloud.item ELSE {}) \in SUBSET Order
    BY <1>2, CloudTyped
  <2>4. (IF needFullPull THEN cloud.move ELSE {}) \in SUBSET (1..Len(queue))
    BY <1>2, CloudTyped
  <2>5. (IF "stock" \in rows THEN cloud.stock ELSE 0) \in Nat
    BY <1>2, CloudTyped
  <2> QED
    BY <1>1, <2>1, <2>2, <2>3, <2>4, <2>5 DEF PullState
<1>6. Typed'
  <2>1. /\ local' \in LocalState' /\ cloud' \in CloudState' /\ wire' \subseteq RequestState'
        /\ reply' \in Answer' /\ payload' \in PullState' /\ rest' \in RestState'
        /\ others' \in OthersState'
    BY <1>2, <1>4, <1>5, NetTyped, SameTypes
  <2>2. step' \in CycleSteps
    BY <1>2 DEF CycleSteps
  <2> QED
    BY <1>2, <2>1, <2>2, NetTyped DEF Typed, CycleSteps
<1>7. Once' /\ StockIsLedger' /\ AnswerHolds' /\ Delivered' /\ SeenIsHeld' /\ RestFits'
  BY <1>2, <1>4, SameQueue, CloudRestsStep
<1>8. Formed' /\ AnswerFits' /\ LiveWaits'
  BY <1>2, SameQueue DEF IInv, AnswerFits, LiveWaits
<1>9. PayloadFresh'
  BY <1>4, <1>5 DEF PayloadFresh
<1>10. StockFollows'
  <2> SUFFICES ASSUME InState("resolved")' = {}, AllMovesIn', "stock" \notin Unpulled'
               PROVE  local.stock = cloud.stock
    BY <1>2, <1>4 DEF StockFollows
  <2>1. "stock" \notin rows
    BY <1>2, <1>5 DEF Unpulled
  <2>2. "stock" \notin Unpulled
    BY <1>1, <1>2, <2>1 DEF Unpulled, Rows
  <2>3. InState("resolved") = {} /\ AllMovesIn
    BY <1>2, <1>4 DEF InState, AllMovesIn
  <2> QED
    BY <2>2, <2>3 DEF IInv, StockFollows
<1> QED
  BY <1>6, <1>7, <1>8, <1>9, <1>10 DEF IInv

LEMMA applyPullStep ==
  ASSUME IInv, applyPull
  PROVE  IInv'
<1> DEFINE orders == [o \in Order |-> IF o \in payload.rows /\ payload.order[o] # "absent"
                                        THEN payload.order[o] ELSE local.order[o]]
           level == IF "stock" \in payload.rows THEN payload.stock ELSE local.stock
<1>1. /\ Typed /\ Formed /\ step = "ingest" /\ step' = "idle" /\ needFullPull' = FALSE
      /\ payload' = NoPayload /\ UNCHANGED <<queue, wire, reply>>
      /\ UNCHANGED <<cloud, rest, past>> /\ UNCHANGED <<others, effect, lost, overtaken>>
      /\ local' = [local EXCEPT !.order = orders, !.stock = level]
  BY DEF applyPull, IInv, server, past
<1>2. orders \in [Order -> OrderStatus] /\ level \in Nat
  <2>1. payload.order \in [Order -> OrderStatus] /\ payload.stock \in Nat
    BY <1>1, NetTyped DEF PullState
  <2> QED BY <1>1, <2>1, LocalFields
<1>3. local' \in LocalState /\ local'.stock = level
  <2> HIDE DEF orders, level
  <2>1. local' = [order |-> orders, qty |-> local.qty, stock |-> level, corrected |-> local.corrected]
    BY <1>1, LocalFields
  <2> QED BY <1>1, <1>2, <2>1, LocalFields DEF LocalState
<1>4. NoPayload \in PullState
  BY Statuses DEF NoPayload, NoOrders, PullState
<1>5. Typed'
  <2>1. /\ local' \in LocalState' /\ cloud' \in CloudState' /\ wire' \subseteq RequestState'
        /\ reply' \in Answer' /\ payload' \in PullState' /\ rest' \in RestState'
        /\ others' \in OthersState'
    BY <1>1, <1>3, <1>4, NetTyped, CloudTyped, SameTypes
  <2>2. step' \in CycleSteps
    BY <1>1 DEF CycleSteps
  <2> QED
    BY <1>1, <2>1, <2>2, NetTyped DEF Typed, CycleSteps
<1>6. Once' /\ StockIsLedger' /\ AnswerHolds' /\ Delivered' /\ SeenIsHeld' /\ RestFits'
  BY <1>1, SameQueue, CloudRestsStep
<1>7. Formed' /\ AnswerFits'
  BY <1>1, SameQueue DEF IInv, AnswerFits
<1>8. LiveWaits' /\ PayloadFresh'
  BY <1>1 DEF IInv, LiveWaits, PayloadFresh
<1>9. StockFollows'
  <2> SUFFICES ASSUME InState("resolved")' = {}, AllMovesIn', "stock" \notin Unpulled'
               PROVE  level = cloud.stock
    BY <1>1, <1>3 DEF StockFollows
  <2>1. "stock" \notin cloud.changed
    BY <1>1 DEF Unpulled
  <2>2. CASE "stock" \in payload.rows
    BY <1>1, <2>1, <2>2 DEF IInv, PayloadFresh
  <2>3. CASE "stock" \notin payload.rows
    <3>1. InState("resolved") = {} /\ AllMovesIn
      BY <1>1 DEF InState, AllMovesIn
    <3>2. "stock" \notin Unpulled
      BY <2>1, <2>3 DEF Unpulled
    <3> QED BY <2>3, <3>1, <3>2 DEF IInv, StockFollows
  <2> QED BY <2>2, <2>3
<1> QED
  BY <1>5, <1>6, <1>7, <1>8, <1>9 DEF IInv

-------------------------------------------------------------------------------
(* 11. The steps: other users of the cloud *)

\* Another user's request is taken up, reads on, or comes to nothing.
LEMMA RestStep ==
  ASSUME IInv, UNCHANGED <<device, net, cloud, effect, lost, overtaken>>,
         rest' \in RestState, RestFits', others' \in OthersState, others'.stock = others.stock
  PROVE  IInv'
<1>1. /\ Typed /\ queue' = queue /\ UNCHANGED <<step, needFullPull, wire, reply, payload>>
      /\ UNCHANGED <<cloud, effect, lost, overtaken>>
  BY DEF IInv, device, net
<1>2. cloud' \in CloudState /\ Grows(cloud, cloud', overtaken') /\ Marked(cloud, cloud')
  BY <1>1, CloudTyped DEF Grows, Marked
<1>3. StockIsLedger'
  BY <1>1 DEF IInv, StockIsLedger
<1>4. Once'
  BY <1>1 DEF IInv, Once, Took, Exempt, IsUpdate
<1>5. LiveWaits' /\ SeenIsHeld' /\ AnswerFits' /\ AnswerHolds'
  BY <1>1 DEF IInv, LiveWaits, SeenIsHeld, AnswerFits, AnswerHolds
<1>6. /\ step' \in CycleSteps /\ wire' \subseteq RequestState /\ reply' \in Answer
      /\ effect' \in [1..MaxOps -> Nat] /\ lost' \in Int /\ overtaken' \subseteq Order
  BY <1>1, NetTyped
<1> QED
  BY <1>1, <1>2, <1>3, <1>4, <1>5, <1>6, CloudStep

LEMMA NoRestFits ==
  ASSUME rest' = NoRest
  PROVE  rest' \in RestState /\ RestFits'
BY DEF NoRest, RestState, RestFits

LEMMA VisitStep ==
  ASSUME IInv, NEW request \in RestState, Visit(request),
         request.stock + request.change >= 0,
         request.order # "none" =>
            /\ Legal(request.from, request.to) /\ request.change >= 0
            /\ cloud.order[request.order] # "absent"
  PROVE  IInv'
<1>1. /\ Typed /\ rest' = request /\ others' = [others EXCEPT !.changes = others.changes + 1]
      /\ UNCHANGED <<device, net, cloud, effect, lost, overtaken>>
  BY DEF Visit, IInv
<1>2. others' \in OthersState /\ others'.stock = others.stock
  BY <1>1, NetTyped DEF OthersState
<1>3. RestFits'
  BY <1>1 DEF RestFits
<1> QED
  BY <1>1, <1>2, <1>3, RestStep

LEMMA CloudStatusStep ==
  ASSUME IInv, NEW o \in Order, NEW s \in Status, CloudStatus(o, s)
  PROVE  IInv'
<1> DEFINE back == IF s = "cancelled" /\ o \in cloud.item THEN local.qty[o] ELSE 0
           request == [order |-> o, from |-> cloud.order[o], to |-> s, change |-> back,
                       stock |-> cloud.stock]
<1>1. Typed /\ Legal(cloud.order[o], s) /\ Visit(request)
  BY DEF CloudStatus, IInv
<1>2. back \in Nat /\ cloud.stock \in Nat /\ cloud.order[o] \in Status
  BY <1>1, LocalFields, CloudTyped DEF Legal
<1> HIDE DEF back
<1>3. request \in RestState
  BY <1>2 DEF RestState
<1>4. cloud.order[o] # "absent"
  BY <1>2 DEF Status
<1>5. request.stock + request.change >= 0 /\ request.change >= 0
  BY <1>2
<1>6. request.order = o /\ request.from = cloud.order[o] /\ request.to = s
  OBVIOUS
<1> HIDE DEF request
<1> QED
  BY <1>1, <1>3, <1>4, <1>5, <1>6, VisitStep

LEMMA CloudAdjustStep ==
  ASSUME IInv, NEW d \in Changes, CloudAdjust(d)
  PROVE  IInv'
<1> DEFINE request == [order |-> "none", from |-> "none", to |-> "none", change |-> d,
                       stock |-> cloud.stock]
<1>1. Typed /\ d \in Int /\ cloud.stock \in Nat /\ cloud.stock + d >= 0 /\ Visit(request)
  BY SyncAssumption, CloudTyped DEF CloudAdjust, IInv, Changes
<1>2. request \in RestState /\ request.stock + request.change >= 0 /\ request.order = "none"
  BY <1>1 DEF RestState
<1> HIDE DEF request
<1> QED
  BY <1>1, <1>2, VisitStep

LEMMA LoadProductStep ==
  ASSUME IInv, LoadProduct
  PROVE  IInv'
<1>1. /\ Typed /\ RestFits /\ UNCHANGED <<device, net, cloud, past>>
      /\ rest' = [rest EXCEPT !.stock = cloud.stock] /\ rest.order # "none"
      /\ UNCHANGED <<others, effect, lost, overtaken>>
  BY DEF LoadProduct, IInv, past
<1>2. rest \in RestState /\ cloud.stock \in Nat
  BY <1>1, NetTyped, CloudTyped
<1>3. rest' = [order |-> rest.order, from |-> rest.from, to |-> rest.to,
               change |-> rest.change, stock |-> cloud.stock]
  BY <1>1, <1>2 DEF RestState
<1>4. rest' \in RestState
  BY <1>2, <1>3 DEF RestState
<1>5. rest'.stock + rest'.change >= 0
  <2>1. rest.change \in Int /\ rest.change >= 0 /\ rest'.stock = cloud.stock /\ rest'.change = rest.change
    BY <1>1, <1>2, <1>3 DEF RestState, RestFits
  <2> QED BY <1>2, <2>1
<1>6. RestFits'
  BY <1>1, <1>3, <1>5 DEF RestFits
<1> QED
  BY <1>1, <1>4, <1>6, NetTyped, RestStep

LEMMA RefuseRestStep ==
  ASSUME IInv, RefuseRest
  PROVE  IInv'
<1>1. /\ Typed /\ rest' = NoRest /\ UNCHANGED <<device, net, cloud, past>>
      /\ UNCHANGED <<others, effect, lost, overtaken>>
  BY DEF RefuseRest, IInv, past
<1> QED
  BY <1>1, NetTyped, NoRestFits, RestStep

\* What the commit of another user's request leaves in the cloud.
LEMMA RestWrites ==
  ASSUME IInv, CommitRest
  PROVE  /\ cloud' \in CloudState /\ Marked(cloud, cloud')
         /\ Grows(cloud, cloud', overtaken') /\ overtaken \subseteq overtaken'
         /\ \A o \in Order : cloud'.order[o] = IF o = rest.order THEN rest.to ELSE cloud.order[o]
         /\ cloud'.item = cloud.item /\ cloud'.move = cloud.move
         /\ cloud'.stock = IF rest.change = 0 THEN cloud.stock ELSE rest.stock + rest.change
         /\ \A o \in Order : o = rest.order => Legal(rest.from, rest.to)
<1> DEFINE orders == {o \in Order : o = rest.order}
           level == IF rest.change = 0 THEN cloud.stock ELSE rest.stock + rest.change
           rows == (IF rest.order = "none" THEN {} ELSE {rest.order})
                     \cup (IF rest.change = 0 THEN {} ELSE {"stock"})
           f == [o \in Order |-> IF o \in orders THEN rest.to ELSE cloud.order[o]]
           changed == cloud.changed \cup rows
           c == [order |-> f, item |-> cloud.item, move |-> cloud.move, stock |-> level,
                 changed |-> changed]
<1>1. /\ Typed /\ RestFits /\ rest \in RestState /\ cloud \in CloudState
      /\ cloud.order \in [Order -> OrderStatus] /\ cloud.stock \in Nat
      /\ overtaken' = overtaken \cup {o \in orders : cloud.order[o] # rest.from}
  BY NetTyped, CloudTyped DEF IInv, CommitRest
<1>2. cloud' = c
  <2>1. cloud' = [cloud EXCEPT !.order = f, !.stock = level, !.changed = changed]
    BY DEF CommitRest
  <2>2. cloud = [order |-> cloud.order, item |-> cloud.item, move |-> cloud.move,
                 stock |-> cloud.stock, changed |-> cloud.changed]
    BY <1>1, CloudFields
  <2> HIDE DEF f, level, changed
  <2> QED BY <2>1, <2>2
<1>3. ASSUME NEW o \in Order, o = rest.order
      PROVE  /\ Legal(rest.from, rest.to) /\ rest.to \in Status /\ rest.to \in Later[rest.from]
             /\ cloud.order[o] # "absent"
  <2>1. o # "none"
    BY SyncAssumption
  <2>2. Legal(rest.from, rest.to) /\ cloud.order[o] # "absent"
    BY <1>1, <1>3, <2>1 DEF RestFits
  <2> QED BY <2>2, LegalIsLater
<1>4. f \in [Order -> OrderStatus]
  BY <1>1, <1>3 DEF OrderStatus
<1>5. level \in Nat
  BY <1>1 DEF RestState, RestFits
<1>6. changed \subseteq Rows
  BY <1>1, CloudTyped DEF RestState, Rows
<1>7. c \in CloudState
  <2> HIDE DEF f, level, changed
  <2> QED BY <1>1, <1>4, <1>5, <1>6 DEF CloudState
<1>8. ASSUME NEW o \in Order
      PROVE  \/ f[o] = cloud.order[o]
             \/ f[o] \in Later[cloud.order[o]]
             \/ o \in overtaken' /\ cloud.order[o] # "absent" /\ f[o] # "absent"
  <2>1. CASE o # rest.order
    BY <2>1
  <2>2. CASE o = rest.order /\ cloud.order[o] = rest.from
    BY <1>3, <2>2
  <2>3. CASE o = rest.order /\ cloud.order[o] # rest.from
    BY <1>1, <1>3, <2>3 DEF Status
  <2> QED BY <2>1, <2>2, <2>3
<1>9. Grows(cloud, c, overtaken')
  <2> HIDE DEF f, level, changed
  <2> QED BY <1>8 DEF Grows
<1>10. Marked(cloud, c)
  <2>1. cloud.changed \subseteq changed /\ ("stock" \in changed \/ level = cloud.stock)
    OBVIOUS
  <2> HIDE DEF f, level, changed
  <2> QED BY <2>1 DEF Marked
<1>11. \A o \in Order : f[o] = IF o = rest.order THEN rest.to ELSE cloud.order[o]
  OBVIOUS
<1>12. overtaken \subseteq overtaken'
  BY <1>1
<1>13. c.order = f /\ c.item = cloud.item /\ c.move = cloud.move /\ c.stock = level
  OBVIOUS
<1>14. \A o \in Order : o = rest.order => Legal(rest.from, rest.to)
  BY <1>3
<1> HIDE DEF c, f
<1> QED
  BY <1>2, <1>7, <1>9, <1>10, <1>11, <1>12, <1>13, <1>14

LEMMA CommitRestStep ==
  ASSUME IInv, CommitRest
  PROVE  IInv'
<1>1. /\ Typed /\ rest' = NoRest /\ UNCHANGED <<device, net, effect>>
      /\ UNCHANGED <<step, needFullPull, wire, reply, payload>> /\ queue' = queue
      /\ effect' = effect
      /\ others' = [others EXCEPT !.stock = others.stock + rest.change]
      /\ lost' = lost + (IF rest.change = 0 THEN 0 ELSE cloud.stock - rest.stock)
      /\ overtaken' = overtaken \cup
            {o \in {p \in Order : p = rest.order} : cloud.order[o] # rest.from}
  BY DEF CommitRest, IInv, device, net
<1>2. /\ rest.change \in Int /\ rest.stock \in Nat /\ cloud.stock \in Nat
      /\ lost \in Int /\ overtaken \subseteq Order /\ others \in OthersState
  BY <1>1, NetTyped, CloudTyped DEF RestState
<1>3. /\ cloud' \in CloudState /\ Marked(cloud, cloud')
      /\ Grows(cloud, cloud', overtaken') /\ overtaken \subseteq overtaken'
      /\ cloud'.move = cloud.move
      /\ cloud'.stock = IF rest.change = 0 THEN cloud.stock ELSE rest.stock + rest.change
  BY RestWrites
<1>4. others' = [changes |-> others.changes, stock |-> others.stock + rest.change]
  BY <1>1, <1>2 DEF OthersState
<1>5. others' \in OthersState /\ lost' \in Int /\ overtaken' \subseteq Order
  BY <1>1, <1>2, <1>4 DEF OthersState
<1>6. StockIsLedger'
  <2>1. PICK t \in Int : t = Total(queue, cloud.move)
    BY <1>1, QueueTyped, TotalTyped
  <2>2. PICK c \in Nat : c = cloud.stock
    BY <1>2
  <2>3. PICK r \in Nat : r = rest.stock
    BY <1>2
  <2>4. PICK d \in Int : d = rest.change
    BY <1>2
  <2>5. PICK p \in Int : p = others.stock
    BY <1>2 DEF OthersState
  <2>6. PICK l \in Int : l = lost
    BY <1>2
  <2>7. PICK m \in Nat : m = Opening
    BY SyncAssumption
  <2>8. c = m + p + t - l
    BY <2>1, <2>2, <2>5, <2>6, <2>7 DEF IInv, StockIsLedger
  <2>9. (IF d = 0 THEN c ELSE r + d)
          = m + (p + d) + t - (l + (IF d = 0 THEN 0 ELSE c - r))
    BY <2>8
  <2>10. others'.stock = p + d /\ lost' = l + (IF d = 0 THEN 0 ELSE c - r)
    BY <1>1, <1>4, <2>2, <2>3, <2>4, <2>5, <2>6
  <2>11. cloud'.stock = IF d = 0 THEN c ELSE r + d
    BY <1>3, <2>2, <2>3, <2>4
  <2>12. Total(queue', cloud'.move) = t
    BY <1>1, <1>3, <2>1
  <2> QED BY <2>7, <2>9, <2>10, <2>11, <2>12 DEF StockIsLedger
<1>7. Once' /\ SeenIsHeld' /\ AnswerHolds'
  BY <1>1, <1>3, SameQueue, OnceKeeps, SeenKeeps, AnswerKeeps
<1>8. LiveWaits' /\ AnswerFits'
  BY <1>1 DEF IInv, LiveWaits, AnswerFits
<1>9. /\ wire' \subseteq RequestState /\ reply' \in Answer /\ effect' \in [1..MaxOps -> Nat]
      /\ step' \in CycleSteps
  BY <1>1, NetTyped
<1> QED
  BY <1>1, <1>3, <1>5, <1>6, <1>7, <1>8, <1>9, NoRestFits, CloudStep

-------------------------------------------------------------------------------
(* 12. The theorems *)

\* Nothing is queued, nothing is under way, and both sides hold the opening stock.
LEMMA InitInv ==
  ASSUME Init
  PROVE  IInv
<1>1. /\ Len(queue) = 0 /\ queue \in Seq(QueueRow) /\ Len(queue) <= MaxOps
      /\ MaxOps \in Nat /\ Opening \in Nat
  BY SyncAssumption DEF Init
<1>2. NoOrders \in [Order -> OrderStatus]
  BY Statuses DEF NoOrders
<1>3. Typed
  <2>1. local \in LocalState
    BY <1>1, <1>2 DEF Init, LocalState
  <2>2. cloud \in CloudState
    BY <1>1, <1>2 DEF Init, CloudState
  <2>3. payload \in PullState
    BY <1>2 DEF Init, NoPayload, PullState
  <2>4. reply \in Answer /\ wire \subseteq RequestState
    BY DEF Init, NoReply, Answer, RequestState
  <2>5. /\ others \in OthersState /\ effect \in [1..MaxOps -> Nat]
        /\ lost \in Int /\ overtaken \subseteq Order /\ rest \in RestState
    BY DEF Init, OthersState, RestState, NoRest
  <2>6. step \in CycleSteps /\ needFullPull \in BOOLEAN
    BY DEF Init, CycleSteps
  <2> QED
    BY <1>1, <2>1, <2>2, <2>3, <2>4, <2>5, <2>6 DEF Typed
<1>4. Formed /\ AllMovesIn
  BY <1>1 DEF Formed, AllMovesIn
<1>5. AnswerFits /\ LiveWaits /\ Once /\ AnswerHolds /\ SeenIsHeld /\ RestFits
  BY DEF Init, NoReply, NoRest, AnswerFits, Fits, LiveWaits, Once, AnswerHolds, SeenIsHeld, RestFits
<1>6. StockIsLedger
  <2>1. Moves(queue)
    BY <1>1 DEF Moves
  <2>2. Total(queue, cloud.move) = 0
    BY <1>1, <2>1, TotalOfNone
  <2> QED
    BY <1>1, <2>2 DEF Init, StockIsLedger
<1>7. Delivered
  BY DEF Init, Delivered, CreatesDelivered, InState
<1>8. StockFollows /\ PayloadFresh
  BY DEF Init, StockFollows, PayloadFresh
<1> QED
  BY <1>3, <1>4, <1>5, <1>6, <1>7, <1>8 DEF IInv

LEMMA NextInv ==
  ASSUME IInv, Next
  PROVE  IInv'
<1>1. CASE \E o \in Order, q \in 1..MaxQty : CreateOrder(o, q)
  BY <1>1, CreateOrderStep
<1>2. CASE \E o \in Order, s \in Status :
             \/ SetStatus(o, s) \/ CloudStatus(o, s)
             \/ \E queued \in BOOLEAN : CrashInSetStatus(o, s, queued)
  BY <1>2, SetStatusStep, CloudStatusStep, CrashInSetStatusStep
<1>3. CASE \E d \in Changes : AdjustStock(d) \/ CloudAdjust(d)
  BY <1>3, AdjustStockStep, CloudAdjustStep
<1>4. CASE StartCycle \/ markPushOutcome \/ ServePull \/ applyPull
  BY <1>4, StartCycleStep, markPushOutcomeStep, ServePullStep, applyPullStep
<1>5. CASE RejectPull \/ GiveUp \/ Restart
  BY <1>5, GiveUpStep
<1>6. CASE \E w \in wire :
             \/ ServePush(w) \/ AnswerUncommitted(w) \/ LoseRequest(w)
             \/ \E seen \in StillToRead(w) : Look(w, seen)
  BY <1>6, ServePushStep, AnswerUncommittedStep, LoseRequestStep, LookStep
<1>8. CASE LoadProduct \/ CommitRest \/ RefuseRest
  BY <1>8, LoadProductStep, CommitRestStep, RefuseRestStep
<1>7. CASE \E i \in DOMAIN queue :
             \/ requeue(i) \/ DiscardMovement(i) \/ DiscardUnfounded(i)
             \/ \E s \in Status : ResolveTransition(i, s)
  BY <1>7, RequeueStep, DiscardMovementStep, DiscardUnfoundedStep, ResolveTransitionStep
<1> QED
  BY <1>1, <1>2, <1>3, <1>4, <1>5, <1>6, <1>7, <1>8 DEF Next

LEMMA StutterInv ==
  ASSUME IInv, UNCHANGED vars
  PROVE  IInv'
<1>1. /\ queue' = queue /\ UNCHANGED <<device, net, cloud, effect, lost, overtaken>>
      /\ rest' = rest /\ others' = others
  BY DEF vars, device, server, past
<1>2. rest' \in RestState /\ RestFits' /\ others' \in OthersState
  BY <1>1, NetTyped DEF IInv, RestFits
<1> QED
  BY <1>1, <1>2, RestStep

\* Whatever the network loses, repeats or delays, whatever a transaction
\* overwrites unseen, whenever the application or the server stops, and however
\* the user resolves conflicts, the invariant holds.
THEOREM OfflineInvariance == Spec => []IInv
<1>1. IInv /\ [Next]_vars => IInv'
  BY NextInv, StutterInv
<1> QED
  BY InitInv, <1>1, PTL DEF Spec

\* Every variable stays in its range; neither level of stock goes below zero.
THEOREM OfflineTypeCorrect == Spec => []TypeOK
<1>1. IInv => TypeOK
  <2> SUFFICES ASSUME IInv PROVE TypeOK
    OBVIOUS
  <2>1. Typed /\ DOMAIN queue = 1..Len(queue)
    BY QueueTyped DEF IInv
  <2>2. /\ local \in LocalState /\ queue \in Seq(QueueRow) /\ Len(queue) <= MaxOps
        /\ step \in CycleSteps /\ overtaken \subseteq Order
        /\ wire \subseteq RequestState /\ payload \in PullState /\ cloud \in CloudState
    BY <2>1, NetTyped, CloudTyped
  <2> QED
    BY <2>1, <2>2 DEF TypeOK, CycleSteps, LocalState, RequestState, PullState, CloudState
<1> QED
  BY <1>1, OfflineInvariance, PTL

\* ADR-002, rule 4: an operation pushed again after a lost answer, a timeout or
\* a restart does not change the cloud a second time; a status may, and only
\* when a transaction overwrote its order unseen.
THEOREM AppliedAtMostOnce == Spec => []EffectAtMostOnce
<1>1. IInv => EffectAtMostOnce
  <2> SUFFICES ASSUME IInv PROVE EffectAtMostOnce
    OBVIOUS
  <2>1. Once /\ DOMAIN effect = 1..MaxOps
    BY NetTyped DEF IInv
  <2> QED
    BY <2>1 DEF Once, Exempt, EffectAtMostOnce
<1> QED
  BY <1>1, OfflineInvariance, PTL

\* Stock syncs as operations: no push, refusal, retry or pull makes or loses a
\* unit the movements do not account for, but for the changes that a transaction
\* overwrote with a level it had read before them.
THEOREM StockIsItsMovements == Spec => []StockIsLedger
<1>1. IInv => StockIsLedger
  BY DEF IInv
<1> QED
  BY <1>1, OfflineInvariance, PTL

\* A server that commits what it answers never lets a row be shown as synced
\* that the cloud does not hold, however late it processes a request.
THEOREM SyncedRowsAreInTheCloud == ~CommitFails => (Spec => []CreatesDelivered)
<1>1. ~CommitFails /\ IInv => CreatesDelivered
  BY DEF IInv, Delivered
<1>2. SUFFICES ASSUME ~CommitFails PROVE Spec => []CreatesDelivered
  OBVIOUS
<1>3. IInv => CreatesDelivered
  BY <1>1, <1>2
<1> QED
  BY <1>3, OfflineInvariance, PTL

\* A server that commits what it answers leaves a quiet device, everything
\* synced and pulled, with the stock of the cloud.
THEOREM StockAgreesWhenQuiet == ~CommitFails => (Spec => []StockConverges)
<1>1. ASSUME ~CommitFails, IInv, Quiet, InState("synced") = DOMAIN queue
      PROVE  local.stock = cloud.stock
  <2>1. /\ DOMAIN queue = 1..Len(queue)
        /\ \A i \in 1..Len(queue) : queue[i].state = "synced"
    BY <1>1, QueueTyped DEF IInv, InState
  <2>2. InState("resolved") = {}
    BY <2>1 DEF InState
  <2>3. AllMovesIn
    <3> SUFFICES ASSUME NEW i \in 1..Len(queue), queue[i].entity = "stock_movement"
                 PROVE  i \in cloud.move
      BY DEF AllMovesIn
    <3>1. i \in InState("synced") /\ queue[i].operation = "create"
      BY <1>1, <2>1 DEF IInv, Formed
    <3>2. InCloud(i)
      BY <1>1, <3>1 DEF IInv, Delivered, CreatesDelivered
    <3> QED
      BY <3>2 DEF InCloud
  <2>4. "stock" \notin Unpulled
    BY <1>1 DEF Quiet, Unpulled
  <2> QED
    BY <1>1, <2>2, <2>3, <2>4 DEF IInv, StockFollows
<1>2. SUFFICES ASSUME ~CommitFails PROVE Spec => []StockConverges
  OBVIOUS
<1>3. IInv => StockConverges
  BY <1>1, <1>2 DEF StockConverges
<1> QED
  BY <1>3, OfflineInvariance, PTL

\* An order of the cloud after a step: as it was, further on, or further on than
\* a transaction that this step ends had read it.
Forward(o) ==
    \/ cloud'.order[o] = cloud.order[o]
    \/ cloud'.order[o] \in Later[cloud.order[o]]
    \/ \E from \in Read(o) : from # cloud.order[o] /\ cloud'.order[o] \in Later[from]

\* The cloud's rows after a step: those it had, and orders that moved forward.
LEMMA CloudMoves ==
  ASSUME IInv, [Next]_vars
  PROVE  Grows(cloud, cloud', overtaken') /\ \A o \in Order : Forward(o)
<1> DEFINE Same == cloud'.order = cloud.order /\ cloud'.item = cloud.item /\ cloud'.move = cloud.move
           Moved == Grows(cloud, cloud', overtaken') /\ \A o \in Order : Forward(o)
<1>1. Same => Moved
  BY DEF Grows, Forward
<1>2. Typed
  BY DEF IInv
<1>3. (cloud' = cloud \/ cloud' = Unread) => Same
  BY <1>2, UnreadFields
<1>4. CASE UNCHANGED cloud
  BY <1>1, <1>3, <1>4
<1>5. CASE Catch \/ Forget
  BY <1>1, <1>3, <1>5 DEF Catch, Forget
<1>6. CASE ServePull
  <2>1. cloud' = [cloud EXCEPT !.changed = {}]
    BY <1>6 DEF ServePull
  <2> QED
    BY <1>1, <1>2, <2>1, CloudTyped
<1>7. ASSUME NEW w \in wire, ServePush(w) PROVE Moved
  <2>1. PICK a : a = apply_push(w.ops, w.seen)
    OBVIOUS
  <2>2. /\ cloud' = a.cloud /\ overtaken' = a.overtaken /\ wire' = wire \ {w}
        /\ Worked(a, w.seen)
    BY <1>7, <2>1, PushResult DEF ServePush
  <2>3. \A o \in Order : w.seen.order[o] \in Read(o)
    BY <2>2 DEF Read
  <2>4. ASSUME NEW o \in Order PROVE Forward(o)
    <3>1. \/ cloud'.order[o] = cloud.order[o]
          \/ cloud'.order[o] \in Later[w.seen.order[o]]
      BY <2>2 DEF Worked, Follows
    <3> QED BY <2>3, <3>1 DEF Forward
  <2> QED BY <2>2, <2>4 DEF Worked
<1>8. CASE CommitRest
  <2>1. ASSUME NEW o \in Order PROVE Forward(o)
    <3>1. CASE o # rest.order
      BY <1>8, <3>1, RestWrites DEF Forward
    <3>2. CASE o = rest.order
      <4>1. rest.from \in Read(o)
        BY <1>8, <3>2 DEF CommitRest, Read
      <4>2. cloud'.order[o] = rest.to /\ rest.to \in Later[rest.from]
        BY <1>8, <3>2, RestWrites, LegalIsLater
      <4> QED BY <4>1, <4>2 DEF Forward
    <3> QED BY <3>1, <3>2
  <2> QED BY <1>8, <2>1, RestWrites
<1>10. CASE UNCHANGED vars
  BY <1>4, <1>10 DEF vars, server
<1>11. CASE Next
  <2>1. CASE \E o \in Order, q \in 1..MaxQty : CreateOrder(o, q)
    BY <1>4, <2>1 DEF CreateOrder, server
  <2>2. CASE \E o \in Order, s \in Status :
               \/ SetStatus(o, s) \/ CloudStatus(o, s)
               \/ \E queued \in BOOLEAN : CrashInSetStatus(o, s, queued)
    BY <1>4, <1>5, <2>2 DEF SetStatus, CrashInSetStatus, CloudStatus, Visit, server
  <2>3. CASE \E d \in Changes : AdjustStock(d) \/ CloudAdjust(d)
    BY <1>4, <2>3 DEF AdjustStock, CloudAdjust, Visit, server
  <2>4. CASE StartCycle \/ markPushOutcome \/ ServePull \/ applyPull
    BY <1>4, <1>6, <2>4 DEF StartCycle, markPushOutcome, applyPull, server
  <2>5. CASE RejectPull \/ GiveUp \/ Restart
    BY <1>5, <2>5 DEF RejectPull, GiveUp, Restart
  <2>6. CASE \E w \in wire :
               \/ ServePush(w) \/ AnswerUncommitted(w) \/ LoseRequest(w)
               \/ \E seen \in StillToRead(w) : Look(w, seen)
    BY <1>4, <1>7, <2>6 DEF AnswerUncommitted, LoseRequest, Look, server
  <2>7. CASE LoadProduct \/ CommitRest \/ RefuseRest
    BY <1>4, <1>8, <2>7 DEF LoadProduct, RefuseRest
  <2>8. CASE \E i \in DOMAIN queue :
               \/ requeue(i) \/ DiscardMovement(i) \/ DiscardUnfounded(i)
               \/ \E s \in Status : ResolveTransition(i, s)
    BY <1>4, <2>8 DEF requeue, DiscardMovement, DiscardUnfounded, ResolveTransition, server
  <2> QED
    BY <1>11, <2>1, <2>2, <2>3, <2>4, <2>5, <2>6, <2>7, <2>8 DEF Next
<1> QED
  BY <1>10, <1>11

\* The server never trusts the client: whatever is stale, repeated or late, an
\* order in the cloud only moves forward, at worst from the status that a push
\* or a request had read before another transaction moved it.
THEOREM CloudOrdersNeverGoBack == Spec => CloudOrdersMoveForward
<1> DEFINE Ahead == \A o \in Order :
              \/ cloud'.order[o] = cloud.order[o]
              \/ cloud'.order[o] \in Later[cloud.order[o]]
              \/ \E from \in Read(o) : from # cloud.order[o] /\ cloud'.order[o] \in Later[from]
<1>1. IInv /\ [Next]_vars => [Ahead]_vars
  BY CloudMoves DEF Forward
<1> QED
  BY <1>1, OfflineInvariance, PTL DEF Spec, CloudOrdersMoveForward

\* What a push has put into the cloud stays, whatever is overwritten: no later
\* push, refusal or status change takes an order, an item or a movement out.
THEOREM CloudKeepsItsRows ==
    Spec => [][/\ \A o \in Order : cloud.order[o] # "absent" => cloud'.order[o] # "absent"
               /\ cloud.item \subseteq cloud'.item /\ cloud.move \subseteq cloud'.move]_vars
<1> DEFINE Keeps == /\ \A o \in Order : cloud.order[o] # "absent" => cloud'.order[o] # "absent"
                    /\ cloud.item \subseteq cloud'.item /\ cloud.move \subseteq cloud'.move
<1>1. ASSUME IInv, [Next]_vars PROVE Keeps
  <2>1. Grows(cloud, cloud', overtaken') /\ \A o \in Order : cloud.order[o] \in OrderStatus
    BY <1>1, CloudMoves, CloudTyped DEF IInv
  <2> QED BY <2>1, LaterMoves DEF Grows
<1>2. IInv /\ [Next]_vars => [Keeps]_vars
  BY <1>1
<1> QED
  BY <1>2, OfflineInvariance, PTL DEF Spec
================================================================================
