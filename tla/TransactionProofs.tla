--------------------------- MODULE TransactionProofs ---------------------------
(***************************************************************************)
(* Two results about transactions of the API that overlap.                 *)
(*                                                                         *)
(* PullCursor: a delta misses a commit only if its transaction and the     *)
(* lead of a stored cursor over the begin of its pull exceed together the  *)
(* second that the floor of build_pull_payload gives away, for any number  *)
(* of rows and writers, any skew of the clocks and any length of a second. *)
(*                                                                         *)
(* StockWriters: a synced stock movement is applied at most once, for any  *)
(* number of requests, retries and movements, and stock never goes         *)
(* negative.                                                               *)
(***************************************************************************)
EXTENDS PullCursor, StockWriters, TLAPS

-----------------------------------------------------------------------------
(* The cursor of a pull.                                                       *)

\* Dropping the microseconds of a time never moves it forward.
LEMMA TruncateBack ==
    ASSUME NEW t \in Nat
    PROVE  Truncate(t) \in Nat /\ Truncate(t) <= t
<1>1. t % Second \in 0..(Second - 1) /\ t = Second * (t \div Second) + (t % Second)
  BY SpanAssumption
<1>2. t % Second <= t
  <2>1. t \div Second \in Nat
    BY SpanAssumption
  <2>2. Second * (t \div Second) \in Nat
    BY <2>1, SpanAssumption
  <2> QED BY <1>1, <2>2
<1> QED BY <1>1, <1>2 DEF Truncate

\* The empty database satisfies the invariant.
LEMMA PullInitInv == ASSUME PullInit PROVE PullInv
<1>1. PullTypeOK
  BY DEF PullInit, PullTypeOK, NoTx
<1>2. CursorInLag /\ BegunBefore /\ AnswerIsLast /\ PassedRows /\ OnlySlowMissed
  BY DEF PullInit, CursorInLag, BegunBefore, AnswerIsLast, PassedRows, OnlySlowMissed, Open, NoTx, Pulling
<1> QED BY <1>1, <1>2 DEF PullInv

\* Time passes: what began before now still did.
LEMMA TickInv == ASSUME PullInv, Tick PROVE PullInv'
BY DEF Tick, pull, PullInv, PullTypeOK, CursorInLag, BegunBefore, AnswerIsLast, PassedRows,
   OnlySlowMissed, Open, Pulling, Selected, Floor

\* A transaction begins now.
LEMMA BeginWriteInv ==
    ASSUME PullInv, NEW w \in Writer, NEW r \in Row, BeginWrite(w, r) PROVE PullInv'
<1>1. PullTypeOK' /\ BegunBefore'
  BY SpanAssumption DEF BeginWrite, pull, PullInv, PullTypeOK, BegunBefore, Open
<1>2. CursorInLag' /\ AnswerIsLast' /\ PassedRows' /\ OnlySlowMissed'
  BY DEF BeginWrite, pull, PullInv, CursorInLag, AnswerIsLast, PassedRows, OnlySlowMissed, Pulling,
         Selected, Floor
<1> QED BY <1>1, <1>2 DEF PullInv

\* A row commits now: after the pull in flight began, and, should the stored
\* cursor be a second ahead of its stamp, after a transaction that the lag of
\* that cursor does not leave a second for.
LEMMA CommitRowInv == ASSUME PullInv, NEW w \in Writer, CommitRow(w) PROVE PullInv'
<1> DEFINE r == tx[w].row
<1> DEFINE b == tx[w].began
<1>1. r \in Row /\ b \in Nat /\ b <= now
  BY DEF CommitRow, PullInv, PullTypeOK, BegunBefore, Open
<1>2. /\ stale' = stale \cup {r} /\ got' = got \ {r}
      /\ stamp' = [stamp EXCEPT ![r] = b] /\ span' = [span EXCEPT ![r] = now - b]
      /\ tx' = [tx EXCEPT ![w] = NoTx]
      /\ UNCHANGED <<now, cursor, began, full, unread, answer, lag>>
  BY DEF CommitRow
<1> HIDE DEF r, b
<1>3. now - b \in Nat
  BY <1>1 DEF PullInv, PullTypeOK
<1>4. /\ stamp'[r] = b /\ span'[r] = now - b
      /\ \A q \in Row \ {r} : stamp'[q] = stamp[q] /\ span'[q] = span[q]
  BY <1>1, <1>2 DEF PullInv, PullTypeOK
<1>5. PullTypeOK'
  <2>1. stamp' \in [Row -> Nat] /\ span' \in [Row -> Nat] /\ stale' \subseteq Row /\ got' \subseteq Row
    BY <1>1, <1>2, <1>3 DEF PullInv, PullTypeOK
  <2>2. tx' \in [Writer -> [row : Row \cup {"none"}, began : Nat]]
    BY <1>2 DEF PullInv, PullTypeOK, NoTx
  <2> QED BY <1>2, <2>1, <2>2 DEF PullInv, PullTypeOK
<1>6. CursorInLag' /\ AnswerIsLast'
  BY <1>2 DEF PullInv, CursorInLag, AnswerIsLast, Pulling
<1>7. BegunBefore'
  <2>1. ASSUME NEW v \in Writer, Open(v)' PROVE (tx[v].began <= now)'
    <3>1. v # w
      BY <1>2, <2>1 DEF Open, NoTx, PullInv, PullTypeOK
    <3> QED BY <1>2, <2>1, <3>1 DEF PullInv, PullTypeOK, BegunBefore, Open
  <2> QED BY <1>2, <2>1 DEF PullInv, BegunBefore
<1>8. PassedRows'
  <2> SUFFICES ASSUME Pulling', NEW q \in stale'
               PROVE  \/ q \in unread' \cup got' \/ stamp'[q] + span'[q] >= began'
                      \/ ~(stamp'[q] >= cursor' - Second)
    BY DEF PassedRows, Selected, Floor
  <2>1. CASE q = r
    BY <1>1, <1>2, <1>4, <2>1 DEF PullInv, PullTypeOK, BegunBefore
  <2>2. CASE q # r
    BY <1>2, <1>4, <2>2 DEF PullInv, PullTypeOK, PassedRows, Pulling, Selected, Floor
  <2> QED BY <2>1, <2>2
<1>9. OnlySlowMissed'
  <2> SUFFICES ASSUME NEW q \in stale'
               PROVE  stamp'[q] >= cursor' - Second \/ span'[q] + lag' > Second
    BY DEF OnlySlowMissed, Selected, Floor
  <2>1. CASE q = r
    BY <1>1, <1>2, <1>4, <2>1, SpanAssumption DEF PullInv, PullTypeOK, CursorInLag
  <2>2. CASE q # r
    BY <1>2, <1>4, <2>2 DEF PullInv, PullTypeOK, OnlySlowMissed, Selected, Floor
  <2> QED BY <2>1, <2>2
<1> QED BY <1>5, <1>6, <1>7, <1>8, <1>9 DEF PullInv

\* A rollback leaves the committed rows alone.
LEMMA RollBackInv == ASSUME PullInv, NEW w \in Writer, RollBack(w) PROVE PullInv'
<1>1. PullTypeOK'
  BY DEF RollBack, pull, PullInv, PullTypeOK, NoTx
<1>2. BegunBefore'
  BY DEF RollBack, pull, PullInv, PullTypeOK, BegunBefore, Open, NoTx
<1>3. CursorInLag' /\ AnswerIsLast' /\ PassedRows' /\ OnlySlowMissed'
  BY DEF RollBack, pull, PullInv, CursorInLag, AnswerIsLast, PassedRows, OnlySlowMissed, Pulling,
         Selected, Floor
<1> QED BY <1>1, <1>2, <1>3 DEF PullInv

\* What a delta does not select is below its floor.
LEMMA ReadRowInv == ASSUME PullInv, NEW r \in Row, ReadRow(r) PROVE PullInv'
BY DEF ReadRow, PullInv, PullTypeOK, CursorInLag, BegunBefore, AnswerIsLast, PassedRows, OnlySlowMissed,
       Open, Pulling, Selected, Floor

\* A pull begins with every row before it.
LEMMA BeginPullInv == ASSUME PullInv, BeginPull PROVE PullInv'
<1>1. PullTypeOK'
  BY DEF BeginPull, PullInv, PullTypeOK
<1>2. CursorInLag' /\ BegunBefore'
  BY DEF BeginPull, PullInv, PullTypeOK, CursorInLag, BegunBefore, Open
<1>3. AnswerIsLast' /\ PassedRows' /\ OnlySlowMissed'
  BY DEF BeginPull, PullInv, PullTypeOK, AnswerIsLast, PassedRows, OnlySlowMissed, Pulling, Selected, Floor
<1> QED BY <1>1, <1>2, <1>3 DEF PullInv

\* The cursor is taken when every table has been read.
LEMMA TakeCursorInv == ASSUME PullInv, TakeCursor PROVE PullInv'
<1>1. PICK ahead \in 0..Skew :
        answer' = IF full \/ Truncate(now + ahead) >= cursor
                  THEN Truncate(now + ahead) ELSE cursor
  BY DEF TakeCursor
<1>2. now + ahead \in Nat
  BY <1>1, SpanAssumption DEF PullInv, PullTypeOK
<1>3. answer' \in Nat
  BY <1>1, <1>2, TruncateBack DEF PullInv, PullTypeOK
<1>4. PullTypeOK' /\ BegunBefore' /\ CursorInLag'
  BY <1>3 DEF TakeCursor, PullInv, PullTypeOK, BegunBefore, CursorInLag, Open
<1>5. AnswerIsLast' /\ PassedRows' /\ OnlySlowMissed'
  BY DEF TakeCursor, PullInv, AnswerIsLast, PassedRows, OnlySlowMissed, Pulling, Selected, Floor
<1> QED BY <1>4, <1>5 DEF PullInv

\* A row that is still stale once the pull is ingested committed after the pull
\* began, so the cursor's lead over that begin and the row's span tell how far
\* the new floor may be past its stamp; or it was lost before.
LEMMA IngestInv == ASSUME PullInv, Ingest PROVE PullInv'
<1>1. /\ cursor' = answer /\ answer \in Nat /\ unread = {} /\ began \in Nat /\ began <= now
      /\ Pulling /\ stale' = stale \ got /\ now' = now /\ tx' = tx /\ stamp' = stamp
  BY DEF Ingest, PullInv, PullTypeOK, AnswerIsLast, BegunBefore, Pulling
<1>2. lag' \in Nat /\ lag' >= lag /\ lag' >= answer - began
  BY <1>1 DEF Ingest, PullInv, PullTypeOK
<1>3. span' \in [Row -> Nat] /\ \A q \in stale' : span'[q] = span[q]
  <2>1. span' = [q \in Row |-> IF q \in stale' THEN span[q] ELSE 0]
    BY DEF Ingest
  <2> QED BY <1>1, <2>1 DEF PullInv, PullTypeOK
<1>4. began' = -1 /\ full' = FALSE /\ unread' = {} /\ got' = {} /\ answer' = -1
  BY DEF Ingest, EndPull
<1>5. PullTypeOK'
  BY <1>1, <1>2, <1>3, <1>4 DEF PullInv, PullTypeOK
<1>6. CursorInLag'
  <2>1. now \in Nat
    BY DEF PullInv, PullTypeOK
  <2>2. ASSUME NEW a \in Nat, NEW b \in Nat, NEW n \in Nat, NEW l \in Nat, b <= n, l >= a - b
        PROVE  a <= n + l
    BY <2>2
  <2>3. answer <= now + lag'
    BY <1>1, <1>2, <2>1, <2>2
  <2> QED BY <1>1, <2>3 DEF CursorInLag
<1>7. BegunBefore' /\ AnswerIsLast' /\ PassedRows'
  BY <1>1, <1>4 DEF PullInv, PullTypeOK, BegunBefore, AnswerIsLast, PassedRows, Pulling, Open
<1>8. OnlySlowMissed'
  <2> SUFFICES ASSUME NEW q \in stale'
               PROVE  stamp[q] >= answer - Second \/ span[q] + lag' > Second
    BY <1>1, <1>3 DEF OnlySlowMissed, Selected, Floor
  <2>1. q \in stale /\ q \in Row /\ stamp[q] \in Nat /\ span[q] \in Nat /\ q \notin got
    BY <1>1 DEF PullInv, PullTypeOK
  <2>2. stamp[q] >= cursor - Second \/ span[q] + lag > Second
    BY <2>1 DEF PullInv, OnlySlowMissed, Selected, Floor
  <2>3. stamp[q] + span[q] >= began \/ ~(stamp[q] >= cursor - Second)
    BY <1>1, <2>1 DEF PullInv, PassedRows, Selected, Floor
  <2> QED BY <1>1, <1>2, <2>1, <2>2, <2>3, SpanAssumption DEF PullInv, PullTypeOK
<1> QED BY <1>5, <1>6, <1>7, <1>8 DEF PullInv

\* A pull that fails leaves the cursor and the mirror as they were.
LEMMA DropPullInv == ASSUME PullInv, DropPull PROVE PullInv'
<1>1. PullTypeOK'
  BY DEF DropPull, EndPull, PullInv, PullTypeOK
<1>2. CursorInLag' /\ BegunBefore'
  <2>1. now \in Nat
    BY DEF PullInv, PullTypeOK
  <2> QED BY <2>1 DEF DropPull, EndPull, PullInv, CursorInLag, BegunBefore, Open
<1>3. AnswerIsLast' /\ PassedRows' /\ OnlySlowMissed'
  BY DEF DropPull, EndPull, PullInv, AnswerIsLast, PassedRows, OnlySlowMissed, Pulling, Selected, Floor
<1> QED BY <1>1, <1>2, <1>3 DEF PullInv

\* Every step keeps the invariant.
LEMMA PullNextInv == ASSUME PullInv, [PullNext]_pullVars PROVE PullInv'
<1>1. CASE UNCHANGED pullVars
  BY <1>1 DEF pullVars, pull, PullInv, PullTypeOK, CursorInLag, BegunBefore, AnswerIsLast, PassedRows,
     OnlySlowMissed, Open, Pulling, Selected, Floor
<1>2. CASE PullNext
  BY <1>1, <1>2, TickInv, BeginPullInv, TakeCursorInv, IngestInv, DropPullInv, CommitRowInv, RollBackInv,
     BeginWriteInv, ReadRowInv DEF PullNext, Rest
<1> QED BY <1>1, <1>2

\* The invariant of the pull, for any number of rows and transactions, however
\* long a transaction stays open, a pull takes or the clocks differ.
THEOREM CursorInvariance == PullSpec => []PullInv
BY PullInitInv, PullNextInv, PTL DEF PullSpec

\* What build_pull_payload's deltas lose: a commit that the mirror lacks and the
\* next delta passes over needed a transaction and a cursor's lead that exceed
\* the floor's second together.  Nothing is assumed of either.
THEOREM AtLeastOnceWithinTheFloor == PullSpec => []OnlySlowMissed
<1>1. PullInv => OnlySlowMissed
  BY DEF PullInv
<1> QED BY <1>1, CursorInvariance, PTL

-----------------------------------------------------------------------------
(* The two writers of a product's stock.                                       *)

\* Before the first request the invariant holds.
LEMMA InitInv == Init => IInv
BY WritersAssumption
   DEF Init, IInv, TypeOK, Job, OneHolder, HolderWrites, Working, RestIsNew, PostedByJob,
       MovementAppliedOnce

\* The level a request is about to write is an integer.
LEMMA LevelType ==
    ASSUME TypeOK, NEW r \in Request, job[r].movement \in Movement
    PROVE  Level(r) \in Int
BY WritersAssumption DEF TypeOK, Level

\* A movement that comes through the API is in no other request, and so in no
\* committed row.
LEMMA BeginRestInv ==
    ASSUME IInv, NEW r \in Request, NEW m \in Movement, BeginRest(r, m) PROVE IInv'
<1>1. posted[m] = 0
  BY DEF BeginRest, IInv, PostedByJob, TypeOK
<1>2. TypeOK'
  BY DEF BeginRest, To, Read, IInv, TypeOK, Job
<1>3. \A q \in Request : q # r => step'[q] = step[q] /\ job'[q] = job[q] /\ seen'[q] = seen[q]
  BY DEF BeginRest, To, Read, IInv, TypeOK
<1>4. step'[r] = "read" /\ job'[r] = [kind |-> "rest", movement |-> m]
  BY DEF BeginRest, To, IInv, TypeOK
<1>5. posted' = posted /\ step[r] = "new"
  BY DEF BeginRest
<1>6. OneHolder' /\ HolderWrites'
  BY <1>3, <1>4, <1>5 DEF IInv, OneHolder, HolderWrites, Level, Unposted
<1>7. Working'
  BY <1>3, <1>4 DEF IInv, Working
<1>8. RestIsNew'
  BY <1>1, <1>3, <1>4, <1>5 DEF BeginRest, IInv, RestIsNew, Unposted
<1>9. PostedByJob' /\ MovementAppliedOnce'
  BY <1>3, <1>5, WritersAssumption DEF IInv, PostedByJob, MovementAppliedOnce, Working
<1> QED BY <1>2, <1>6, <1>7, <1>8, <1>9 DEF IInv

\* A push never takes the client_id of a movement made through the API.
LEMMA BeginPushInv ==
    ASSUME IInv, NEW r \in Request, NEW m \in Movement, BeginPush(r, m) PROVE IInv'
<1>2. TypeOK'
  BY DEF BeginPush, To, IInv, TypeOK, Job
<1>3. \A q \in Request : q # r => step'[q] = step[q] /\ job'[q] = job[q]
  BY DEF BeginPush, To, IInv, TypeOK
<1>4. step'[r] \in {"begun", "committed"} /\ job'[r] = [kind |-> "push", movement |-> m]
  BY DEF BeginPush, To, IInv, TypeOK
<1>5. posted' = posted /\ seen' = seen /\ step[r] = "new"
  BY DEF BeginPush
<1>6. OneHolder' /\ HolderWrites'
  BY <1>3, <1>4, <1>5 DEF IInv, OneHolder, HolderWrites, Level, Unposted
<1>7. Working'
  BY <1>3, <1>4 DEF IInv, Working
<1>8. RestIsNew'
  BY <1>3, <1>4, <1>5 DEF BeginPush, IInv, RestIsNew, Unposted
<1>9. PostedByJob' /\ MovementAppliedOnce'
  BY <1>3, <1>5, WritersAssumption DEF IInv, PostedByJob, MovementAppliedOnce, Working
<1> QED BY <1>2, <1>6, <1>7, <1>8, <1>9 DEF IInv

\* What the two kinds of UPDATE have in common: the lock was free, the level is
\* no shortage and the movement has no row yet.
LEMMA HoldInv ==
    ASSUME IInv, NEW r \in Request, step[r] = "read", Level(r) >= 0, Free,
           Unposted(job[r].movement), To(r, "held"),
           UNCHANGED <<stock, version, posted, job, seen>>
    PROVE  IInv'
<1>1. TypeOK'
  BY DEF To, IInv, TypeOK
<1>2. step'[r] = "held" /\ \A q \in Request : q # r => step'[q] = step[q] /\ step'[q] # "held"
  BY DEF To, Free, IInv, TypeOK
<1>3. OneHolder' /\ HolderWrites'
  BY <1>2 DEF OneHolder, HolderWrites, Level, Unposted
<1>4. Working' /\ RestIsNew'
  BY <1>2 DEF IInv, Working, RestIsNew, Unposted
<1>5. PostedByJob' /\ MovementAppliedOnce'
  BY DEF IInv, PostedByJob, MovementAppliedOnce
<1> QED BY <1>1, <1>3, <1>4, <1>5 DEF IInv

\* The product is read between the look-up and the write.
LEMMA ReadProductInv == ASSUME IInv, NEW r \in Request, ReadProduct(r) PROVE IInv'
<1>1. TypeOK'
  BY DEF ReadProduct, To, Read, IInv, TypeOK
<1>2. /\ step[r] = "begun" /\ step'[r] = "read"
      /\ \A q \in Request : q # r => step'[q] = step[q] /\ seen'[q] = seen[q]
      /\ job' = job /\ posted' = posted
  BY DEF ReadProduct, To, Read, IInv, TypeOK
<1>3. OneHolder' /\ HolderWrites'
  BY <1>2 DEF IInv, OneHolder, HolderWrites, Level, Unposted
<1>4. Working'
  BY <1>2 DEF IInv, Working
<1>5. RestIsNew'
  <2>1. job[r].kind # "rest"
    BY <1>2 DEF IInv, Working
  <2> QED BY <1>2, <2>1 DEF IInv, RestIsNew, Unposted
<1>6. PostedByJob' /\ MovementAppliedOnce'
  BY <1>2 DEF IInv, PostedByJob, MovementAppliedOnce
<1> QED BY <1>1, <1>3, <1>4, <1>5, <1>6 DEF IInv

\* The commit adds the one row its movement will ever have.
LEMMA CommitInv == ASSUME IInv, NEW r \in Request, Commit(r) PROVE IInv'
<1> DEFINE m == job[r].movement
<1>1. m \in Movement /\ posted[m] = 0 /\ Level(r) \in Nat
  <2>1. m \in Movement
    BY DEF Commit, IInv, Working
  <2>2. Level(r) \in Int
    BY <2>1, LevelType DEF IInv
  <2> QED BY <2>1, <2>2 DEF Commit, IInv, HolderWrites, Unposted
<1>2. /\ posted' = [posted EXCEPT ![m] = @ + 1] /\ stock' = Level(r)
      /\ version' \in {seen[r].version + 1, version}
      /\ step[r] = "held" /\ step' = [step EXCEPT ![r] = "committed"]
      /\ job' = job /\ seen' = seen
  BY DEF Commit, To
<1>3. posted'[m] = 1 /\ \A x \in Movement : x # m => posted'[x] = posted[x]
  BY <1>1, <1>2 DEF IInv, TypeOK
<1>4. step'[r] = "committed" /\ \A q \in Request : q # r => step'[q] = step[q] /\ step[q] # "held"
  BY <1>2 DEF IInv, TypeOK, OneHolder
<1>5. TypeOK'
  BY <1>1, <1>2, <1>3, <1>4 DEF IInv, TypeOK
<1>6. OneHolder' /\ HolderWrites'
  BY <1>4 DEF OneHolder, HolderWrites
<1>7. Working'
  BY <1>2, <1>4 DEF IInv, Working
<1>8. RestIsNew'
  <2> SUFFICES ASSUME NEW q \in Request, job[q].kind = "rest"
               PROVE  /\ \A x \in Request : job[x].movement = job[q].movement => x = q
                      /\ step'[q] \in {"read", "held"} => posted'[job[q].movement] = 0
    BY <1>2 DEF RestIsNew, Unposted
  <2>1. CASE q = r
    BY <1>4, <2>1 DEF IInv, RestIsNew
  <2>2. CASE q # r
    <3>1. job[q].movement # m
      BY <2>2 DEF IInv, RestIsNew
    <3>2. step[q] \in {"read", "held"} => job[q].movement \in Movement /\ posted[job[q].movement] = 0
      BY DEF IInv, Working, RestIsNew, Unposted
    <3>3. \A x \in Request : job[x].movement = job[q].movement => x = q
      BY DEF IInv, RestIsNew
    <3> QED BY <1>3, <1>4, <2>2, <3>1, <3>2, <3>3
  <2> QED BY <2>1, <2>2
<1>9. PostedByJob' /\ MovementAppliedOnce'
  BY <1>1, <1>2, <1>3 DEF IInv, PostedByJob, MovementAppliedOnce
<1> QED BY <1>5, <1>6, <1>7, <1>8, <1>9 DEF IInv

\* A request that fails writes nothing.
LEMMA EndInv ==
    ASSUME IInv, NEW r \in Request, To(r, "failed"),
           UNCHANGED <<stock, version, posted, job, seen>>,
           step[r] # "new"
    PROVE  IInv'
<1>1. TypeOK'
  BY DEF To, IInv, TypeOK
<1>2. step'[r] = "failed" /\ \A q \in Request : q # r => step'[q] = step[q]
  BY DEF To, IInv, TypeOK
<1>3. OneHolder' /\ HolderWrites'
  BY <1>2 DEF IInv, OneHolder, HolderWrites, Level, Unposted
<1>4. Working' /\ RestIsNew'
  BY <1>2 DEF IInv, Working, RestIsNew, Unposted
<1>5. PostedByJob' /\ MovementAppliedOnce'
  BY DEF IInv, PostedByJob, MovementAppliedOnce
<1> QED BY <1>1, <1>3, <1>4, <1>5 DEF IInv

\* Every step keeps the invariant.
LEMMA NextInv == ASSUME IInv, [Next]_vars PROVE IInv'
<1>1. CASE UNCHANGED vars
  BY <1>1 DEF vars, IInv, TypeOK, Job, OneHolder, HolderWrites, Working, RestIsNew, PostedByJob,
     MovementAppliedOnce, Level, Unposted
<1>2. ASSUME NEW r \in Request, WriteRest(r) PROVE IInv'
  <2>1. Unposted(job[r].movement)
    BY <1>2 DEF WriteRest, IInv, RestIsNew
  <2> QED BY <1>2, <2>1, HoldInv DEF WriteRest
<1>3. ASSUME NEW r \in Request, WritePush(r) PROVE IInv'
  BY <1>3, HoldInv DEF WritePush
<1>4. ASSUME NEW r \in Request, Refuse(r) \/ Fail(r) PROVE IInv'
  BY <1>4, EndInv DEF Refuse, Fail
<1>5. CASE AllServed
  BY <1>1, <1>5 DEF AllServed
<1> QED BY <1>1, <1>2, <1>3, <1>4, <1>5, BeginRestInv, BeginPushInv, ReadProductInv, CommitInv
       DEF Next

\* The invariant of the two writers, for any number of requests.
THEOREM WritersInvariance == Spec => []IInv
BY InitInv, NextInv, PTL DEF Spec

\* A pushed movement is applied at most once however often, and however
\* concurrently, it is retried.
THEOREM AppliedOnce == Spec => []MovementAppliedOnce
<1>1. IInv => MovementAppliedOnce
  BY DEF IInv
<1> QED BY <1>1, WritersInvariance, PTL

\* Neither writer drives stock negative.
THEOREM WritersTypeCorrect == Spec => []TypeOK
<1>1. IInv => TypeOK
  BY DEF IInv
<1> QED BY <1>1, WritersInvariance, PTL
================================================================================
