----------------------------- MODULE StockWriters -----------------------------
(***************************************************************************)
(* The two writers of a product's stock, beside each other.                *)
(*                                                                         *)
(* The REST handlers write through the version guard of _change_stock      *)
(* (backend/main.py; CloudStock has them in full).  A pushed movement      *)
(* (backend/sync.py, _apply_stock_movement) looks its client_id up, reads  *)
(* the product, and writes the new level without reading or bumping the    *)
(* version.  A push that timed out may still run when its retry starts.    *)
(* One product; every transaction writes one movement.                     *)
(***************************************************************************)
EXTENDS Integers

CONSTANTS
    Request,   \* HTTP requests, each served once
    Movement,  \* stock movements, by client_id
    Change,    \* the signed change of each movement
    Opening    \* the opening stock

ASSUME WritersAssumption ==
    Opening \in Nat /\ Change \in [Movement -> Int] /\ "none" \notin Movement

VARIABLES
    stock,    \* committed current_stock
    version,  \* committed version
    posted,   \* of each movement: committed rows that carry its client_id
    step,     \* of each request: new, begun, read, held, committed or failed
    job,      \* of each request: rest or push, and its movement
    seen      \* of each request: the product row as it read it

vars == <<stock, version, posted, step, job, seen>>

Init ==
    /\ stock = Opening /\ version = 1
    /\ posted = [m \in Movement |-> 0]
    /\ step = [r \in Request |-> "new"]
    /\ job = [r \in Request |-> [kind |-> "none", movement |-> "none"]]
    /\ seen = [r \in Request |-> [stock |-> 0, version |-> 0]]

Level(r) == seen[r].stock + Change[job[r].movement]

\* The row lock of the product, from an UPDATE to the end of its transaction.
Free == \A r \in Request : step[r] # "held"

To(r, s) == step' = [step EXCEPT ![r] = s]

Read(r) == seen' = [seen EXCEPT ![r] = [stock |-> stock, version |-> version]]

-------------------------------------------------------------------------------
(* A movement through the API: its row is new. *)

BeginRest(r, m) ==
    /\ step[r] = "new"
    /\ \A q \in Request : job[q].movement # m
    /\ To(r, "read") /\ Read(r)
    /\ job' = [job EXCEPT ![r] = [kind |-> "rest", movement |-> m]]
    /\ UNCHANGED <<stock, version, posted>>

VersionMatches(r) == version = seen[r].version

\* UPDATE ... WHERE id = :id AND version = :seen
WriteRest(r) ==
    /\ step[r] = "read" /\ job[r].kind = "rest"
    /\ Level(r) >= 0
    /\ Free /\ VersionMatches(r)
    /\ To(r, "held")
    /\ UNCHANGED <<stock, version, posted, job, seen>>

-------------------------------------------------------------------------------
(* A pushed movement *)

\* _resolve_client_id finds the movement or does not; a movement that is there
\* is skipped.  Only pushes of one movement share its client_id.
BeginPush(r, m) ==
    /\ step[r] = "new"
    /\ \A q \in Request : job[q].movement = m => job[q].kind = "push"
    /\ To(r, IF posted[m] = 0 THEN "begun" ELSE "committed")
    /\ job' = [job EXCEPT ![r] = [kind |-> "push", movement |-> m]]
    /\ UNCHANGED <<stock, version, posted, seen>>

ReadProduct(r) ==
    /\ step[r] = "begun"
    /\ To(r, "read") /\ Read(r)
    /\ UNCHANGED <<stock, version, posted, job>>

\* Mutant of Unposted: client_id has an index, but not a unique one.
AnyClientId(m) == TRUE

\* The unique index on client_id.
Unposted(m) == posted[m] = 0

\* Mutant of WritePush: stock may go negative.
WriteAnyLevel(r) ==
    /\ step[r] = "read" /\ job[r].kind = "push"
    /\ Free /\ Unposted(job[r].movement)
    /\ To(r, "held")
    /\ UNCHANGED <<stock, version, posted, job, seen>>

\* UPDATE ... WHERE id = :id, then the movement's INSERT.
WritePush(r) ==
    /\ step[r] = "read" /\ job[r].kind = "push"
    /\ Level(r) >= 0
    /\ Free /\ Unposted(job[r].movement)
    /\ To(r, "held")
    /\ UNCHANGED <<stock, version, posted, job, seen>>

-------------------------------------------------------------------------------
Commit(r) ==
    /\ step[r] = "held"
    /\ stock' = Level(r)
    /\ version' = IF job[r].kind = "rest" THEN seen[r].version + 1 ELSE version
    /\ posted' = [posted EXCEPT ![job[r].movement] = @ + 1]
    /\ To(r, "committed")
    /\ UNCHANGED <<job, seen>>

\* insufficient_stock or 409, "stock changed concurrently", a unique violation.
Refuse(r) ==
    /\ step[r] = "read"
    /\ \/ Level(r) < 0
       \/ Free /\ job[r].kind = "rest" /\ ~VersionMatches(r)
       \/ Free /\ job[r].kind = "push" /\ ~Unposted(job[r].movement)
    /\ To(r, "failed")
    /\ UNCHANGED <<stock, version, posted, job, seen>>

\* Any other exception, or a worker that dies: a rollback.
Fail(r) ==
    /\ step[r] \in {"begun", "read", "held"}
    /\ To(r, "failed")
    /\ UNCHANGED <<stock, version, posted, job, seen>>

AllServed ==
    /\ \A r \in Request : step[r] \in {"new", "committed", "failed"}
    /\ UNCHANGED vars

Next ==
    \/ \E r \in Request :
         \/ \E m \in Movement : BeginRest(r, m) \/ BeginPush(r, m)
         \/ WriteRest(r) \/ ReadProduct(r) \/ WritePush(r)
         \/ Commit(r) \/ Refuse(r) \/ Fail(r)
    \/ AllServed

Spec == Init /\ [][Next]_vars

-------------------------------------------------------------------------------
(* Properties *)

Job == [kind : {"none", "rest", "push"}, movement : Movement \cup {"none"}]

\* Types; that stock is a Nat is the promise that it never goes negative.
TypeOK ==
    /\ stock \in Nat /\ version \in Nat
    /\ posted \in [Movement -> Nat]
    /\ step \in [Request -> {"new", "begun", "read", "held", "committed", "failed"}]
    /\ job \in [Request -> Job]
    /\ seen \in [Request -> [stock : Nat, version : Nat]]

\* sync.py: a movement is applied at most once, keyed by client_id, even when a
\* retry overtakes the request it repeats.
MovementAppliedOnce == \A m \in Movement : posted[m] <= 1

\* The inductive invariant behind TypeOK and MovementAppliedOnce.
OneHolder == \A r, q \in Request : step[r] = "held" /\ step[q] = "held" => r = q

HolderWrites ==
    \A r \in Request : step[r] = "held" => Level(r) >= 0 /\ Unposted(job[r].movement)

Working ==
    \A r \in Request :
        /\ step[r] \in {"begun", "read", "held"} =>
             job[r].kind \in {"rest", "push"} /\ job[r].movement \in Movement
        /\ step[r] = "begun" => job[r].kind = "push"
        /\ step[r] = "new" => job[r].movement = "none"

\* A movement of the API belongs to one request and is written once.
RestIsNew ==
    \A r \in Request : job[r].kind = "rest" =>
        /\ \A q \in Request : job[q].movement = job[r].movement => q = r
        /\ step[r] \in {"read", "held"} => Unposted(job[r].movement)

PostedByJob ==
    \A m \in Movement : posted[m] > 0 => \E r \in Request : job[r].movement = m

IInv ==
    /\ TypeOK
    /\ OneHolder
    /\ HolderWrites
    /\ Working
    /\ RestIsNew
    /\ PostedByJob
    /\ MovementAppliedOnce
================================================================================
