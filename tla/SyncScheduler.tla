----------------------------- MODULE SyncScheduler -----------------------------
(* When the renderer's sync engine runs a cycle, and what its cycles do to    *)
(* each other (frontend/src/sync/engine.ts).  The check that a cycle is       *)
(* running and the mark that one is lie two awaits apart, and reconnect,      *)
(* timer, start and "Sync now" all start cycles, so that two can overlap.     *)
(* Beside them: the main process that holds the queue and the mirror, the     *)
(* status store that opens the gate to local reads and writes, the session    *)
(* with its sign-outs, the network, and the cloud.                            *)
(* What one push or pull does to the rows is OfflineSync and CustomerSync;    *)
(* here a row is its version, the number of the cloud's change that wrote it. *)
EXTENDS Integers

CONSTANTS
    Cycle,       \* cycles under way at a time
    Row,         \* rows of the business
    MaxOthers    \* bound of the changes that others make in the cloud

ASSUME SchedulerAssumption == MaxOthers \in Nat

VARIABLES
    engine,   \* the engine's module variables
    cycle,    \* what each cycle is waiting for, and what it has read
    main,     \* main process: queue, mirror, pull cursor, status flags
    gate,     \* whether the repositories work on the mirror
    online,   \* the network
    session,  \* the user's session: out or in
    cloud,    \* version of each row, number of changes, those of others, operations
              \* applied, those of sessions still to commit and, as history, those
              \* answered in a session that never did
    written,  \* history: rows the owner wrote through the queue
    alone     \* history: no cycle has begun while another was under way

vars == <<engine, cycle, main, gate, online, session, cloud, written, alone>>

Version == Nat \ {0}
NoCursor == 0

Stopped == [started |-> FALSE, stopped |-> FALSE, running |-> FALSE,
            full |-> FALSE, manual |-> FALSE, fresh |-> FALSE]

\* since is the cursor a pull asked with; rows are the versions of an answer,
\* 0 for a row that is not in it.
NoRows == [r \in Row |-> 0]
Waiting(at) ==
    [at |-> at, ops |-> {}, since |-> NoCursor, rows |-> NoRows, cursor |-> NoCursor]
Pushing(at, ops) ==
    [at |-> at, ops |-> ops, since |-> NoCursor, rows |-> NoRows, cursor |-> NoCursor]
Pulling(since) ==
    [at |-> "pull", ops |-> {}, since |-> since, rows |-> NoRows, cursor |-> NoCursor]
Holding(rows, cursor) ==
    [at |-> "ingest", ops |-> {}, since |-> NoCursor, rows |-> rows, cursor |-> cursor]
NoCycle == Waiting("off")

TypeOK ==
    /\ engine \in [started: BOOLEAN, stopped: BOOLEAN, running: BOOLEAN,
                   full: BOOLEAN, manual: BOOLEAN, fresh: BOOLEAN]
    /\ cycle \in [Cycle -> [
         at: {"off", "asked", "push", "outcome", "since", "pull", "ingest", "caught", "end"},
         ops: SUBSET Row, since: Nat,
         rows: [Row -> Nat], cursor: Nat]]
    /\ main \in [pending: SUBSET Row, mirror: [Row -> Nat],
                 cursor: Nat, ready: BOOLEAN, syncing: BOOLEAN]
    /\ gate \in BOOLEAN /\ online \in BOOLEAN /\ alone \in BOOLEAN
    /\ session \in {"out", "in"}
    /\ cloud \in [version: [Row -> Version], changes: Version, others: Nat, applied: SUBSET Row,
                  open: SUBSET SUBSET Row, lost: SUBSET Row]
    /\ written \subseteq Row

Init ==
    /\ engine = Stopped
    /\ cycle = [c \in Cycle |-> NoCycle]
    /\ main = [pending |-> {}, mirror |-> [r \in Row |-> 0], cursor |-> NoCursor,
               ready |-> FALSE, syncing |-> FALSE]
    /\ gate = FALSE
    /\ online \in BOOLEAN
    /\ session = "out"
    /\ cloud = [version |-> [r \in Row |-> 1], changes |-> 1, others |-> 0, applied |-> {},
                open |-> {}, lost |-> {}]
    /\ written = {}
    /\ alone = TRUE

-----------------------------------------------------------------------------
(* The engine's triggers. *)

\* apiRef is there between startSyncEngine and the function it returns.
Wired == engine.started /\ ~engine.stopped

\* The early returns of cycle().
MayCycle == ~engine.running /\ Wired /\ online

UnderWay(c) == cycle[c].at \notin {"off", "asked"}

Becomes(c, state) == cycle' = [cycle EXCEPT ![c] = state]
Goes(c, at) == Becomes(c, Waiting(at))

\* The cycle is on: running is set, main is told, the pending operations are read.
Start(c) ==
    /\ engine' = [engine EXCEPT !.running = TRUE, !.manual = FALSE]
    /\ main' = [main EXCEPT !.syncing = TRUE]
    /\ Becomes(c, IF main.pending = {} THEN Waiting("since") ELSE Pushing("push", main.pending))
    /\ alone' = (alone /\ \A d \in Cycle : ~UnderWay(d))

\* The interval fires, the engine starts or the connection is back: first the
\* idle fast path, unless an earlier request found a cycle running.
Trigger(c) ==
    /\ MayCycle
    /\ cycle[c].at = "off"
    /\ IF engine.manual THEN Start(c)
       ELSE Goes(c, "asked") /\ UNCHANGED <<engine, main, alone>>
    /\ UNCHANGED <<gate, online, session, cloud, written>>

\* "Sync now": offered online while there is something to move.
SyncNow(c) ==
    /\ online /\ Wired
    /\ main.pending # {} \/ ~main.ready
    /\ cycle[c].at = "off"
    /\ IF engine.running
         THEN engine' = [engine EXCEPT !.manual = TRUE] /\ UNCHANGED <<cycle, main, alone>>
         ELSE Start(c)
    /\ UNCHANGED <<gate, online, session, cloud, written>>

-----------------------------------------------------------------------------
(* One cycle, from one await that matters to the next. *)

\* Mutant of Idle: a quiet engine never refreshes the mirror.
IdleForever == main.pending = {} /\ main.ready /\ main.cursor # NoCursor /\ ~engine.full

\* Nothing queued, a mirror, no full pull armed, the last success not long ago.
Idle == main.pending = {} /\ main.ready /\ main.cursor # NoCursor /\ ~engine.full /\ engine.fresh

\* Main has answered with status and cursor; whether a cycle was started in
\* the meantime is not asked again.
Answered(c) ==
    /\ cycle[c].at = "asked"
    /\ IF Idle THEN Goes(c, "off") /\ UNCHANGED <<engine, main, alone>> ELSE Start(c)
    /\ UNCHANGED <<gate, online, session, cloud, written>>

Reaches == online /\ Wired

\* The answer is sent before the session commits.
Answer(ops) == cloud' = [cloud EXCEPT !.open = @ \cup {ops}]

ServePush(c) ==
    /\ cycle[c].at = "push"
    /\ Reaches
    /\ Answer(cycle[c].ops)
    /\ Becomes(c, Pushing("outcome", cycle[c].ops))
    /\ UNCHANGED <<engine, main, gate, online, session, written, alone>>

\* The cloud applies each operation once, however often it is pushed.
Commit(ops) ==
    /\ ops \in cloud.open
    /\ cloud' = [version |-> [r \in Row |-> IF r \in ops \ cloud.applied THEN cloud.changes + 1
                                            ELSE cloud.version[r]],
                 changes |-> IF ops \subseteq cloud.applied THEN cloud.changes
                             ELSE cloud.changes + 1,
                 others |-> cloud.others,
                 applied |-> cloud.applied \cup ops,
                 open |-> cloud.open \ {ops},
                 lost |-> cloud.lost \ ops]
    /\ UNCHANGED <<engine, cycle, main, gate, online, session, written, alone>>

\* The server stops, or its commit fails, after the answer.
NeverCommits(ops) ==
    /\ ops \in cloud.open
    /\ cloud' = [cloud EXCEPT !.open = @ \ {ops}, !.lost = @ \cup (ops \ cloud.applied)]
    /\ UNCHANGED <<engine, cycle, main, gate, online, session, written, alone>>

Outcome(c) ==
    /\ cycle[c].at = "outcome"
    /\ main' = [main EXCEPT !.pending = @ \ cycle[c].ops]
    /\ Goes(c, "since")
    /\ UNCHANGED <<engine, gate, online, session, cloud, written, alone>>

\* An armed full pull asks for everything.
ReadSince(c) ==
    /\ cycle[c].at = "since"
    /\ Becomes(c, Pulling(IF engine.full THEN NoCursor ELSE main.cursor))
    /\ UNCHANGED <<engine, main, gate, online, session, cloud, written, alone>>

\* The rows changed since.
Selected(since) ==
    [r \in Row |-> IF cloud.version[r] > since THEN cloud.version[r] ELSE 0]

ServePull(c) ==
    /\ cycle[c].at = "pull"
    /\ Reaches
    /\ Becomes(c, Holding(Selected(cycle[c].since), cloud.changes))
    /\ UNCHANGED <<engine, main, gate, online, session, cloud, written, alone>>

\* Mutant of NewCursor: the device steps back too, and from the first change to nowhere.
CursorSteppedBack(c) == cycle[c].cursor - 2

\* The cursor of the answer, be it older than the one in place.
NewCursor(c) == cycle[c].cursor

\* The rows of an answer replace those of the mirror.
Held(c, r) == IF cycle[c].rows[r] # 0 THEN cycle[c].rows[r] ELSE main.mirror[r]

Ingest(c) ==
    /\ cycle[c].at = "ingest"
    /\ main' = [pending |-> main.pending,
                mirror |-> [r \in Row |-> Held(c, r)],
                cursor |-> NewCursor(c),
                ready |-> TRUE,
                syncing |-> main.syncing]
    /\ engine' = [engine EXCEPT !.full = FALSE, !.fresh = TRUE]
    /\ Goes(c, "end")
    /\ UNCHANGED <<gate, online, session, cloud, written, alone>>

\* Mutant of AfterFailure: the cursor is stored before the rows are.
CursorFirst(c) ==
    IF cycle[c].at = "ingest" THEN [main EXCEPT !.cursor = cycle[c].cursor] ELSE main

\* The queue rows are untouched, and the ingest is rolled back, cursor and all.
AfterFailure(c) == main

\* A request is lost, with or without effect; the API client is gone after
\* sign-out; the ingest throws.
Fail(c) ==
    /\ cycle[c].at \in {"push", "pull", "ingest"}
    /\ Goes(c, "caught")
    /\ main' = AfterFailure(c)
    /\ \/ UNCHANGED cloud
       \/ cycle[c].at = "push" /\ Reaches /\ Answer(cycle[c].ops)
    /\ UNCHANGED <<engine, gate, online, session, written, alone>>

\* The backend rejects the token: the guard signs the user out.
Unauthorized(c) ==
    /\ cycle[c].at \in {"push", "pull"}
    /\ Reaches
    /\ Goes(c, "caught")
    /\ session' = "out"
    /\ engine' = [engine EXCEPT !.stopped = TRUE]
    /\ UNCHANGED <<main, gate, online, cloud, written, alone>>

\* Mutant of Caught: the finally block is not reached.
CaughtReturns(c) ==
    /\ cycle[c].at = "caught"
    /\ engine' = [engine EXCEPT !.full = @ \/ main.ready]
    /\ Goes(c, "off")
    /\ UNCHANGED <<main, gate, online, session, cloud, written, alone>>

\* A failed cycle arms a full pull, when main says that there is a mirror.
Caught(c) ==
    /\ cycle[c].at = "caught"
    /\ engine' = [engine EXCEPT !.full = @ \/ main.ready]
    /\ Goes(c, "end")
    /\ UNCHANGED <<main, gate, online, session, cloud, written, alone>>

\* The finally block.
End(c) ==
    /\ cycle[c].at = "end"
    /\ main' = [main EXCEPT !.syncing = FALSE]
    /\ engine' = [engine EXCEPT !.running = FALSE]
    /\ Goes(c, "off")
    /\ UNCHANGED <<gate, online, session, cloud, written, alone>>

-----------------------------------------------------------------------------
(* The owner, the status store, the session, the network. *)

\* A write goes to the mirror and the queue once the gate is open.
WriteLocally(r) ==
    /\ gate
    /\ r \notin written
    /\ written' = written \cup {r}
    /\ main' = [main EXCEPT !.pending = @ \cup {r}]
    /\ UNCHANGED <<engine, cycle, gate, online, session, cloud, alone>>

\* Any other change of a row: another user's, or one of the remote path.
CloudChange(r) ==
    /\ cloud.others < MaxOthers
    /\ cloud' = [cloud EXCEPT !.version[r] = cloud.changes + 1,
                              !.changes = @ + 1, !.others = @ + 1]
    /\ UNCHANGED <<engine, cycle, main, gate, online, session, written, alone>>

\* A broadcast or the poll: the gate follows main's flag.
RefreshStatus ==
    /\ gate # main.ready
    /\ gate' = main.ready
    /\ UNCHANGED <<engine, cycle, main, online, session, cloud, written, alone>>

\* Five minutes pass without a pull.
GoStale ==
    /\ engine.fresh
    /\ engine' = [engine EXCEPT !.fresh = FALSE]
    /\ UNCHANGED <<cycle, main, gate, online, session, cloud, written, alone>>

ChangeNetwork ==
    /\ online' = ~online
    /\ UNCHANGED <<engine, cycle, main, gate, session, cloud, written, alone>>

\* startSyncEngine returns at once when it ran before.
StartEngine == [engine EXCEPT !.started = TRUE]

\* Signing in mounts the runner, whose first cycle is a trigger like the others.
SignIn ==
    /\ session = "out"
    /\ session' = "in"
    /\ engine' = StartEngine
    /\ UNCHANGED <<cycle, main, gate, online, cloud, written, alone>>

\* Signing out unmounts it; only the function of the first start stops anything.
SignOut ==
    /\ session # "out"
    /\ session' = "out"
    /\ engine' = [engine EXCEPT !.stopped = TRUE]
    /\ UNCHANGED <<cycle, main, gate, online, cloud, written, alone>>

\* Mutant of ColdStart: the mirror is trusted before the first pull.
TrustsAnyMirror == [main EXCEPT !.ready = TRUE, !.syncing = FALSE]

\* createDataLayerApp: a stored cursor means that there is a mirror.
ColdStart == [main EXCEPT !.ready = main.cursor # NoCursor, !.syncing = FALSE]

\* The application is closed, or dies, and started again.
Relaunch ==
    /\ engine' = Stopped
    /\ cycle' = [c \in Cycle |-> NoCycle]
    /\ main' = ColdStart
    /\ gate' = FALSE
    /\ session' = "out"
    /\ UNCHANGED <<online, cloud, written, alone>>

CycleStep(c) ==
    \/ Answered(c)
    \/ ServePush(c) \/ Outcome(c) \/ ReadSince(c) \/ ServePull(c) \/ Ingest(c)
    \/ Fail(c) \/ Unauthorized(c) \/ Caught(c) \/ End(c)

Next ==
    \/ \E c \in Cycle : Trigger(c) \/ SyncNow(c) \/ CycleStep(c)
    \/ \E r \in Row : WriteLocally(r) \/ CloudChange(r)
    \/ \E ops \in cloud.open : Commit(ops) \/ NeverCommits(ops)
    \/ RefreshStatus \/ GoStale \/ ChangeNetwork
    \/ SignIn \/ SignOut \/ Relaunch

Spec == Init /\ [][Next]_vars

\* The interval fires, awaits return, time passes; a server that is asked again
\* and again answers at last, and an answer tried again and again is ingested.
Fairness ==
    /\ WF_vars(\E c \in Cycle : Trigger(c))
    /\ WF_vars(GoStale)
    /\ \A c \in Cycle : WF_vars(CycleStep(c))
    /\ SF_vars(\E c \in Cycle : ServePush(c) \/ ServePull(c))
    /\ SF_vars(\E c \in Cycle : Ingest(c))

FairSpec == Spec /\ Fairness

-----------------------------------------------------------------------------
\* A row the mirror holds in an older version is one the next delta brings:
\* the mirror cannot silently drift (the head of engine.ts).
MirrorCovered ==
    \A r \in Row : main.mirror[r] # cloud.version[r] => cloud.version[r] > main.cursor

\* Cycles that do not overlap keep it so, over lost answers, rolled back
\* ingests, sign-outs and restarts.
NothingSkipped == alone => MirrorCovered

\* The repositories never read a mirror that was not pulled whole (the
\* activation rule of ADR-002), over restarts and cold starts as well.
GateAfterPull == gate => \A r \in Row : main.mirror[r] # 0

\* What the cloud has applied, is about to, or lost after its answer.
Served == cloud.applied \cup (UNION cloud.open) \cup cloud.lost

\* What left the queue is in the cloud once every open session has committed,
\* whichever of two cycles pushed it and whichever heard the answer: it can be
\* missing only when a session was answered and then not committed.
SyncedIsApplied ==
    cloud.open = {} /\ cloud.lost = {} => written \ main.pending \subseteq cloud.applied

\* Cycles that do not overlap are under way one at a time.
OneAtATime == alone => \A c, d \in Cycle : UnderWay(c) /\ UnderWay(d) => c = d

\* What the renderer marks, or has marked, as pushed was in an answered session.
PushesServed ==
    /\ \A c \in Cycle : cycle[c].at = "outcome" => cycle[c].ops \subseteq Served
    /\ written \ main.pending \subseteq Served

\* A cursor, a flag or an open gate means a mirror that was pulled whole, and
\* so does a pull that asks for less than everything.
MirrorWhole == \A r \in Row : main.mirror[r] # 0
WholeWhenReady ==
    /\ gate \/ main.ready \/ main.cursor # NoCursor => MirrorWhole
    /\ \A c \in Cycle : cycle[c].since # NoCursor => MirrorWhole
    /\ \A c \in Cycle : cycle[c].at = "ingest" =>
         \A r \in Row : cycle[c].rows[r] # 0 \/ main.mirror[r] # 0

\* A pull of a cycle that is alone fits the mirror it will be ingested in.
PullFits ==
    alone => \A c \in Cycle :
        /\ cycle[c].at = "pull" => cycle[c].since <= main.cursor
        /\ cycle[c].at = "ingest" => \A r \in Row :
             Held(c, r) # cloud.version[r] => cloud.version[r] > cycle[c].cursor

\* Versions and cursors are numbers of changes that were made.
Numbered ==
    /\ \A r \in Row : cloud.version[r] <= cloud.changes
    /\ main.cursor <= cloud.changes
    /\ \A c \in Cycle : cycle[c].cursor <= cloud.changes

\* The invariant the proofs go by.
IInv ==
    /\ TypeOK /\ OneAtATime /\ PushesServed /\ WholeWhenReady /\ PullFits /\ Numbered
    /\ NothingSkipped

\* The network is up and the engine is wired, which it is until a sign-out.
Active == Reaches

\* As long as the engine is wired and online, what is queued is pushed.
QueueDrains == <>[]Active => <>[](main.pending = {})

\* The mirror catches up with the cloud, also when nothing is queued, unless
\* cycles overlapped.
MirrorCatchesUp == <>[]Active /\ []alone => <>[](main.mirror = cloud.version)

=============================================================================
