-------------------------- MODULE SyncSchedulerProofs --------------------------
(* Cycles of the sync engine that do not overlap lose nothing, for any number *)
(* of cycles, rows and changes, over lost answers, failing ingests, sign-outs *)
(* and restarts; and overlapping ones still open no gate early and mark       *)
(* nothing as pushed that is not.                                             *)
EXTENDS SyncScheduler, TLAPS

At == {"off", "asked", "push", "outcome", "since", "pull", "ingest", "caught", "end"}
CycleState == [at: At, ops: SUBSET Row, since: Nat, rows: [Row -> Nat], cursor: Nat]
EngineState == [started: BOOLEAN, stopped: BOOLEAN, running: BOOLEAN,
                full: BOOLEAN, manual: BOOLEAN, fresh: BOOLEAN]
MainState == [pending: SUBSET Row, mirror: [Row -> Nat], cursor: Nat,
              ready: BOOLEAN, syncing: BOOLEAN]

CloudState == [version: [Row -> Version], changes: Version, others: Nat, applied: SUBSET Row,
               open: SUBSET SUBSET Row, lost: SUBSET Row]

\* The parts of the invariant that speak of the cycles.
CycleInv == OneAtATime /\ PushesServed /\ WholeWhenReady /\ PullFits /\ Numbered /\ NothingSkipped

\* The type invariant in the names of this module.
LEMMA Typed ==
    TypeOK <=> /\ engine \in EngineState /\ cycle \in [Cycle -> CycleState] /\ main \in MainState
               /\ gate \in BOOLEAN /\ online \in BOOLEAN /\ alone \in BOOLEAN
               /\ session \in {"out", "in"}
               /\ cloud \in CloudState
               /\ written \subseteq Row
BY DEF TypeOK, EngineState, CycleState, MainState, CloudState, At

LEMMA TypedNext ==
    TypeOK' <=> /\ engine' \in EngineState /\ cycle' \in [Cycle -> CycleState] /\ main' \in MainState
                /\ gate' \in BOOLEAN /\ online' \in BOOLEAN /\ alone' \in BOOLEAN
                /\ session' \in {"out", "in"}
                /\ cloud' \in CloudState
                /\ written' \subseteq Row
BY DEF TypeOK, EngineState, CycleState, MainState, CloudState, At

\* What the states of a cycle hold.
LEMMA WaitingState ==
    ASSUME NEW at \in At
    PROVE  /\ Waiting(at) \in CycleState /\ Waiting(at).at = at
           /\ Waiting(at).since = NoCursor /\ Waiting(at).cursor = NoCursor
BY DEF Waiting, CycleState, NoRows, NoCursor

LEMMA PushingState ==
    ASSUME NEW at \in At, NEW ops \in SUBSET Row
    PROVE  /\ Pushing(at, ops) \in CycleState /\ Pushing(at, ops).at = at
           /\ Pushing(at, ops).ops = ops
           /\ Pushing(at, ops).since = NoCursor /\ Pushing(at, ops).cursor = NoCursor
BY DEF Pushing, CycleState, NoRows, NoCursor

LEMMA PullingState ==
    ASSUME NEW since \in Nat
    PROVE  /\ Pulling(since) \in CycleState /\ Pulling(since).at = "pull"
           /\ Pulling(since).since = since /\ Pulling(since).cursor = NoCursor
BY DEF Pulling, CycleState, NoRows, NoCursor, At

LEMMA HoldingState ==
    ASSUME NEW rows \in [Row -> Nat], NEW cursor \in Nat
    PROVE  /\ Holding(rows, cursor) \in CycleState /\ Holding(rows, cursor).at = "ingest"
           /\ Holding(rows, cursor).since = NoCursor /\ Holding(rows, cursor).cursor = cursor
           /\ Holding(rows, cursor).rows = rows
BY DEF Holding, CycleState, NoCursor, At

\* One cycle moves, the others stay.
LEMMA OneMoves ==
    ASSUME IInv, NEW c \in Cycle, NEW state \in CycleState, Becomes(c, state)
    PROVE  /\ cycle' \in [Cycle -> CycleState] /\ cycle'[c] = state
           /\ \A d \in Cycle \ {c} : cycle'[d] = cycle[d]
BY Typed DEF IInv, Becomes

\* A cycle moves to a state that holds no pull and no answered push, while
\* mirror, cursor and cloud stay as they are.
LEMMA RestInv ==
    ASSUME IInv, NEW c \in Cycle, NEW state \in CycleState, Becomes(c, state),
           state.at \in {"off", "asked", "push", "since", "caught", "end"},
           state.since = NoCursor, state.cursor = NoCursor,
           main'.mirror = main.mirror, main'.cursor = main.cursor, main'.ready = main.ready,
           alone' => alone,
           \/ UnderWay(c) \/ state.at \in {"off", "asked"}
           \/ alone' => \A d \in Cycle : ~UnderWay(d),
           written' \ main'.pending \subseteq Served,
           UNCHANGED <<gate, cloud>>
    PROVE  CycleInv'
<1>1. cycle'[c] = state /\ \A d \in Cycle \ {c} : cycle'[d] = cycle[d]
    BY OneMoves
<1>2. OneAtATime'
    BY <1>1 DEF IInv, OneAtATime, UnderWay
<1>3. PushesServed'
    BY <1>1 DEF IInv, PushesServed, Served
<1>4. WholeWhenReady'
    BY <1>1 DEF IInv, WholeWhenReady, MirrorWhole
<1>5. NothingSkipped'
    BY DEF IInv, NothingSkipped, MirrorCovered
<1>6. Numbered'
    BY <1>1, Typed DEF IInv, Numbered, NoCursor, Version, CloudState
<1>7. PullFits'
    BY <1>1 DEF IInv, PullFits, Held
<1>. QED  BY <1>2, <1>3, <1>4, <1>5, <1>6, <1>7 DEF CycleInv

\* The invariant holds before the application is used.
LEMMA InitInv == Init => IInv
<1> SUFFICES ASSUME Init PROVE IInv
    OBVIOUS
<1>1. /\ NoCycle \in CycleState /\ NoCycle.at = "off"
      /\ NoCycle.since = NoCursor /\ NoCycle.cursor = NoCursor
    BY WaitingState DEF NoCycle, At
<1>2. /\ \A c \in Cycle : cycle[c] = NoCycle
      /\ cycle \in [Cycle -> CycleState]
    BY <1>1 DEF Init
<1>3. TypeOK
  <2>1. engine \in EngineState /\ main \in MainState
    BY DEF Init, Stopped, EngineState, MainState, NoCursor
  <2>2. cloud \in CloudState
    BY DEF Init, Version, CloudState
  <2>. QED  BY <1>2, <2>1, <2>2, Typed DEF Init
<1>4. OneAtATime /\ PushesServed
    BY <1>1, <1>2 DEF Init, OneAtATime, UnderWay, PushesServed, Served
<1>5. WholeWhenReady
    BY <1>1, <1>2 DEF Init, WholeWhenReady, NoCursor
<1>6. PullFits
    BY <1>1, <1>2 DEF Init, PullFits
<1>7. Numbered /\ NothingSkipped
    BY <1>1, <1>2 DEF Init, Numbered, NothingSkipped, MirrorCovered, NoCursor
<1>. QED  BY <1>3, <1>4, <1>5, <1>6, <1>7 DEF IInv

\* A cycle that starts tells main and reads the pending operations.
LEMMA StartInv ==
    ASSUME IInv, NEW c \in Cycle, Start(c), UNCHANGED <<gate, online, session, cloud, written>>
    PROVE  IInv'
<1> DEFINE state == IF main.pending = {} THEN Waiting("since") ELSE Pushing("push", main.pending)
<1>1. main.pending \in SUBSET Row
    BY Typed DEF IInv, MainState
<1>2. /\ state \in CycleState /\ state.at \in {"push", "since"}
      /\ state.since = NoCursor /\ state.cursor = NoCursor
    BY <1>1, WaitingState, PushingState DEF At
<1>3. Becomes(c, state)
    BY DEF Start
<1> HIDE DEF state
<1>4. /\ main'.mirror = main.mirror /\ main'.cursor = main.cursor /\ main'.ready = main.ready
      /\ main'.pending = main.pending /\ main' \in MainState /\ engine' \in EngineState
      /\ alone' \in BOOLEAN
      /\ alone' => alone /\ \A d \in Cycle : ~UnderWay(d)
    BY Typed DEF Start, IInv, MainState, EngineState
<1>5. CycleInv'
    BY <1>2, <1>3, <1>4, RestInv DEF IInv, PushesServed
<1>6. TypeOK'
    BY <1>2, <1>3, <1>4, OneMoves, Typed, TypedNext DEF IInv
<1>. QED  BY <1>5, <1>6 DEF IInv, CycleInv

\* A cycle goes where it waits for something else, and at most main's flag
\* and the engine's variables change.
LEMMA GoesInv ==
    ASSUME IInv, NEW c \in Cycle, NEW at \in {"off", "asked", "since", "caught", "end"},
           Goes(c, at), UnderWay(c) \/ at \in {"off", "asked"},
           main' \in MainState, engine' \in EngineState, session' \in {"out", "in"},
           main'.mirror = main.mirror, main'.cursor = main.cursor, main'.ready = main.ready,
           written' \ main'.pending \subseteq Served,
           UNCHANGED <<gate, online, cloud, written, alone>>
    PROVE  IInv'
<1>1. /\ Waiting(at) \in CycleState /\ Waiting(at).at = at
      /\ Waiting(at).since = NoCursor /\ Waiting(at).cursor = NoCursor
    BY WaitingState DEF At
<1>2. Becomes(c, Waiting(at))
    BY DEF Goes
<1>3. CycleInv'
    BY <1>1, <1>2, RestInv
<1>4. TypeOK'
    BY <1>1, <1>2, OneMoves, Typed, TypedNext DEF IInv
<1>. QED  BY <1>3, <1>4 DEF IInv, CycleInv

\* A trigger, and the answer it waited for.
LEMMA TriggerInv == ASSUME IInv, NEW c \in Cycle, Trigger(c) \/ Answered(c) PROVE IInv'
<1>1. UNCHANGED <<gate, online, session, cloud, written>>
    BY DEF Trigger, Answered
<1>2. CASE Start(c)
    BY <1>1, <1>2, StartInv
<1>3. CASE ~Start(c)
  <2>1. PICK at \in {"off", "asked"} : Goes(c, at) /\ UNCHANGED <<engine, main, alone>>
    BY <1>3 DEF Trigger, Answered
  <2>2. main \in MainState /\ engine \in EngineState /\ session \in {"out", "in"}
    BY Typed DEF IInv
  <2>. QED  BY <1>1, <2>1, <2>2, GoesInv DEF IInv, PushesServed
<1>. QED  BY <1>2, <1>3

\* Nothing but flags, session and network changes.
LEMMA QuietInv ==
    ASSUME IInv, engine' \in EngineState, session' \in {"out", "in"}, online' \in BOOLEAN,
           gate' \in {gate, main.ready}, UNCHANGED <<cycle, main, cloud, written, alone>>
    PROVE  IInv'
<1>1. TypeOK'
    BY Typed, TypedNext DEF IInv, MainState
<1>2. OneAtATime' /\ PushesServed'
    BY DEF IInv, OneAtATime, UnderWay, PushesServed, Served
<1>3. WholeWhenReady' /\ PullFits'
    BY DEF IInv, WholeWhenReady, MirrorWhole, PullFits, Held
<1>4. Numbered' /\ NothingSkipped'
    BY DEF IInv, Numbered, NothingSkipped, MirrorCovered
<1>. QED  BY <1>1, <1>2, <1>3, <1>4 DEF IInv

\* "Sync now" starts a cycle or leaves a request for one.
LEMMA SyncNowInv == ASSUME IInv, NEW c \in Cycle, SyncNow(c) PROVE IInv'
<1>1. UNCHANGED <<gate, online, session, cloud, written>>
    BY DEF SyncNow
<1>2. CASE engine.running
  <2>1. engine' \in EngineState /\ UNCHANGED <<cycle, main, alone>>
    BY <1>2, Typed DEF SyncNow, IInv, EngineState
  <2>. QED  BY <1>1, <2>1, QuietInv, Typed DEF IInv
<1>3. CASE ~engine.running
    BY <1>1, <1>3, StartInv DEF SyncNow
<1>. QED  BY <1>2, <1>3

\* An answer opens a session and numbers nothing.
LEMMA Answers ==
    ASSUME IInv, NEW ops \in SUBSET Row, Answer(ops)
    PROVE  /\ cloud' \in CloudState
           /\ cloud.changes <= cloud'.changes
           /\ \A r \in Row : /\ cloud'.version[r] <= cloud'.changes
                             /\ cloud'.version[r] = cloud.version[r]
           /\ ops \subseteq Served' /\ Served \subseteq Served'
<1>1. cloud \in CloudState
    BY Typed DEF IInv
<1>2. cloud' = [cloud EXCEPT !.open = cloud.open \cup {ops}]
    BY DEF Answer
<1>3. cloud' \in CloudState
    BY <1>1, <1>2 DEF CloudState
<1>4. /\ cloud'.changes = cloud.changes /\ cloud'.version = cloud.version
      /\ cloud'.applied = cloud.applied /\ cloud'.lost = cloud.lost
      /\ cloud'.open = cloud.open \cup {ops}
    BY <1>1, <1>2 DEF CloudState
<1>5. cloud.changes \in Nat /\ \A r \in Row : cloud.version[r] <= cloud.changes
    BY <1>1 DEF IInv, Numbered, CloudState, Version
<1>6. ops \subseteq UNION cloud'.open /\ UNION cloud.open \subseteq UNION cloud'.open
    BY <1>4
<1>7. ops \subseteq Served' /\ Served \subseteq Served'
    BY <1>4, <1>6 DEF Served
<1>. QED  BY <1>3, <1>4, <1>5, <1>7

\* A committed push numbers the rows it changes beyond every cursor.
LEMMA Committed ==
    ASSUME IInv, NEW ops \in cloud.open, Commit(ops)
    PROVE  /\ cloud' \in CloudState
           /\ cloud.changes <= cloud'.changes
           /\ \A r \in Row : /\ cloud'.version[r] <= cloud'.changes
                             /\ \/ cloud'.version[r] = cloud.version[r]
                                \/ cloud'.version[r] = cloud.changes + 1
           /\ Served \subseteq Served'
<1>1. /\ cloud.version \in [Row -> Version] /\ cloud.changes \in Version
      /\ cloud.others \in Nat /\ cloud.applied \in SUBSET Row
      /\ cloud.open \in SUBSET SUBSET Row /\ cloud.lost \in SUBSET Row
      /\ \A r \in Row : cloud.version[r] <= cloud.changes
    BY Typed DEF IInv, Numbered, CloudState
<1>2. /\ cloud'.changes = IF ops \subseteq cloud.applied THEN cloud.changes ELSE cloud.changes + 1
      /\ cloud'.others = cloud.others /\ cloud'.applied = cloud.applied \cup ops
      /\ cloud'.open = cloud.open \ {ops} /\ cloud'.lost = cloud.lost \ ops
      /\ \A r \in Row : cloud'.version[r] = IF r \in ops \ cloud.applied THEN cloud.changes + 1
                                            ELSE cloud.version[r]
    BY DEF Commit
<1>3. ops \in SUBSET Row
    BY <1>1
<1>4. cloud' \in CloudState
    BY <1>1, <1>3 DEF Commit, Version, CloudState
<1>5. ASSUME NEW r \in Row
      PROVE  /\ cloud'.version[r] <= cloud'.changes
             /\ \/ cloud'.version[r] = cloud.version[r]
                \/ cloud'.version[r] = cloud.changes + 1
  <2>1. CASE r \in ops \ cloud.applied
    BY <1>1, <1>2, <2>1 DEF Version
  <2>2. CASE r \notin ops \ cloud.applied
    BY <1>1, <1>2, <2>2 DEF Version
  <2>. QED  BY <2>1, <2>2
<1>6. Served \subseteq Served'
  <2> SUFFICES ASSUME NEW x \in Served PROVE x \in Served'
    OBVIOUS
  <2>1. CASE x \in ops
    BY <1>2, <2>1 DEF Served
  <2>2. CASE x \notin ops
    <3>1. ASSUME x \in UNION cloud.open PROVE x \in UNION cloud'.open
      <4>1. PICK o \in cloud.open : x \in o
        BY <3>1
      <4>2. o \in cloud'.open
        BY <1>2, <2>2, <4>1
      <4>. QED  BY <4>1, <4>2
    <3>2. \/ x \in cloud.applied /\ x \in cloud'.applied
          \/ x \in UNION cloud.open
          \/ x \in cloud.lost /\ x \in cloud'.lost
      BY <1>2, <2>2 DEF Served
    <3>. QED  BY <3>1, <3>2 DEF Served
  <2>. QED  BY <2>1, <2>2
<1>7. cloud.changes <= cloud'.changes
    BY <1>1, <1>2 DEF Version
<1>. QED  BY <1>4, <1>5, <1>6, <1>7

\* The cloud moves on, and at most one cycle with it, to a state without a pull.
LEMMA CloudMovesInv ==
    ASSUME IInv,
           cloud' \in CloudState,
           cloud.changes <= cloud'.changes,
           \A r \in Row : /\ cloud'.version[r] <= cloud'.changes
                          /\ \/ cloud'.version[r] = cloud.version[r]
                             \/ cloud'.version[r] = cloud.changes + 1,
           Served \subseteq Served',
           cycle' \in [Cycle -> CycleState],
           \A c \in Cycle :
             \/ cycle'[c] = cycle[c]
             \/ /\ UnderWay(c) /\ cycle'[c].at \in {"outcome", "caught"}
                /\ cycle'[c].ops \subseteq Served'
                /\ cycle'[c].since = NoCursor /\ cycle'[c].cursor = NoCursor,
           UNCHANGED <<engine, main, gate, online, session, written, alone>>
    PROVE  IInv'
<1>1. /\ cloud.version \in [Row -> Version] /\ cloud.changes \in Nat /\ main.cursor \in Nat
      /\ \A c \in Cycle : cycle[c].cursor \in Nat
    BY Typed DEF IInv, MainState, CycleState, CloudState, Version
<1>2. TypeOK'
    BY Typed, TypedNext DEF IInv
<1>3. OneAtATime'
    BY DEF IInv, OneAtATime, UnderWay
<1>4. PushesServed'
    BY DEF IInv, PushesServed
<1>5. WholeWhenReady'
    BY DEF IInv, WholeWhenReady, MirrorWhole
<1>6. Numbered'
    BY <1>1, Typed DEF IInv, Numbered, NoCursor, Version, CloudState
<1>7. NothingSkipped'
    BY <1>1 DEF IInv, NothingSkipped, MirrorCovered, Numbered, Version
<1>8. PullFits'
    BY <1>1 DEF IInv, PullFits, Held, Numbered, Version
<1>. QED  BY <1>2, <1>3, <1>4, <1>5, <1>6, <1>7, <1>8 DEF IInv

LEMMA ServePushInv == ASSUME IInv, NEW c \in Cycle, ServePush(c) PROVE IInv'
<1>1. /\ cycle[c].ops \in SUBSET Row /\ cycle[c].at = "push" /\ Answer(cycle[c].ops)
      /\ Becomes(c, Pushing("outcome", cycle[c].ops))
      /\ UNCHANGED <<engine, main, gate, online, session, written, alone>>
    BY Typed DEF IInv, CycleState, ServePush
<1> PICK ops \in SUBSET Row : ops = cycle[c].ops
    BY <1>1
<1>2. /\ Answer(ops) /\ Becomes(c, Pushing("outcome", ops))
    BY <1>1 DEF Answer, Becomes
<1>3. /\ Pushing("outcome", ops) \in CycleState /\ Pushing("outcome", ops).at = "outcome"
      /\ Pushing("outcome", ops).ops = ops
      /\ Pushing("outcome", ops).since = NoCursor /\ Pushing("outcome", ops).cursor = NoCursor
    BY PushingState DEF At
<1>4. /\ cycle' \in [Cycle -> CycleState] /\ cycle'[c] = Pushing("outcome", ops)
      /\ \A d \in Cycle \ {c} : cycle'[d] = cycle[d]
    BY <1>2, <1>3, OneMoves
<1>5. UnderWay(c)
    BY <1>1 DEF UnderWay
<1>. QED  BY <1>1, <1>2, <1>3, <1>4, <1>5, Answers, CloudMovesInv

LEMMA OutcomeInv == ASSUME IInv, NEW c \in Cycle, Outcome(c) PROVE IInv'
<1>1. /\ cycle[c].at = "outcome" /\ UnderWay(c) /\ cycle[c].ops \subseteq Served
      /\ cycle[c].ops \in SUBSET Row
    BY Typed DEF Outcome, UnderWay, IInv, PushesServed, CycleState
<1>2. /\ main' \in MainState /\ main'.pending = main.pending \ cycle[c].ops
      /\ main'.mirror = main.mirror /\ main'.cursor = main.cursor /\ main'.ready = main.ready
    BY <1>1, Typed DEF Outcome, IInv, MainState
<1>3. written' \ main'.pending \subseteq Served
    BY <1>1, <1>2 DEF Outcome, IInv, PushesServed
<1>4. engine' \in EngineState /\ session' \in {"out", "in"}
    BY Typed DEF Outcome, IInv
<1>5. Goes(c, "since") /\ UNCHANGED <<gate, online, cloud, written, alone>>
    BY DEF Outcome
<1>. QED  BY <1>1, <1>2, <1>3, <1>4, <1>5, GoesInv

LEMMA ReadSinceInv == ASSUME IInv, NEW c \in Cycle, ReadSince(c) PROVE IInv'
<1> DEFINE since == IF engine.full THEN NoCursor ELSE main.cursor
<1>1. /\ since \in Nat /\ since \in {NoCursor, main.cursor} /\ main.cursor \in Nat
      /\ Becomes(c, Pulling(since)) /\ cycle[c].at = "since"
      /\ UNCHANGED <<engine, main, gate, online, session, cloud, written, alone>>
    BY Typed DEF IInv, MainState, ReadSince, NoCursor
<1> HIDE DEF since
<1>2. /\ Pulling(since) \in CycleState /\ Pulling(since).at = "pull"
      /\ Pulling(since).since = since /\ Pulling(since).cursor = NoCursor
    BY <1>1, PullingState
<1>3. /\ cycle' \in [Cycle -> CycleState] /\ cycle'[c] = Pulling(since)
      /\ \A d \in Cycle \ {c} : cycle'[d] = cycle[d]
    BY <1>1, <1>2, OneMoves
<1>4. TypeOK'
    BY <1>1, <1>3, Typed, TypedNext DEF IInv
<1>5. OneAtATime' /\ PushesServed'
    BY <1>1, <1>2, <1>3 DEF IInv, OneAtATime, UnderWay, PushesServed, Served
<1>6. WholeWhenReady'
    BY <1>1, <1>2, <1>3 DEF IInv, WholeWhenReady, MirrorWhole
<1>7. PullFits'
    BY <1>1, <1>2, <1>3 DEF IInv, PullFits, Held, NoCursor
<1>8. Numbered' /\ NothingSkipped'
    BY <1>1, <1>2, <1>3, Typed DEF IInv, Numbered, NothingSkipped, MirrorCovered, NoCursor, Version, CloudState
<1>. QED  BY <1>4, <1>5, <1>6, <1>7, <1>8 DEF IInv

\* The rows of an answer are the rows the mirror lacks.
LEMMA ServePullInv == ASSUME IInv, NEW c \in Cycle, ServePull(c) PROVE IInv'
<1> PICK since \in Nat : since = cycle[c].since
    BY Typed DEF IInv, CycleState
<1> DEFINE rows == Selected(since)
<1> PICK changes \in Version : changes = cloud.changes
    BY Typed DEF IInv, CloudState
<1>1. /\ cloud.version \in [Row -> Version] /\ main.cursor \in Nat /\ main.mirror \in [Row -> Nat]
      /\ changes \in Nat /\ cycle[c].at = "pull" /\ Becomes(c, Holding(rows, changes))
      /\ UNCHANGED <<engine, main, gate, online, session, cloud, written, alone>>
    BY Typed DEF IInv, MainState, CloudState, ServePull, Version, Becomes, Selected
<1>2. /\ rows \in [Row -> Nat]
      /\ \A r \in Row : rows[r] = IF cloud.version[r] > since THEN cloud.version[r] ELSE 0
    BY <1>1 DEF Selected, Version
<1> HIDE DEF rows
<1>3. /\ Holding(rows, changes) \in CycleState /\ Holding(rows, changes).at = "ingest"
      /\ Holding(rows, changes).since = NoCursor /\ Holding(rows, changes).cursor = changes
      /\ Holding(rows, changes).rows = rows
    BY <1>1, <1>2, HoldingState
<1>4. /\ cycle' \in [Cycle -> CycleState] /\ cycle'[c] = Holding(rows, changes)
      /\ \A d \in Cycle \ {c} : cycle'[d] = cycle[d]
    BY <1>1, <1>3, OneMoves
<1>5. TypeOK'
    BY <1>1, <1>4, Typed, TypedNext DEF IInv
<1>6. OneAtATime' /\ PushesServed'
    BY <1>1, <1>3, <1>4 DEF IInv, OneAtATime, UnderWay, PushesServed, Served
<1>7. \A r \in Row : rows[r] # 0 \/ main.mirror[r] # 0
  <2>1. CASE since = NoCursor
    BY <1>1, <1>2, <2>1 DEF Version, NoCursor
  <2>2. CASE since # NoCursor
    BY <2>2 DEF IInv, WholeWhenReady, MirrorWhole
  <2>. QED  BY <2>1, <2>2
<1>8. WholeWhenReady'
    BY <1>1, <1>3, <1>4, <1>7 DEF IInv, WholeWhenReady, MirrorWhole
<1>9. PullFits'
  <2> SUFFICES ASSUME alone PROVE PullFits'
    BY <1>1 DEF PullFits
  <2>1. \A d \in Cycle \ {c} : cycle'[d].at \notin {"pull", "ingest"}
    BY <1>1, <1>4 DEF IInv, OneAtATime, UnderWay
  <2>2. since <= main.cursor
    BY <1>1 DEF IInv, PullFits
  <2>3. ASSUME NEW r \in Row
        PROVE  (IF rows[r] # 0 THEN rows[r] ELSE main.mirror[r]) = cloud.version[r]
    <3>1. main.mirror[r] # cloud.version[r] => cloud.version[r] > main.cursor
      BY DEF IInv, NothingSkipped, MirrorCovered
    <3>. QED  BY <1>1, <1>2, <2>2, <3>1 DEF Version
  <2>. QED  BY <1>1, <1>3, <1>4, <2>1, <2>3 DEF PullFits, Held
<1>10. Numbered' /\ NothingSkipped'
    BY <1>1, <1>3, <1>4, Typed
    DEF IInv, Numbered, NothingSkipped, MirrorCovered, Version, CloudState
<1>. QED  BY <1>5, <1>6, <1>8, <1>9, <1>10 DEF IInv

LEMMA IngestInv == ASSUME IInv, NEW c \in Cycle, Ingest(c) PROVE IInv'
<1>1. /\ Waiting("end") \in CycleState /\ Waiting("end").at = "end"
      /\ Waiting("end").since = NoCursor /\ Waiting("end").cursor = NoCursor
    BY WaitingState DEF At
<1>2. /\ cycle' \in [Cycle -> CycleState] /\ cycle'[c] = Waiting("end")
      /\ \A d \in Cycle \ {c} : cycle'[d] = cycle[d]
    BY <1>1, OneMoves DEF Ingest, Goes
<1>3. /\ cycle[c].at = "ingest" /\ cycle[c] \in CycleState
      /\ main'.pending = main.pending /\ main'.cursor = cycle[c].cursor
      /\ main'.ready = TRUE /\ main'.syncing = main.syncing
      /\ \A r \in Row : main'.mirror[r] = Held(c, r)
      /\ UNCHANGED <<gate, online, session, cloud, written, alone>>
    BY Typed DEF Ingest, NewCursor, IInv
<1>4. main' \in MainState /\ engine' \in EngineState
    BY <1>3, Typed DEF Ingest, NewCursor, Held, IInv, MainState, CycleState, EngineState
<1>5. TypeOK'
    BY <1>2, <1>3, <1>4, Typed, TypedNext DEF IInv
<1>6. OneAtATime' /\ PushesServed'
    BY <1>1, <1>2, <1>3 DEF IInv, OneAtATime, UnderWay, PushesServed, Served
<1>7. \A r \in Row : main'.mirror[r] # 0
    BY <1>3 DEF IInv, WholeWhenReady, Held
<1>8. WholeWhenReady'
    BY <1>1, <1>2, <1>7 DEF WholeWhenReady, MirrorWhole, IInv
<1>9. Numbered'
    BY <1>1, <1>2, <1>3, Typed DEF IInv, Numbered, NoCursor, Version, CloudState
<1>10. PullFits' /\ NothingSkipped'
  <2> SUFFICES ASSUME alone PROVE PullFits' /\ NothingSkipped'
    BY <1>3 DEF PullFits, NothingSkipped
  <2>1. \A d \in Cycle : cycle'[d].at \notin {"pull", "ingest"}
    BY <1>1, <1>2, <1>3 DEF IInv, OneAtATime, UnderWay
  <2>2. MirrorCovered'
    BY <1>3 DEF MirrorCovered, IInv, PullFits
  <2>. QED  BY <2>1, <2>2 DEF PullFits, NothingSkipped
<1>. QED  BY <1>5, <1>6, <1>8, <1>9, <1>10 DEF IInv

LEMMA FailInv == ASSUME IInv, NEW c \in Cycle, Fail(c) PROVE IInv'
<1>1. /\ Waiting("caught") \in CycleState /\ Waiting("caught").at = "caught"
      /\ Waiting("caught").ops = {}
      /\ Waiting("caught").since = NoCursor /\ Waiting("caught").cursor = NoCursor
    BY WaitingState DEF At, Waiting
<1>2. /\ UnderWay(c) /\ Goes(c, "caught") /\ main' = main
      /\ UNCHANGED <<engine, gate, online, session, written, alone>>
    BY DEF Fail, UnderWay, AfterFailure
<1>3. CASE UNCHANGED cloud
    BY <1>2, <1>3, GoesInv, Typed DEF IInv, PushesServed
<1>4. CASE Answer(cycle[c].ops)
  <2> PICK ops \in SUBSET Row : ops = cycle[c].ops
    BY Typed DEF IInv, CycleState
  <2>1. Answer(ops)
    BY <1>4 DEF Answer
  <2>2. /\ cycle' \in [Cycle -> CycleState] /\ cycle'[c] = Waiting("caught")
        /\ \A d \in Cycle \ {c} : cycle'[d] = cycle[d]
    BY <1>1, <1>2, OneMoves DEF Goes
  <2>. QED  BY <1>1, <1>2, <2>1, <2>2, Answers, CloudMovesInv
<1>. QED  BY <1>3, <1>4 DEF Fail

\* A rejected token, a caught error and the finally block.
LEMMA EndsInv ==
    ASSUME IInv, NEW c \in Cycle, Unauthorized(c) \/ Caught(c) \/ End(c) PROVE IInv'
<1>1. PICK at \in {"off", "caught", "end"} : Goes(c, at)
    BY DEF Unauthorized, Caught, End
<1>2. UnderWay(c) /\ UNCHANGED <<gate, online, cloud, written, alone>>
    BY DEF Unauthorized, Caught, End, UnderWay
<1>3. /\ main' \in MainState /\ engine' \in EngineState /\ session' \in {"out", "in"}
      /\ main'.pending = main.pending
      /\ main'.mirror = main.mirror /\ main'.cursor = main.cursor /\ main'.ready = main.ready
    BY Typed DEF Unauthorized, Caught, End, IInv, MainState, EngineState
<1>. QED  BY <1>1, <1>2, <1>3, GoesInv DEF IInv, PushesServed

LEMMA WriteInv == ASSUME IInv, NEW r \in Row, WriteLocally(r) PROVE IInv'
<1>1. /\ main' \in MainState /\ main'.pending = main.pending \cup {r}
      /\ main'.mirror = main.mirror /\ main'.cursor = main.cursor /\ main'.ready = main.ready
      /\ written' = written \cup {r}
      /\ UNCHANGED <<engine, cycle, gate, online, session, cloud, alone>>
    BY Typed DEF WriteLocally, IInv, MainState
<1>2. TypeOK'
    BY <1>1, Typed, TypedNext DEF IInv
<1>3. OneAtATime' /\ PushesServed'
    BY <1>1 DEF IInv, OneAtATime, UnderWay, PushesServed, Served
<1>4. WholeWhenReady' /\ PullFits'
    BY <1>1 DEF IInv, WholeWhenReady, MirrorWhole, PullFits, Held
<1>5. Numbered' /\ NothingSkipped'
    BY <1>1 DEF IInv, Numbered, NothingSkipped, MirrorCovered
<1>. QED  BY <1>2, <1>3, <1>4, <1>5 DEF IInv

\* A session commits, or never does.
LEMMA SessionEndsInv ==
    ASSUME IInv, NEW ops \in cloud.open, Commit(ops) \/ NeverCommits(ops) PROVE IInv'
<1>1. /\ UNCHANGED <<engine, cycle, main, gate, online, session, written, alone>>
      /\ cycle' \in [Cycle -> CycleState]
    BY Typed DEF Commit, NeverCommits, IInv
<1>2. CASE Commit(ops)
    BY <1>1, <1>2, Committed, CloudMovesInv
<1>3. CASE NeverCommits(ops)
  <2>1. /\ cloud \in CloudState /\ cloud.version \in [Row -> Version] /\ cloud.changes \in Version
        /\ \A r \in Row : cloud.version[r] <= cloud.changes
    BY Typed DEF IInv, Numbered, CloudState
  <2>2. cloud' = [cloud EXCEPT !.open = cloud.open \ {ops},
                               !.lost = cloud.lost \cup (ops \ cloud.applied)]
    BY <1>3 DEF NeverCommits
  <2>3. ops \in SUBSET Row
    BY <2>1 DEF CloudState
  <2>4. cloud' \in CloudState
    BY <2>1, <2>2, <2>3 DEF CloudState
  <2>5. /\ cloud'.version = cloud.version /\ cloud'.changes = cloud.changes
        /\ cloud'.applied = cloud.applied
        /\ cloud'.open = cloud.open \ {ops} /\ cloud'.lost = cloud.lost \cup (ops \ cloud.applied)
    BY <2>1, <2>2 DEF CloudState
  <2>6. Served \subseteq Served'
    <3> SUFFICES ASSUME NEW x \in Served PROVE x \in Served'
      OBVIOUS
    <3>1. CASE x \in ops
      BY <2>5, <3>1 DEF Served
    <3>2. CASE x \notin ops
      <4>1. ASSUME x \in UNION cloud.open PROVE x \in UNION cloud'.open
        <5>1. PICK o \in cloud.open : x \in o
          BY <4>1
        <5>2. o \in cloud'.open
          BY <2>5, <3>2, <5>1
        <5>. QED  BY <5>1, <5>2
      <4>2. \/ x \in cloud.applied /\ x \in cloud'.applied
            \/ x \in UNION cloud.open
            \/ x \in cloud.lost /\ x \in cloud'.lost
        BY <2>5 DEF Served
      <4>. QED  BY <4>1, <4>2 DEF Served
    <3>. QED  BY <3>1, <3>2
  <2>. QED  BY <1>1, <2>1, <2>4, <2>5, <2>6, CloudMovesInv DEF Version
<1>. QED  BY <1>2, <1>3

LEMMA CloudChangeInv == ASSUME IInv, NEW r \in Row, CloudChange(r) PROVE IInv'
<1>1. /\ cloud \in CloudState /\ cloud.version \in [Row -> Version] /\ cloud.changes \in Version
      /\ cloud.others \in Nat /\ cycle \in [Cycle -> CycleState]
      /\ \A x \in Row : cloud.version[x] <= cloud.changes
    BY Typed DEF IInv, Numbered, CloudState
<1>2. PICK version \in [Row -> Version] : version = [cloud.version EXCEPT ![r] = cloud.changes + 1]
  <2>1. cloud.changes + 1 \in Version
    BY <1>1 DEF Version
  <2>. QED  BY <1>1, <2>1
<1>3. PICK changes \in Version, others \in Nat :
        changes = cloud.changes + 1 /\ others = cloud.others + 1
    BY <1>1 DEF Version
<1>4. cloud' = [cloud EXCEPT !.version = version, !.changes = changes, !.others = others]
    BY <1>2, <1>3 DEF CloudChange
<1>5. cloud' \in CloudState
    BY <1>1, <1>4 DEF CloudState
<1>6. /\ cloud'.changes = cloud.changes + 1 /\ cloud'.version = version
      /\ cloud'.applied = cloud.applied /\ cloud'.open = cloud.open /\ cloud'.lost = cloud.lost
    BY <1>1, <1>3, <1>4 DEF CloudState
<1>7. \A x \in Row : cloud'.version[x] = IF x = r THEN cloud.changes + 1 ELSE cloud.version[x]
    BY <1>1, <1>2, <1>6
<1>8. Served' = Served
    BY <1>6 DEF Served
<1>9. UNCHANGED <<engine, cycle, main, gate, online, session, written, alone>>
    BY DEF CloudChange
<1>. QED  BY <1>1, <1>5, <1>6, <1>7, <1>8, <1>9, CloudMovesInv DEF Version

\* The gate, the clock, the network and the session.
LEMMA FlagsInv ==
    ASSUME IInv, RefreshStatus \/ GoStale \/ ChangeNetwork \/ SignIn \/ SignOut PROVE IInv'
<1>1. /\ engine' \in EngineState /\ session' \in {"out", "in"} /\ online' \in BOOLEAN
      /\ gate' \in {gate, main.ready} /\ UNCHANGED <<cycle, main, cloud, written, alone>>
    BY Typed DEF RefreshStatus, GoStale, ChangeNetwork, SignIn, SignOut, StartEngine, IInv,
                 EngineState
<1>. QED  BY <1>1, QuietInv

LEMMA RelaunchInv == ASSUME IInv, Relaunch PROVE IInv'
<1>1. /\ NoCycle \in CycleState /\ NoCycle.at = "off"
      /\ NoCycle.since = NoCursor /\ NoCycle.cursor = NoCursor
    BY WaitingState DEF NoCycle, At
<1>2. cycle' \in [Cycle -> CycleState] /\ \A c \in Cycle : cycle'[c] = NoCycle
    BY <1>1 DEF Relaunch
<1>3. /\ main' \in MainState /\ main'.pending = main.pending /\ main'.mirror = main.mirror
      /\ main'.cursor = main.cursor /\ main'.ready = (main.cursor # NoCursor)
    BY Typed DEF Relaunch, ColdStart, IInv, MainState
<1>4. engine' \in EngineState /\ gate' = FALSE /\ session' = "out"
      /\ UNCHANGED <<online, cloud, written, alone>>
    BY DEF Relaunch, Stopped, EngineState
<1>5. TypeOK'
    BY <1>2, <1>3, <1>4, Typed, TypedNext DEF IInv
<1>6. OneAtATime' /\ PushesServed'
    BY <1>1, <1>2, <1>3, <1>4 DEF IInv, OneAtATime, UnderWay, PushesServed, Served
<1>7. WholeWhenReady' /\ PullFits'
    BY <1>1, <1>2, <1>3, <1>4 DEF IInv, WholeWhenReady, MirrorWhole, PullFits
<1>8. Numbered' /\ NothingSkipped'
    BY <1>1, <1>2, <1>3, <1>4, Typed
    DEF IInv, Numbered, NothingSkipped, MirrorCovered, NoCursor, Version, CloudState
<1>. QED  BY <1>5, <1>6, <1>7, <1>8 DEF IInv

LEMMA NextInv == ASSUME IInv, Next PROVE IInv'
<1>1. CASE \E c \in Cycle : Trigger(c) \/ SyncNow(c) \/ CycleStep(c)
    BY <1>1, TriggerInv, SyncNowInv, ServePushInv, OutcomeInv, ReadSinceInv, ServePullInv,
       IngestInv, FailInv, EndsInv DEF CycleStep
<1>2. CASE \E r \in Row : WriteLocally(r) \/ CloudChange(r)
    BY <1>2, WriteInv, CloudChangeInv
<1>3. CASE \E ops \in cloud.open : Commit(ops) \/ NeverCommits(ops)
    BY <1>3, SessionEndsInv
<1>4. CASE RefreshStatus \/ GoStale \/ ChangeNetwork \/ SignIn \/ SignOut \/ Relaunch
    BY <1>4, FlagsInv, RelaunchInv
<1>. QED  BY <1>1, <1>2, <1>3, <1>4 DEF Next

LEMMA StutterInv == ASSUME IInv, UNCHANGED vars PROVE IInv'
<1>1. TypeOK'
    BY DEF IInv, TypeOK, vars
<1>2. OneAtATime' /\ PushesServed'
    BY DEF IInv, OneAtATime, UnderWay, PushesServed, Served, vars
<1>3. WholeWhenReady' /\ PullFits'
    BY DEF IInv, WholeWhenReady, MirrorWhole, PullFits, Held, vars
<1>4. Numbered' /\ NothingSkipped'
    BY DEF IInv, Numbered, NothingSkipped, MirrorCovered, vars
<1>. QED  BY <1>1, <1>2, <1>3, <1>4 DEF IInv

\* The invariant holds however many cycles run and whatever fails in them.
THEOREM SchedulerInvariance == Spec => []IInv
<1>1. IInv /\ [Next]_vars => IInv'
    BY NextInv, StutterInv
<1>. QED  BY InitInv, <1>1, PTL DEF Spec

\* Every variable stays in its range.
THEOREM SchedulerTypeCorrect == Spec => []TypeOK
<1>1. IInv => TypeOK
    BY DEF IInv
<1>. QED  BY <1>1, SchedulerInvariance, PTL

\* Cycles that do not overlap leave no row behind the cursor.
THEOREM NothingIsSkipped == Spec => []NothingSkipped
<1>1. IInv => NothingSkipped
    BY DEF IInv
<1>. QED  BY <1>1, SchedulerInvariance, PTL

\* What left the queue is in the cloud once the sessions have committed,
\* overlapping cycles or not, or is among what an answered session lost.
THEOREM SyncedRowsAreApplied == Spec => [](PushesServed /\ SyncedIsApplied)
<1>1. IInv => PushesServed /\ SyncedIsApplied
    BY DEF IInv, PushesServed, Served, SyncedIsApplied
<1>. QED  BY <1>1, SchedulerInvariance, PTL

\* The gate opens on a mirror that was pulled whole, overlapping cycles or not.
THEOREM GateOpensAfterPull == Spec => []GateAfterPull
<1>1. IInv => GateAfterPull
    BY DEF IInv, WholeWhenReady, MirrorWhole, GateAfterPull
<1>. QED  BY <1>1, SchedulerInvariance, PTL

=============================================================================
