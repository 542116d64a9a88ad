-------------------------- MODULE LocalRestoreProofs --------------------------
(* A restore keeps the owner's data whatever fails in it and wherever the    *)
(* process stops, for any number of operations and changes: the database it  *)
(* found, the work that never reached the cloud, and honest pull cursors.    *)
EXTENDS LocalRestore, TLAPS

\* The three files are different ones.
LEMMA Names == "db" # "old" /\ "db" # "copy" /\ "old" # "copy" /\ File = {"db", "old", "copy"}
BY DEF File

\* The fresh database is one, queues nothing and believes to have seen nothing.
LEMMA FreshIsDatabase ==
    Fresh \in Database /\ Fresh.cursor = 0 /\ \A op \in Op : ~Queued(Fresh, op)
BY DEF Fresh, Database, QueueState, Queued

\* A marked row leaves a database with the same mirror and cursor.
LEMMA MarkedIsDatabase ==
    ASSUME NEW db \in Database, NEW op \in Op, NEW state \in QueueState
    PROVE  /\ Marked(db, op, state) \in Database
           /\ Marked(db, op, state).seen = db.seen
           /\ Marked(db, op, state).cursor = db.cursor
           /\ Marked(db, op, state).queue[op] = state
           /\ \A x \in Op \ {op} : Marked(db, op, state).queue[x] = db.queue[x]
BY DEF Marked, Database

\* An ingested pull leaves a database with the same queue.
LEMMA AppliedIsDatabase ==
    ASSUME NEW db \in Database, NEW pull \in Pull
    PROVE  /\ Applied(db, pull) \in Database
           /\ Applied(db, pull).queue = db.queue
           /\ Applied(db, pull).seen = db.seen \cup pull.seen
           /\ Applied(db, pull).cursor = pull.cursor
BY DEF Applied, Database, Pull

\* A pull from a cursor delivers every change after it.
LEMMA PullIsHonest ==
    ASSUME changes \in {0} \cup Change, NEW since \in {0} \cup Change, MaxChanges \in Nat
    PROVE  /\ PullSince(since) \in Pull
           /\ PullSince(since).cursor = changes
           /\ 1..changes \subseteq 1..since \cup PullSince(since).seen
BY DEF PullSince, Pull, Change

\* A change of one queue row of the live file, with nothing else of the swap.
LEMMA MarkInv ==
    ASSUME IInv, Serving, NEW op \in Op, NEW state \in QueueState, SetQueue(op, state),
           UNCHANGED <<sidecar, pc, handle, serves, pulled, live>>
    PROVE  /\ disk' \in [File -> Database \cup {None, Partial, Torn}]
           /\ SwapSteps' /\ SwapKeepsLive' /\ CursorHonest' /\ PullFits'
           /\ disk'["db"] \in Database
           /\ disk'["db"].queue[op] = state
           /\ \A x \in Op \ {op} : disk'["db"].queue[x] = disk["db"].queue[x]
<1> DEFINE new == Marked(disk["db"], op, state)
<1>1. disk["db"] \in Database /\ pc = "idle" /\ live = None /\ handle
    BY DEF IInv, Serving, SwapSteps
<1>2. /\ new \in Database
      /\ new.seen = disk["db"].seen /\ new.cursor = disk["db"].cursor
      /\ new.queue[op] = state
      /\ \A x \in Op \ {op} : new.queue[x] = disk["db"].queue[x]
    BY <1>1, MarkedIsDatabase
<1>3. /\ disk'["db"] = new /\ disk'["old"] = disk["old"] /\ disk'["copy"] = disk["copy"]
      /\ disk' = [disk EXCEPT !["db"] = new]
    BY Names DEF SetQueue, IInv, TypeOK
<1> HIDE DEF new
<1>4. disk' \in [File -> Database \cup {None, Partial, Torn}]
    BY <1>2, <1>3 DEF IInv, TypeOK
<1>5. SwapSteps' /\ SwapKeepsLive'
    BY <1>1, <1>2, <1>3 DEF IInv, SwapSteps, SwapKeepsLive
<1>6. CursorHonest'
    BY <1>1, <1>2, <1>3, Names DEF IInv, CursorHonest
<1>7. PullFits'
    BY <1>1, <1>2, <1>3 DEF IInv, PullFits, Serving
<1>. QED  BY <1>2, <1>3, <1>4, <1>5, <1>6, <1>7

\* The invariant holds when the application is first started.
LEMMA InitInv == Init => IInv
<1> SUFFICES ASSUME Init PROVE IInv
    OBVIOUS
<1>1. disk["db"] = Fresh /\ disk["old"] = None /\ disk["copy"] = None
    BY Names DEF Init
<1>2. TypeOK
    BY FreshIsDatabase DEF Init, TypeOK
<1>3. SwapSteps /\ SwapKeepsLive /\ NoWorkLost
    BY <1>1, FreshIsDatabase DEF Init, SwapSteps, SwapKeepsLive, NoWorkLost
<1>4. CursorHonest
    BY <1>1, FreshIsDatabase, RestoreAssumption, Names DEF CursorHonest, Fresh
<1>5. PullFits
    BY DEF Init, PullFits
<1>. QED  BY <1>2, <1>3, <1>4, <1>5 DEF IInv

\* What is written is queued.
LEMMA WriteInv == ASSUME IInv, NEW op \in Op, Write(op) PROVE IInv'
<1>1. /\ Serving /\ SetQueue(op, "pending") /\ "pending" \in QueueState
      /\ UNCHANGED <<sidecar, pc, handle, serves, pulled, changes, accepted, live>>
      /\ kept' = kept \cup {op}
    BY DEF Write, QueueState
<1>2. /\ disk' \in [File -> Database \cup {None, Partial, Torn}]
      /\ SwapKeepsLive' /\ CursorHonest' /\ PullFits' /\ SwapSteps'
      /\ disk'["db"] \in Database
      /\ disk'["db"].queue[op] = "pending"
      /\ \A x \in Op \ {op} : disk'["db"].queue[x] = disk["db"].queue[x]
    BY <1>1, MarkInv
<1>3. TypeOK'
    BY <1>1, <1>2 DEF IInv, TypeOK
<1>4. NoWorkLost'
    BY <1>1, <1>2 DEF IInv, TypeOK, NoWorkLost, Queued
<1>. QED  BY <1>2, <1>3, <1>4 DEF IInv

\* An answered push leaves the queue only when the cloud has the operation.
LEMMA PushInv ==
    ASSUME IInv, NEW op \in Op, NEW answered \in BOOLEAN, Push(op, answered) PROVE IInv'
<1>1. /\ Serving /\ "none" \in QueueState
      /\ UNCHANGED <<sidecar, pc, handle, serves, pulled, kept, live>>
      /\ op \in accepted' /\ accepted \subseteq accepted' /\ accepted' \subseteq Op
      /\ changes' \in {0} \cup Change
    BY RestoreAssumption DEF Push, QueueState, IInv, TypeOK, Change
<1>2. CASE answered
  <2>1. SetQueue(op, "none")
    BY <1>2 DEF Push
  <2>2. /\ disk' \in [File -> Database \cup {None, Partial, Torn}]
        /\ SwapKeepsLive' /\ CursorHonest' /\ PullFits' /\ SwapSteps' /\ disk'["db"] \in Database
        /\ \A x \in Op \ {op} : disk'["db"].queue[x] = disk["db"].queue[x]
    BY <1>1, <2>1, MarkInv
  <2>3. TypeOK' /\ NoWorkLost'
    BY <1>1, <2>2 DEF IInv, TypeOK, NoWorkLost, Queued
  <2>. QED  BY <2>2, <2>3 DEF IInv
<1>3. CASE ~answered
  <2>1. disk' = disk
    BY <1>3 DEF Push
  <2>2. TypeOK' /\ NoWorkLost'
    BY <1>1, <2>1 DEF IInv, TypeOK, NoWorkLost, Queued
  <2>3. SwapSteps' /\ SwapKeepsLive' /\ CursorHonest' /\ PullFits'
    BY <1>1, <2>1 DEF IInv, Serving, SwapSteps, SwapKeepsLive, CursorHonest, PullFits
  <2>. QED  BY <2>2, <2>3 DEF IInv
<1>. QED  BY <1>2, <1>3

\* A refused operation stays in the queue, and a requeued one too.
LEMMA ParkInv == ASSUME IInv, NEW op \in Op, PushRefused(op) \/ Requeue(op) PROVE IInv'
<1>1. PICK state \in {"pending", "conflict"} : SetQueue(op, state)
    BY DEF PushRefused, Requeue
<1>2. /\ Serving /\ state \in QueueState /\ state # "none"
      /\ UNCHANGED <<sidecar, pc, handle, serves, pulled, changes, accepted, kept, live>>
    BY DEF PushRefused, Requeue, QueueState
<1>3. /\ disk' \in [File -> Database \cup {None, Partial, Torn}]
      /\ SwapKeepsLive' /\ CursorHonest' /\ PullFits' /\ SwapSteps' /\ disk'["db"] \in Database
      /\ disk'["db"].queue[op] = state
      /\ \A x \in Op \ {op} : disk'["db"].queue[x] = disk["db"].queue[x]
    BY <1>1, <1>2, MarkInv
<1>4. TypeOK' /\ NoWorkLost'
    BY <1>2, <1>3 DEF IInv, TypeOK, NoWorkLost, Queued
<1>. QED  BY <1>3, <1>4 DEF IInv

\* A resolved conflict leaves the queue and what the owner keeps.
LEMMA ResolveInv == ASSUME IInv, NEW op \in Op, ResolveConflict(op) PROVE IInv'
<1>1. /\ Serving /\ SetQueue(op, "none") /\ "none" \in QueueState
      /\ UNCHANGED <<sidecar, pc, handle, serves, pulled, changes, accepted, live>>
      /\ kept' = kept \ {op}
    BY DEF ResolveConflict, QueueState
<1>2. /\ disk' \in [File -> Database \cup {None, Partial, Torn}]
      /\ SwapKeepsLive' /\ CursorHonest' /\ PullFits' /\ SwapSteps' /\ disk'["db"] \in Database
      /\ \A x \in Op \ {op} : disk'["db"].queue[x] = disk["db"].queue[x]
    BY <1>1, MarkInv
<1>3. TypeOK' /\ NoWorkLost'
    BY <1>1, <1>2 DEF IInv, TypeOK, NoWorkLost, Queued
<1>. QED  BY <1>2, <1>3 DEF IInv

\* Other changes and dropped answers touch no file.
LEMMA OutsideInv == ASSUME IInv, OtherChange \/ DropPull PROVE IInv'
<1>1. /\ UNCHANGED <<disk, sidecar, pc, handle, serves, accepted, kept, live>>
      /\ changes' \in {0} \cup Change /\ pulled' \in {pulled, None}
    BY RestoreAssumption DEF OtherChange, DropPull, IInv, TypeOK, Change
<1>2. TypeOK' /\ SwapSteps' /\ SwapKeepsLive' /\ NoWorkLost'
    BY <1>1 DEF IInv, TypeOK, SwapSteps, SwapKeepsLive, NoWorkLost, Queued
<1>3. CursorHonest' /\ PullFits'
    BY <1>1 DEF IInv, CursorHonest, PullFits, Serving
<1>. QED  BY <1>2, <1>3 DEF IInv

\* A pull that starts at the mirror's own cursor fits the mirror.
LEMMA FetchInv == ASSUME IInv, FetchPull PROVE IInv'
<1> DEFINE since == IF Serving THEN disk["db"].cursor ELSE 0
<1>1. /\ UNCHANGED <<disk, sidecar, pc, handle, serves, changes, accepted, kept, live>>
      /\ pulled' = PullSince(since) /\ pc = "idle"
    BY DEF FetchPull
<1>2. since \in {0} \cup Change /\ (Serving => 1..since \subseteq disk["db"].seen)
  <2>1. CASE Serving
    <3>1. disk["db"] \in Database
      BY <2>1 DEF IInv, SwapSteps, Serving
    <3>. QED  BY <2>1, <3>1, Names DEF Database, IInv, CursorHonest
  <2>. QED  BY <2>1
<1> HIDE DEF since
<1>3. /\ pulled' \in Pull /\ pulled'.cursor = changes
      /\ 1..changes \subseteq 1..since \cup pulled'.seen
    BY <1>1, <1>2, PullIsHonest, RestoreAssumption DEF IInv, TypeOK
<1>4. TypeOK' /\ SwapSteps' /\ SwapKeepsLive' /\ NoWorkLost'
    BY <1>1, <1>3 DEF IInv, TypeOK, SwapSteps, SwapKeepsLive, NoWorkLost, Queued
<1>5. CursorHonest' /\ PullFits'
    BY <1>1, <1>2, <1>3 DEF IInv, CursorHonest, PullFits, Serving
<1>. QED  BY <1>4, <1>5 DEF IInv

\* What a pull that fits leaves behind is an honest cursor.
LEMMA IngestInv == ASSUME IInv, IngestPull PROVE IInv'
<1> DEFINE new == Applied(disk["db"], pulled)
<1>1. /\ disk["db"] \in Database /\ pulled \in Pull /\ pc = "idle" /\ live = None
      /\ UNCHANGED <<sidecar, pc, handle, serves, changes, accepted, kept, live>>
      /\ pulled' = None
    BY DEF IngestPull, Serving, IInv, SwapSteps, TypeOK
<1>2. /\ new \in Database /\ new.queue = disk["db"].queue
      /\ new.seen = disk["db"].seen \cup pulled.seen /\ new.cursor = pulled.cursor
    BY <1>1, AppliedIsDatabase
<1>3. /\ disk'["db"] = new /\ disk'["old"] = disk["old"] /\ disk'["copy"] = disk["copy"]
      /\ disk' = [disk EXCEPT !["db"] = new]
    BY Names DEF IngestPull, IInv, TypeOK
<1>4. 1..new.cursor \subseteq new.seen
    BY <1>2 DEF IngestPull, IInv, PullFits
<1> HIDE DEF new
<1>5. TypeOK'
    BY <1>1, <1>2, <1>3 DEF IInv, TypeOK
<1>6. SwapSteps' /\ SwapKeepsLive' /\ NoWorkLost'
    BY <1>1, <1>2, <1>3 DEF IInv, SwapSteps, SwapKeepsLive, NoWorkLost, Queued
<1>7. CursorHonest' /\ PullFits'
    BY <1>1, <1>2, <1>3, <1>4, Names DEF IInv, CursorHonest, PullFits
<1>. QED  BY <1>5, <1>6, <1>7 DEF IInv

\* A finished backup holds what the live database holds.
LEMMA BackupInv == ASSUME IInv, Backup PROVE IInv'
<1>1. PICK written \in {disk["db"], None, Torn} : disk' = [disk EXCEPT !["copy"] = written]
    BY DEF Backup
<1>2. /\ disk'["copy"] = written /\ disk'["db"] = disk["db"] /\ disk'["old"] = disk["old"]
    BY <1>1, Names DEF IInv, TypeOK
<1>3. /\ pc = "idle" /\ disk["db"] \in Database /\ live = None
      /\ UNCHANGED <<sidecar, pc, handle, serves, pulled, changes, accepted, kept, live>>
    BY DEF Backup, IInv, SwapSteps
<1>4. TypeOK'
    BY <1>1, <1>3 DEF IInv, TypeOK
<1>5. SwapSteps' /\ SwapKeepsLive' /\ NoWorkLost'
    BY <1>2, <1>3 DEF IInv, SwapSteps, SwapKeepsLive, NoWorkLost, Queued
<1>6. CursorHonest' /\ PullFits'
    BY <1>2, <1>3, Names, RestoreAssumption DEF IInv, CursorHonest, PullFits, Serving
<1>. QED  BY <1>4, <1>5, <1>6 DEF IInv

\* A restore starts only when everything the owner keeps is in the cloud.
LEMMA BeginInv == ASSUME IInv, BeginRestore PROVE IInv'
<1>1. /\ UNCHANGED <<disk, serves, pulled, changes, accepted, kept>>
      /\ handle' = FALSE /\ pc' = "move" /\ live' = disk["db"]
      /\ disk["db"] \in Database /\ disk["copy"] # None
      /\ sidecar' \in {"none", "live"}
    BY DEF BeginRestore, IInv, SwapSteps
<1>2. \A op \in Op : disk["db"].queue[op] = "none"
    BY <1>1 DEF BeginRestore, RestoreSafe, Database, QueueState
<1>3. kept \subseteq accepted
    BY <1>2 DEF IInv, NoWorkLost, Queued, TypeOK
<1>4. TypeOK' /\ NoWorkLost'
    BY <1>1, <1>3 DEF IInv, TypeOK, NoWorkLost
<1>5. SwapSteps' /\ SwapKeepsLive' /\ CursorHonest' /\ PullFits'
    BY <1>1, <1>3 DEF IInv, SwapSteps, SwapKeepsLive, CursorHonest, PullFits, Serving
<1>. QED  BY <1>4, <1>5 DEF IInv

\* While the files are exchanged nobody talks to the database, and all that
\* the owner keeps is in the cloud.
LEMMA SwapInv ==
    ASSUME IInv, pc \notin {"idle", "down"},
           UNCHANGED <<handle, serves, pulled, changes, accepted, kept, live>>,
           pc' \notin {"idle", "down"},
           disk' \in [File -> Database \cup {None, Partial, Torn}],
           sidecar' \in {"none", "live", "parked"},
           pc' \in {"idle", "move", "sidecar", "copy", "roll", "discard", "reopen", "down"},
           \A f \in File : disk'[f] \in {None, Partial, disk["db"], disk["old"], disk["copy"]}
    PROVE  TypeOK' /\ NoWorkLost' /\ CursorHonest' /\ PullFits'
<1>1. TypeOK'
    BY DEF IInv, TypeOK
<1>2. NoWorkLost'
    BY DEF IInv, SwapSteps, NoWorkLost
<1>3. CursorHonest'
    BY Names, RestoreAssumption DEF IInv, CursorHonest
<1>4. PullFits'
    BY DEF PullFits, Serving
<1>. QED  BY <1>1, <1>2, <1>3, <1>4

\* Renaming the live file aside keeps it.
LEMMA MoveDbInv == ASSUME IInv, MoveDb \/ MoveDbFails PROVE IInv'
<1>1. CASE MoveDb
  <2>1. /\ pc = "move" /\ pc' = "sidecar"
        /\ UNCHANGED <<sidecar, handle, serves, pulled, changes, accepted, kept, live>>
        /\ disk' = [disk EXCEPT !["old"] = disk["db"], !["db"] = None]
    BY <1>1 DEF MoveDb
  <2>2. disk'["db"] = None /\ disk'["old"] = disk["db"] /\ disk'["copy"] = disk["copy"]
    BY <2>1, Names DEF IInv, TypeOK
  <2>3. disk' \in [File -> Database \cup {None, Partial, Torn}]
    BY <2>1, Names DEF IInv, TypeOK
  <2>4. SwapSteps' /\ SwapKeepsLive'
    BY <2>1, <2>2 DEF IInv, SwapSteps, SwapKeepsLive
  <2>5. TypeOK' /\ NoWorkLost' /\ CursorHonest' /\ PullFits'
    BY <2>1, <2>2, <2>3, Names, SwapInv DEF IInv, TypeOK
  <2>. QED  BY <2>4, <2>5 DEF IInv
<1>2. CASE MoveDbFails
  <2>1. PICK parked \in {disk["old"], None} : disk' = [disk EXCEPT !["old"] = parked]
    BY <1>2 DEF MoveDbFails
  <2>2. /\ pc = "move" /\ pc' = "reopen"
        /\ UNCHANGED <<sidecar, handle, serves, pulled, changes, accepted, kept, live>>
    BY <1>2 DEF MoveDbFails
  <2>3. disk'["db"] = disk["db"] /\ disk'["old"] = parked /\ disk'["copy"] = disk["copy"]
    BY <2>1, Names DEF IInv, TypeOK
  <2>4. disk' \in [File -> Database \cup {None, Partial, Torn}]
    BY <2>1, Names DEF IInv, TypeOK
  <2>5. SwapSteps' /\ SwapKeepsLive'
    BY <2>2, <2>3 DEF IInv, SwapSteps, SwapKeepsLive
  <2>6. TypeOK' /\ NoWorkLost' /\ CursorHonest' /\ PullFits'
    BY <2>1, <2>2, <2>3, <2>4, Names, SwapInv DEF IInv, TypeOK
  <2>. QED  BY <2>5, <2>6 DEF IInv
<1>. QED  BY <1>1, <1>2

\* The WAL follows or the swap ends; the database stays parked.
LEMMA MoveSidecarInv == ASSUME IInv, MoveSidecar PROVE IInv'
<1>1. /\ pc = "sidecar" /\ pc' \in {"copy", "reopen"}
      /\ sidecar' \in {"none", "live", "parked"}
      /\ UNCHANGED <<disk, handle, serves, pulled, changes, accepted, kept, live>>
    BY DEF MoveSidecar, IInv, TypeOK
<1>2. SwapSteps' /\ SwapKeepsLive'
    BY <1>1 DEF IInv, SwapSteps, SwapKeepsLive
<1>3. TypeOK' /\ NoWorkLost' /\ CursorHonest' /\ PullFits'
    BY <1>1, Names, SwapInv DEF IInv, TypeOK
<1>. QED  BY <1>2, <1>3 DEF IInv

\* The copy lands as it is, or it fails with the live database still parked.
LEMMA CopyInv == ASSUME IInv, CopyBackup PROVE IInv'
<1>1. PICK left \in {disk["copy"], None, Partial} :
        /\ disk' = [disk EXCEPT !["db"] = left]
        /\ pc' \in {"discard", "roll"}
        /\ pc' = "discard" => left = disk["copy"]
        /\ pc' = "roll" => left \in {None, Partial}
    BY DEF CopyBackup
<1>2. pc = "copy" /\ UNCHANGED <<sidecar, handle, serves, pulled, changes, accepted, kept, live>>
    BY DEF CopyBackup
<1>3. disk'["db"] = left /\ disk'["old"] = disk["old"] /\ disk'["copy"] = disk["copy"]
    BY <1>1, Names DEF IInv, TypeOK
<1>4. disk' \in [File -> Database \cup {None, Partial, Torn}]
    BY <1>1, Names DEF IInv, TypeOK
<1>5. SwapSteps' /\ SwapKeepsLive'
    BY <1>1, <1>2, <1>3 DEF IInv, SwapSteps, SwapKeepsLive
<1>6. TypeOK' /\ NoWorkLost' /\ CursorHonest' /\ PullFits'
    BY <1>1, <1>2, <1>3, <1>4, Names, SwapInv DEF IInv, TypeOK
<1>. QED  BY <1>5, <1>6 DEF IInv

\* The parked database comes back, or stays parked.
LEMMA RollBackInv == ASSUME IInv, RollBack PROVE IInv'
<1>1. /\ pc = "roll" /\ pc' = "reopen" /\ sidecar' \in {"none", "live", "parked"}
      /\ UNCHANGED <<handle, serves, pulled, changes, accepted, kept, live>>
      /\ \/ disk' = [disk EXCEPT !["db"] = disk["old"], !["old"] = None]
         \/ disk' = disk
    BY DEF RollBack, IInv, TypeOK
<1>2. /\ disk'["copy"] = disk["copy"]
      /\ \/ disk'["db"] = disk["old"] /\ disk'["old"] = None
         \/ disk'["db"] = disk["db"] /\ disk'["old"] = disk["old"]
    BY <1>1, Names DEF IInv, TypeOK
<1>3. disk' \in [File -> Database \cup {None, Partial, Torn}]
    BY <1>1, Names DEF IInv, TypeOK
<1>4. SwapSteps' /\ SwapKeepsLive'
    BY <1>1, <1>2 DEF IInv, SwapSteps, SwapKeepsLive
<1>5. TypeOK' /\ NoWorkLost' /\ CursorHonest' /\ PullFits'
    BY <1>1, <1>2, <1>3, Names, SwapInv DEF IInv, TypeOK
<1>. QED  BY <1>4, <1>5 DEF IInv

\* The parked copy goes only when the picked file is in place.
LEMMA DiscardInv == ASSUME IInv, DiscardParked PROVE IInv'
<1>1. PICK left \in {disk["old"], None} : disk' = [disk EXCEPT !["old"] = left]
    BY DEF DiscardParked
<1>2. /\ pc = "discard" /\ pc' = "reopen" /\ sidecar' \in {"none", "live", "parked"}
      /\ UNCHANGED <<handle, serves, pulled, changes, accepted, kept, live>>
    BY DEF DiscardParked, IInv, TypeOK
<1>3. disk'["old"] = left /\ disk'["db"] = disk["db"] /\ disk'["copy"] = disk["copy"]
    BY <1>1, Names DEF IInv, TypeOK
<1>4. disk' \in [File -> Database \cup {None, Partial, Torn}]
    BY <1>1, Names DEF IInv, TypeOK
<1>5. SwapSteps' /\ SwapKeepsLive'
    BY <1>2, <1>3 DEF IInv, SwapSteps, SwapKeepsLive
<1>6. TypeOK' /\ NoWorkLost' /\ CursorHonest' /\ PullFits'
    BY <1>1, <1>2, <1>3, <1>4, Names, SwapInv DEF IInv, TypeOK
<1>. QED  BY <1>5, <1>6 DEF IInv

\* A database that opens is one; a missing file becomes a fresh one, which
\* loses nothing when all that the owner keeps is in the cloud.
LEMMA OpenInv ==
    ASSUME IInv, Openable, Open, pc' = "idle", live' = None,
           UNCHANGED <<changes, accepted, kept>>,
           pulled' = pulled, serves' \in BOOLEAN,
           serves' => pulled = None
    PROVE  IInv'
<1>1. /\ disk'["db"] \in Database
      /\ disk'["db"] = (IF disk["db"] = None THEN Fresh ELSE disk["db"])
      /\ disk'["old"] = disk["old"] /\ disk'["copy"] = disk["copy"]
      /\ disk' \in [File -> Database \cup {None, Partial, Torn}]
    BY Names, FreshIsDatabase DEF Open, Openable, IInv, TypeOK
<1>2. sidecar' \in {"none", "live", "parked"} /\ handle' = TRUE
    BY DEF Open, IInv, TypeOK
<1>3. TypeOK'
    BY <1>1, <1>2, Names DEF IInv, TypeOK
<1>4. SwapSteps' /\ SwapKeepsLive'
    BY <1>1, <1>2 DEF SwapSteps, SwapKeepsLive
<1>5. NoWorkLost'
    BY <1>1, RestoreAssumption DEF IInv, NoWorkLost, Queued
<1>6. CursorHonest'
  <2>1. 1..Fresh.cursor \subseteq Fresh.seen
    BY FreshIsDatabase
  <2>. QED  BY <1>1, <2>1, Names DEF IInv, CursorHonest
<1>7. PullFits'
    BY DEF PullFits, Serving
<1>. QED  BY <1>3, <1>4, <1>5, <1>6, <1>7 DEF IInv

\* The database is opened again, or is not when a torn copy is in its place.
LEMMA ReopenInv == ASSUME IInv, Reopen PROVE IInv'
<1>1. /\ pc = "reopen" /\ pc' = "idle" /\ serves' = FALSE
      /\ UNCHANGED <<pulled, changes, accepted, kept>>
    BY DEF Reopen, HandlerAfterReopen
<1>2. CASE Openable
    BY <1>1, <1>2, OpenInv DEF Reopen
<1>3. CASE ~Openable
  <2>1. UNCHANGED <<disk, sidecar, handle, live>>
    BY <1>3 DEF Reopen
  <2>2. TypeOK' /\ SwapSteps' /\ SwapKeepsLive' /\ NoWorkLost' /\ CursorHonest'
    BY <1>1, <2>1 DEF IInv, TypeOK, SwapSteps, SwapKeepsLive, NoWorkLost, CursorHonest
  <2>3. PullFits'
    BY <1>1 DEF PullFits, Serving
  <2>. QED  BY <2>2, <2>3 DEF IInv
<1>. QED  BY <1>2, <1>3

\* A crash leaves the files as they are.
LEMMA StopInv == ASSUME IInv, Stop PROVE IInv'
<1>1. /\ UNCHANGED <<disk, sidecar, changes, accepted, kept, live>>
      /\ pc' = "down" /\ handle' = FALSE /\ serves' = FALSE /\ pulled' = None
    BY DEF Stop
<1>2. TypeOK' /\ SwapSteps' /\ SwapKeepsLive' /\ NoWorkLost' /\ CursorHonest'
    BY <1>1 DEF IInv, TypeOK, SwapSteps, SwapKeepsLive, NoWorkLost, Queued, CursorHonest
<1>3. PullFits'
    BY <1>1 DEF PullFits
<1>. QED  BY <1>2, <1>3 DEF IInv

\* With the application down no pull is in flight.
LEMMA LaunchInv == ASSUME IInv, Launch PROVE IInv'
<1>1. pulled = None
    BY DEF Launch, IInv, PullFits
<1>. QED  BY <1>1, OpenInv DEF Launch

LEMMA NextInv == ASSUME IInv, Next PROVE IInv'
<1>1. CASE \E op \in Op :
          \/ Write(op)
          \/ \E answered \in BOOLEAN : Push(op, answered)
          \/ PushRefused(op)
          \/ Requeue(op)
          \/ ResolveConflict(op)
    BY <1>1, WriteInv, PushInv, ParkInv, ResolveInv
<1>2. CASE OtherChange \/ FetchPull \/ IngestPull \/ DropPull \/ Backup
    BY <1>2, OutsideInv, FetchInv, IngestInv, BackupInv
<1>3. CASE BeginRestore \/ MoveDb \/ MoveDbFails \/ MoveSidecar
    BY <1>3, BeginInv, MoveDbInv, MoveSidecarInv
<1>4. CASE CopyBackup \/ RollBack \/ DiscardParked \/ Reopen
    BY <1>4, CopyInv, RollBackInv, DiscardInv, ReopenInv
<1>5. CASE Stop \/ Launch
    BY <1>5, StopInv, LaunchInv
<1>. QED  BY <1>1, <1>2, <1>3, <1>4, <1>5 DEF Next

\* The whole invariant holds of every behaviour.
THEOREM RestoreInvariance == Spec => []IInv
<1>1. IInv /\ [Next]_vars => IInv'
  <2>1. ASSUME IInv, UNCHANGED vars PROVE IInv'
    <3>1. TypeOK' /\ SwapSteps' /\ SwapKeepsLive' /\ NoWorkLost'
      BY <2>1 DEF vars, IInv, TypeOK, SwapSteps, SwapKeepsLive, NoWorkLost, Queued
    <3>2. CursorHonest' /\ PullFits'
      BY <2>1 DEF vars, IInv, CursorHonest, PullFits, Serving
    <3>. QED  BY <3>1, <3>2 DEF IInv
  <2>. QED  BY <2>1, NextInv
<1>. QED  BY <1>1, InitInv, PTL DEF Spec

\* Type correctness of the files and the main process.
THEOREM RestoreTypeCorrect == Spec => []TypeOK
<1>1. IInv => TypeOK
    BY DEF IInv
<1>. QED  BY <1>1, RestoreInvariance, PTL

\* replaceDbFile keeps the database it found until the picked file is in its
\* place, whatever fails and wherever the process stops.
THEOREM LiveIsKept == Spec => []SwapKeepsLive
<1>1. IInv => SwapKeepsLive
    BY DEF IInv
<1>. QED  BY <1>1, RestoreInvariance, PTL

\* assertRestoreSafe is enough: no restore, failure or crash loses unsynced work.
THEOREM WorkIsKept == Spec => []NoWorkLost
<1>1. IInv => NoWorkLost
    BY DEF IInv
<1>. QED  BY <1>1, RestoreInvariance, PTL

\* No file's cursor runs ahead of its mirror, also after an older file was restored.
THEOREM CursorsAreHonest == Spec => []CursorHonest
<1>1. IInv => CursorHonest
    BY DEF IInv
<1>. QED  BY <1>1, RestoreInvariance, PTL

=============================================================================
