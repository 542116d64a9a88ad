----------------------------- MODULE LocalRestore -----------------------------
(* The desktop's database file: what a backup copies, how a restore swaps    *)
(* it, and what is left when a file operation fails or the application stops *)
(* in the middle.  Beside it run the renderer's sync cycle, whose answers    *)
(* can arrive after the file below them was exchanged, and the cloud.        *)
(* The main process is single-threaded: once the dialog has closed, a        *)
(* restore runs to its end and only a crash comes between two of its steps.  *)
EXTENDS Integers

CONSTANTS
    Op,           \* writes the owner makes on this device
    MaxChanges,   \* bound of the changes the cloud makes
    None,         \* no such file or one without SQLite's header, no such answer
    Partial,      \* a live file that an aborted copy left behind
    Torn          \* an unfinished backup: a header, and no database behind it

VARIABLES
    disk,      \* the live file, its parked copy and the owner's backup
    sidecar,   \* where the WAL that close() left behind is
    pc,        \* what the main process is doing
    handle,    \* dataLayer: whether a database is open
    serves,    \* whether the coop:db handler reaches the open database
    pulled,    \* a pull whose answer is in the renderer, not yet ingested
    changes,   \* number of changes the cloud has made
    accepted,  \* operations the cloud has
    kept,      \* operations the owner made and never discarded
    live       \* history: the database a restore found when it began

vars == <<disk, sidecar, pc, handle, serves, pulled, changes, accepted, kept, live>>

File == {"db", "old", "copy"}
QueueState == {"none", "pending", "conflict"}
Change == 1..MaxChanges

\* A database: the queue's rows, the changes its mirror has, its pull cursor.
Database ==
    [queue: [Op -> QueueState], seen: SUBSET Change, cursor: {0} \cup Change]

Pull == [seen: SUBSET Change, cursor: {0} \cup Change]

ASSUME RestoreAssumption ==
    /\ MaxChanges \in Nat
    /\ None \notin Database \cup Pull \cup {Partial, Torn}
    /\ Partial \notin Database \cup {Torn}
    /\ Torn \notin Database

\* What createDataLayer makes where it finds no file.
Fresh == [queue |-> [op \in Op |-> "none"], seen |-> {}, cursor |-> 0]

TypeOK ==
    /\ disk \in [File -> Database \cup {None, Partial, Torn}]
    /\ sidecar \in {"none", "live", "parked"}
    /\ pc \in {"idle", "move", "sidecar", "copy", "roll", "discard", "reopen", "down"}
    /\ handle \in BOOLEAN
    /\ serves \in BOOLEAN
    /\ pulled \in Pull \cup {None}
    /\ changes \in {0} \cup Change
    /\ accepted \subseteq Op
    /\ kept \subseteq Op
    /\ live \in Database \cup {None}

Init ==
    /\ disk = [f \in File |-> IF f = "db" THEN Fresh ELSE None]
    /\ sidecar = "none"
    /\ pc = "idle"
    /\ handle = TRUE
    /\ serves = TRUE
    /\ pulled = None
    /\ changes = 0
    /\ accepted = {}
    /\ kept = {}
    /\ live = None

\* The renderer's calls reach the open database.
Serving == pc = "idle" /\ handle /\ serves

Queued(db, op) == db.queue[op] # "none"
Marked(db, op, state) ==
    [queue |-> [db.queue EXCEPT ![op] = state], seen |-> db.seen, cursor |-> db.cursor]
SetQueue(op, state) == disk' = [disk EXCEPT !["db"] = Marked(disk["db"], op, state)]

-----------------------------------------------------------------------------
(* The owner and the renderer's sync cycle. *)

\* A repository call writes locally and enqueues the operation.
Write(op) ==
    /\ Serving
    /\ op \notin kept \cup accepted
    /\ ~Queued(disk["db"], op)
    /\ SetQueue(op, "pending")
    /\ kept' = kept \cup {op}
    /\ UNCHANGED <<sidecar, pc, handle, serves, pulled, changes, accepted, live>>

\* A push the cloud applies; a second push of an operation changes nothing
\* there.  The answer marks the row, unless it is lost.
Push(op, answered) ==
    /\ Serving
    /\ disk["db"].queue[op] = "pending"
    /\ \/ /\ op \in accepted
          /\ UNCHANGED <<changes, accepted>>
       \/ /\ op \notin accepted
          /\ changes < MaxChanges
          /\ changes' = changes + 1
          /\ accepted' = accepted \cup {op}
    /\ IF answered THEN SetQueue(op, "none") ELSE UNCHANGED disk
    /\ UNCHANGED <<sidecar, pc, handle, serves, pulled, kept, live>>

\* The cloud refuses the operation: it is parked.
PushRefused(op) ==
    /\ Serving
    /\ disk["db"].queue[op] = "pending"
    /\ op \notin accepted
    /\ SetQueue(op, "conflict")
    /\ UNCHANGED <<sidecar, pc, handle, serves, pulled, changes, accepted, kept, live>>

\* The two ways out of a conflict.
Requeue(op) ==
    /\ Serving
    /\ disk["db"].queue[op] = "conflict"
    /\ SetQueue(op, "pending")
    /\ UNCHANGED <<sidecar, pc, handle, serves, pulled, changes, accepted, kept, live>>

ResolveConflict(op) ==
    /\ Serving
    /\ disk["db"].queue[op] = "conflict"
    /\ SetQueue(op, "none")
    /\ kept' = kept \ {op}
    /\ UNCHANGED <<sidecar, pc, handle, serves, pulled, changes, accepted, live>>

\* Another device or user changes something.
OtherChange ==
    /\ changes < MaxChanges
    /\ changes' = changes + 1
    /\ UNCHANGED <<disk, sidecar, pc, handle, serves, pulled, accepted, kept, live>>

\* Mutant of PullSince: the cursor runs one ahead of the rows.
PullAhead(since) ==
    [seen |-> {c \in Change : since < c /\ c <= changes}, cursor |-> changes + 1]

\* The cloud's answer to a pull.
PullSince(since) ==
    [seen |-> {c \in Change : since < c /\ c <= changes}, cursor |-> changes]

\* The cycle reads the cursor and gets the changes since; without a database
\* to ask, the cursor is null and the pull a full one.
FetchPull ==
    /\ pc = "idle"
    /\ pulled = None
    /\ pulled' = PullSince(IF Serving THEN disk["db"].cursor ELSE 0)
    /\ UNCHANGED <<disk, sidecar, pc, handle, serves, changes, accepted, kept, live>>

\* The rows of a pull join the mirror, and its cursor replaces the old one.
Applied(db, pull) ==
    [queue |-> db.queue, seen |-> db.seen \cup pull.seen, cursor |-> pull.cursor]

\* The answer goes to whatever database the handler reaches now.
IngestPull ==
    /\ Serving
    /\ pulled # None
    /\ disk' = [disk EXCEPT !["db"] = Applied(disk["db"], pulled)]
    /\ pulled' = None
    /\ UNCHANGED <<sidecar, pc, handle, serves, changes, accepted, kept, live>>

\* The request fails, or the handler throws.
DropPull ==
    /\ pulled # None
    /\ pulled' = None
    /\ UNCHANGED <<disk, sidecar, pc, handle, serves, changes, accepted, kept, live>>

-----------------------------------------------------------------------------
(* Backup and restore. *)

\* VACUUM INTO, of whatever state the queue is in; the older copy is removed
\* first.  A full disk or the end of the process leaves it unfinished.
Backup ==
    /\ pc = "idle"
    /\ handle
    /\ \E written \in {disk["db"], None, Torn} : disk' = [disk EXCEPT !["copy"] = written]
    /\ UNCHANGED <<sidecar, pc, handle, serves, pulled, changes, accepted, kept, live>>

\* Mutant of RestoreSafe: the parked conflicts are not counted.
NothingPending == \A op \in Op : disk["db"].queue[op] # "pending"

\* assertRestoreSafe: nothing pending and no parked conflict.
RestoreSafe == \A op \in Op : disk["db"].queue[op] \notin {"pending", "conflict"}

\* Of the file the owner picked only the first 16 bytes are read.
BeginRestore ==
    /\ pc = "idle"
    /\ handle
    /\ disk["copy"] # None
    /\ RestoreSafe
    /\ handle' = FALSE
    /\ pc' = "move"
    /\ live' = disk["db"]
    /\ sidecar' \in {"none", "live"}
    /\ UNCHANGED <<disk, serves, pulled, changes, accepted, kept>>

\* Mutant of MoveDb: the live file is deleted instead of renamed.
DeleteDb ==
    /\ pc = "move"
    /\ disk' = [disk EXCEPT !["db"] = None, !["old"] = None]
    /\ pc' = "sidecar"
    /\ UNCHANGED <<sidecar, handle, serves, pulled, changes, accepted, kept, live>>

\* The file is renamed aside, over an older parked copy.
MoveDb ==
    /\ pc = "move"
    /\ disk' = [disk EXCEPT !["old"] = disk["db"], !["db"] = None]
    /\ pc' = "sidecar"
    /\ UNCHANGED <<sidecar, handle, serves, pulled, changes, accepted, kept, live>>

\* It stays locked through every retry; the older parked copy may be gone.
MoveDbFails ==
    /\ pc = "move"
    /\ \E parked \in {disk["old"], None} : disk' = [disk EXCEPT !["old"] = parked]
    /\ pc' = "reopen"
    /\ UNCHANGED <<sidecar, handle, serves, pulled, changes, accepted, kept, live>>

\* The WAL follows.  A failure here is thrown past the roll-back.
MoveSidecar ==
    /\ pc = "sidecar"
    /\ \/ /\ pc' = "copy"
          /\ sidecar' = IF sidecar = "live" THEN "parked" ELSE sidecar
       \/ /\ sidecar = "live"
          /\ pc' = "reopen"
          /\ UNCHANGED sidecar
    /\ UNCHANGED <<disk, handle, serves, pulled, changes, accepted, kept, live>>

CopyBackup ==
    /\ pc = "copy"
    /\ \/ /\ disk' = [disk EXCEPT !["db"] = disk["copy"]]
          /\ pc' = "discard"
       \/ /\ \E left \in {None, Partial} : disk' = [disk EXCEPT !["db"] = left]
          /\ pc' = "roll"
    /\ UNCHANGED <<sidecar, handle, serves, pulled, changes, accepted, kept, live>>

\* Each parked file is renamed back, or stays parked when that fails too.
RollBack ==
    /\ pc = "roll"
    /\ \/ disk' = [disk EXCEPT !["db"] = disk["old"], !["old"] = None]
       \/ UNCHANGED disk
    /\ sidecar' \in {sidecar, IF sidecar = "parked" THEN "live" ELSE sidecar}
    /\ pc' = "reopen"
    /\ UNCHANGED <<handle, serves, pulled, changes, accepted, kept, live>>

\* The parked copy is discarded; a copy that cannot be stays.
DiscardParked ==
    /\ pc = "discard"
    /\ \E left \in {disk["old"], None} : disk' = [disk EXCEPT !["old"] = left]
    /\ sidecar' \in {sidecar, "none"}
    /\ pc' = "reopen"
    /\ UNCHANGED <<handle, serves, pulled, changes, accepted, kept, live>>

\* createDataLayer: a missing file is created, a torn one cannot be opened.
Openable == disk["db"] \notin {Partial, Torn}
Open ==
    /\ disk' = [disk EXCEPT !["db"] = IF @ = None THEN Fresh ELSE @]
    /\ sidecar' = IF sidecar = "live" THEN "none" ELSE sidecar
    /\ handle' = TRUE

\* Mutant of HandlerAfterReopen: the handler is exchanged and reaches the new database.
HandlerExchanged == TRUE

\* ipcMain.handle refuses a second handler for a channel, so that coop:db
\* stays with the database that was closed.
HandlerAfterReopen == FALSE

\* A file that cannot be opened leaves the application without a database.
Reopen ==
    /\ pc = "reopen"
    /\ IF Openable
           THEN Open /\ live' = None
           ELSE UNCHANGED <<disk, sidecar, handle, live>>
    /\ serves' = HandlerAfterReopen
    /\ pc' = "idle"
    /\ UNCHANGED <<pulled, changes, accepted, kept>>

-----------------------------------------------------------------------------
\* The process ends, at any point: a crash, a power cut, or the owner quits.
Stop ==
    /\ pc # "down"
    /\ pc' = "down"
    /\ handle' = FALSE
    /\ serves' = FALSE
    /\ pulled' = None
    /\ UNCHANGED <<disk, sidecar, changes, accepted, kept, live>>

Launch ==
    /\ pc = "down"
    /\ Openable
    /\ Open
    /\ serves' = TRUE
    /\ pc' = "idle"
    /\ live' = None
    /\ UNCHANGED <<pulled, changes, accepted, kept>>

Next ==
    \/ \E op \in Op :
        \/ Write(op)
        \/ \E answered \in BOOLEAN : Push(op, answered)
        \/ PushRefused(op)
        \/ Requeue(op)
        \/ ResolveConflict(op)
    \/ OtherChange
    \/ FetchPull \/ IngestPull \/ DropPull
    \/ Backup \/ BeginRestore
    \/ MoveDb \/ MoveDbFails \/ MoveSidecar
    \/ CopyBackup \/ RollBack \/ DiscardParked
    \/ Reopen
    \/ Stop \/ Launch

Spec == Init /\ [][Next]_vars

-----------------------------------------------------------------------------
\* Whatever fails in a restore and wherever the process stops, until a
\* database is open again the one the restore found is still on the disk
\* whole, live or parked, or every byte of the file the owner picked has
\* landed (replaceDbFile: a locked or failed swap never leaves the owner with
\* no database).  Only its header is ever looked at: when the file that landed
\* is an unfinished backup, the parked database may be gone nevertheless.
SwapKeepsLive ==
    live # None =>
        \/ live \in {disk["db"], disk["old"]}
        \/ disk["copy"] # None /\ disk["db"] = disk["copy"]

\* What the owner wrote and never discarded has reached the cloud or waits in
\* the queue of the live file, through restores of older backups, failures and
\* crashes (assertRestoreSafe).
NoWorkLost ==
    \A op \in kept :
        \/ op \in accepted
        \/ disk["db"] \in Database /\ Queued(disk["db"], op)

\* No database believes to have seen more than it has: every change up to its
\* cursor is in its mirror, although a pull that was asked for with the cursor
\* of one file can be answered when another one is in its place.
CursorHonest ==
    \A f \in File : disk[f] \in Database => 1..disk[f].cursor \subseteq disk[f].seen

\* What the steps of a swap leave on the disk, one after the other.
SwapSteps ==
    /\ pc \in {"idle", "down", "reopen"} \/ disk["copy"] # None
    /\ pc = "move" => disk["db"] = live /\ live \in Database
    /\ pc \in {"sidecar", "copy"} => disk["db"] = None /\ disk["old"] = live /\ live \in Database
    /\ pc = "roll" =>
        disk["db"] \in {None, Partial} /\ disk["old"] = live /\ live \in Database
    /\ pc = "discard" => disk["db"] = disk["copy"]
    /\ handle => pc = "idle" /\ disk["db"] \in Database /\ live = None
    /\ pc \notin {"idle", "down"} => kept \subseteq accepted

\* A pull in flight starts no later than the mirror it is meant for ends, and
\* dies with the process.
PullFits ==
    /\ pc = "down" => pulled = None
    /\ Serving /\ pulled # None => 1..pulled.cursor \subseteq disk["db"].seen \cup pulled.seen

\* The invariant the proofs go by.
IInv == TypeOK /\ SwapSteps /\ SwapKeepsLive /\ NoWorkLost /\ CursorHonest /\ PullFits

=============================================================================
