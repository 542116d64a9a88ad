------------------------------ MODULE PullCursor ------------------------------
(***************************************************************************)
(* The delta cursor of a pull (backend/pull.py, electron/sync.js) against  *)
(* transactions that are open while it is computed.                        *)
(*                                                                         *)
(* PostgreSQL stamps updated_at with the time a transaction began, and the *)
(* row becomes visible when it commits; the pull reads one table after the *)
(* other and only then takes the time for the next cursor, from the clock  *)
(* of the API host.  Time is counted in ticks, Second of them to a second. *)
(*                                                                         *)
(* Nothing in the code limits how long a transaction stays open or how     *)
(* long a pull takes, and nothing here does: span and lag record how long  *)
(* they took, for the property to speak of.                                *)
(***************************************************************************)
EXTENDS Integers

CONSTANTS
    Row,       \* rows of the mirrored tables
    Writer,    \* transactions that can be open at once
    Second,    \* ticks in a second
    Skew,      \* how far the API's clock may run ahead of the database's
    MaxTime    \* bound on the clock

ASSUME SpanAssumption ==
    /\ Second \in Nat \ {0} /\ Skew \in Nat /\ MaxTime \in Nat
    /\ "none" \notin Row

VARIABLES
    now,     \* the database's clock
    tx,      \* of each writer: the row it writes and when its transaction began
    stamp,   \* updated_at of each committed row
    stale,   \* rows whose committed version the mirror does not hold
    cursor,  \* the cursor the device stored
    began,   \* when the pull in flight began, or -1
    full,    \* it sent no cursor
    unread,  \* rows the pull in flight has still to look at
    got,     \* rows it selected whose version is still the committed one
    answer,  \* the cursor in its payload, or -1 before it is taken
    span,    \* history: how long the transaction of each stale row was open
    lag      \* history: how far a stored cursor lay after the begin of its pull

pull == <<began, full, unread, got, answer>>
pullVars == <<now, tx, stamp, stale, cursor, pull, span, lag>>

NoTx == [row |-> "none", began |-> 0]

Open(w) == tx[w].row # "none"

Pulling == began # -1

\* replace(microsecond=0)
Truncate(t) == t - (t % Second)

Floor == cursor - Second

PullInit ==
    /\ now = 0
    /\ tx = [w \in Writer |-> NoTx]
    /\ stamp = [r \in Row |-> 0]
    /\ stale = {}
    /\ cursor = 0
    /\ began = -1 /\ full = FALSE /\ unread = {} /\ got = {} /\ answer = -1
    /\ span = [r \in Row |-> 0] /\ lag = 0

-------------------------------------------------------------------------------
Tick ==
    /\ now < MaxTime
    /\ now' = now + 1
    /\ UNCHANGED <<tx, stamp, stale, cursor, pull, span, lag>>

BeginWrite(w, r) ==
    /\ ~Open(w)
    /\ tx' = [tx EXCEPT ![w] = [row |-> r, began |-> now]]
    /\ UNCHANGED <<now, stamp, stale, cursor, pull, span, lag>>

CommitRow(w) ==
    /\ Open(w)
    /\ tx' = [tx EXCEPT ![w] = NoTx]
    /\ stamp' = [stamp EXCEPT ![tx[w].row] = tx[w].began]
    /\ span' = [span EXCEPT ![tx[w].row] = now - tx[w].began]
    /\ stale' = stale \cup {tx[w].row}
    /\ got' = got \ {tx[w].row}
    /\ UNCHANGED <<now, cursor, began, full, unread, answer, lag>>

RollBack(w) ==
    /\ Open(w)
    /\ tx' = [tx EXCEPT ![w] = NoTx]
    /\ UNCHANGED <<now, stamp, stale, cursor, pull, span, lag>>

\* A delta, or a full pull: one without `since`.
BeginPull ==
    /\ ~Pulling
    /\ full' \in BOOLEAN
    /\ began' = now /\ unread' = Row /\ got' = {} /\ answer' = -1
    /\ UNCHANGED <<now, tx, stamp, stale, cursor, span, lag>>

\* Mutant of Selected: a comparison without the one-second overlap.
SelectedAfter(r) == stamp[r] >= cursor

\* WHERE updated_at >= floor
Selected(r) == stamp[r] >= Floor

ReadRow(r) ==
    /\ Pulling /\ r \in unread
    /\ unread' = unread \ {r}
    /\ got' = IF full \/ Selected(r) THEN got \cup {r} ELSE got
    /\ UNCHANGED <<now, tx, stamp, stale, cursor, began, full, answer, span, lag>>

\* new_cursor: the API's clock, and never less than the cursor that was sent.
TakeCursor ==
    /\ Pulling /\ unread = {} /\ answer = -1
    /\ \E ahead \in 0..Skew :
         answer' = IF full \/ Truncate(now + ahead) >= cursor
                   THEN Truncate(now + ahead) ELSE cursor
    /\ UNCHANGED <<now, tx, stamp, stale, cursor, began, full, unread, got, span, lag>>

EndPull == began' = -1 /\ full' = FALSE /\ unread' = {} /\ got' = {} /\ answer' = -1

\* The payload is ingested and its cursor stored in one SQLite transaction.
Ingest ==
    /\ Pulling /\ answer # -1
    /\ stale' = stale \ got
    /\ cursor' = answer
    /\ lag' = IF answer - began > lag THEN answer - began ELSE lag
    /\ span' = [r \in Row |-> IF r \in stale' THEN span[r] ELSE 0]
    /\ EndPull
    /\ UNCHANGED <<now, tx, stamp>>

\* The request, its answer or the ingest fails: the old cursor stays.
DropPull ==
    /\ Pulling
    /\ EndPull
    /\ UNCHANGED <<now, tx, stamp, stale, cursor, span, lag>>

\* The clock has reached its bound and everything rests.
Rest ==
    /\ now = MaxTime /\ ~Pulling /\ \A w \in Writer : ~Open(w)
    /\ UNCHANGED pullVars

PullNext ==
    \/ Tick \/ BeginPull \/ TakeCursor \/ Ingest \/ DropPull \/ Rest
    \/ \E w \in Writer : \/ CommitRow(w) \/ RollBack(w)
                         \/ \E r \in Row : BeginWrite(w, r)
    \/ \E r \in Row : ReadRow(r)

PullSpec == PullInit /\ [][PullNext]_pullVars

-------------------------------------------------------------------------------
(* Properties *)

PullTypeOK ==
    /\ now \in Nat
    /\ tx \in [Writer -> [row : Row \cup {"none"}, began : Nat]]
    /\ stamp \in [Row -> Nat]
    /\ stale \subseteq Row
    /\ cursor \in Nat
    /\ began \in Nat \cup {-1}
    /\ full \in BOOLEAN
    /\ unread \subseteq Row /\ got \subseteq Row
    /\ answer \in Nat \cup {-1}
    /\ span \in [Row -> Nat] /\ lag \in Nat

\* pull.py calls its deltas at-least-once.  What the mirror has not seen the
\* next delta still selects, unless the transaction that wrote it and the lead
\* of a stored cursor over the begin of its pull exceed together the second the
\* floor gives away: only then can a commit fall between two deltas.
OnlySlowMissed == \A r \in stale : Selected(r) \/ span[r] + lag > Second

\* The inductive invariant behind OnlySlowMissed: no cursor is further ahead
\* than lag tells, and what a pull has passed over committed since it began, or
\* was lost to the deltas before.
CursorInLag == cursor <= now + lag

BegunBefore ==
    /\ \A w \in Writer : Open(w) => tx[w].began <= now
    /\ began <= now

AnswerIsLast == answer # -1 => Pulling /\ unread = {}

PassedRows ==
    Pulling => \A r \in stale : \/ r \in unread \cup got
                                \/ stamp[r] + span[r] >= began
                                \/ ~Selected(r)

PullInv ==
    /\ PullTypeOK
    /\ CursorInLag
    /\ BegunBefore
    /\ AnswerIsLast
    /\ PassedRows
    /\ OnlySlowMissed
================================================================================
