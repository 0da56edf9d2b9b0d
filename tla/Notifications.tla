--------------------------- MODULE Notifications ---------------------------
(***************************************************************************)
(* The notifications of one user and the unread count kept beside them in  *)
(* the users table (notification.service.ts, NotificationSubscriber.ts,    *)
(* notification-retention.service.ts).                                     *)
(*                                                                         *)
(* The count is never computed from the rows.  TypeORM tells a subscriber  *)
(* of every row that save() inserts or updates, in the transaction of that *)
(* save, and the subscriber adds or subtracts one.  Statements of a query  *)
(* builder (mark all as read, the nightly deletion) bypass it.             *)
(*                                                                         *)
(* Every handler touches the rows of one user only, so the module has one. *)
(* A notification is its number in the order of creation, which is also    *)
(* the order in which notifications grow old.                              *)
(***************************************************************************)
EXTENDS Integers, FiniteSets

CONSTANTS
    MaxNotes,     \* bound: notifications ever sent to the user
    Requests,     \* requests of the user that can be in flight at once
    MaxFailures,  \* bound: requests that fail between two of their statements
    MaxNights     \* bound: nightly deletions

ASSUME NotesAssumption    == MaxNotes \in Nat \ {0}
ASSUME RequestsAssumption == IsFiniteSet(Requests)
ASSUME BoundsAssumption   == MaxFailures \in Nat /\ MaxNights \in Nat

VARIABLES
    note,      \* the notifications table: the state of each row
    sent,      \* how many notifications have been created
    count,     \* users.notificationUnreadCount
    slot,      \* the handler each request has in flight
    failures,  \* requests that have failed
    nights,    \* nightly deletions so far
    dropped,   \* history: unread rows deleted since the count was last reset
    raced      \* history: something the count is not proof against has happened

vars == <<note, sent, count, slot, failures, nights, dropped, raced>>

Notes == 1..MaxNotes

Slot == [at : {"idle", "loaded", "selected", "allMarked"}, note : 0..MaxNotes,
         found : {"none", "unread", "read", "absent"}]

Idle == [at |-> "idle", note |-> 0, found |-> "none"]

Unread == {n \in Notes : note[n] = "unread"}

Init ==
    /\ note     = [n \in Notes |-> "absent"]
    /\ sent     = 0
    /\ count    = 0
    /\ slot     = [r \in Requests |-> Idle]
    /\ failures = 0
    /\ nights   = 0
    /\ dropped  = 0
    /\ raced    = FALSE

Done(r) == slot' = [slot EXCEPT ![r] = Idle]

-----------------------------------------------------------------------------
(* Creation, by any module of the server.                                  *)

\* Mutant of Send: one row more is created than is reported.
MutSendMore(k) ==
    /\ sent + k <= MaxNotes
    /\ note' = [n \in Notes |-> IF n \in sent + 1 .. sent + k THEN "unread" ELSE note[n]]
    /\ sent' = sent + k + 1
    /\ count' = count + k
    /\ UNCHANGED <<slot, failures, nights, dropped, raced>>

\* createNotification and the two bulk forms: one save of k rows for this user, whose
\* transaction includes the k increments of afterInsert.
Send(k) ==
    /\ sent + k <= MaxNotes
    /\ note' = [n \in Notes |-> IF n \in sent + 1 .. sent + k THEN "unread" ELSE note[n]]
    /\ sent' = sent + k
    /\ count' = count + k
    /\ UNCHANGED <<slot, failures, nights, dropped, raced>>

-----------------------------------------------------------------------------
(* markAsRead: findOne, then save, which reads the row once more.          *)

MarkAsRead(r, n) ==
    /\ slot[r] = Idle
    /\ note[n] # "absent"
    /\ slot' = [slot EXCEPT ![r] = [at |-> "loaded", note |-> n, found |-> "none"]]
    /\ UNCHANGED <<note, sent, count, failures, nights, dropped, raced>>

SaveSelect(r) ==
    /\ slot[r].at = "loaded"
    /\ slot' = [slot EXCEPT ![r] = [at |-> "selected", note |-> @.note,
                                    found |-> note[slot[r].note]]]
    /\ UNCHANGED <<note, sent, count, failures, nights, dropped, raced>>

\* The row was unread when save looked: UPDATE it (to no effect if it has been deleted),
\* and afterUpdate subtracts one.
CommitUpdate(r) ==
    LET n == slot[r].note
    IN  /\ slot[r].at = "selected" /\ slot[r].found = "unread"
        /\ note' = [note EXCEPT ![n] = IF @ = "absent" THEN "absent" ELSE "read"]
        /\ count' = count - 1
        /\ raced' = (raced \/ note[n] # "unread")
        /\ Done(r)
        /\ UNCHANGED <<sent, failures, nights, dropped>>

\* Mutant of CommitNothing: afterUpdate does not compare with the row in the database.
MutCommitSubtracts(r) ==
    /\ slot[r].at = "selected" /\ slot[r].found = "read"
    /\ count' = count - 1
    /\ Done(r)
    /\ UNCHANGED <<note, sent, failures, nights, dropped, raced>>

\* The row was read already: save finds nothing to update.
CommitNothing(r) ==
    /\ slot[r].at = "selected" /\ slot[r].found = "read"
    /\ Done(r)
    /\ UNCHANGED <<note, sent, count, failures, nights, dropped, raced>>

\* The row was gone: save inserts it again, read, and afterInsert adds one.  If another
\* request has done so meanwhile, the primary key makes the INSERT fail.
CommitInsert(r) ==
    LET n == slot[r].note
    IN  /\ slot[r].at = "selected" /\ slot[r].found = "absent"
        /\ IF note[n] = "absent"
             THEN /\ note' = [note EXCEPT ![n] = "read"]
                  /\ count' = count + 1
                  /\ raced' = TRUE
             ELSE UNCHANGED <<note, count, raced>>
        /\ Done(r)
        /\ UNCHANGED <<sent, failures, nights, dropped>>

-----------------------------------------------------------------------------
(* markAllAsRead: two statements that are not in one transaction.          *)

MarkAllAsRead(r) ==
    /\ slot[r] = Idle
    /\ note' = [n \in Notes |-> IF note[n] = "unread" THEN "read" ELSE note[n]]
    /\ slot' = [slot EXCEPT ![r].at = "allMarked"]
    /\ UNCHANGED <<sent, count, failures, nights, dropped, raced>>

\* The count becomes 0 whatever has happened since.  From here on it can be trusted
\* again, unless a notification came in between.
ResetCount(r) ==
    /\ slot[r].at = "allMarked"
    /\ count' = 0
    /\ dropped' = 0
    /\ raced' = (Unread # {})
    /\ Done(r)
    /\ UNCHANGED <<note, sent, failures, nights>>

-----------------------------------------------------------------------------
\* deleteOldNotifications, nightly: rows older than three months, read or not, by one
\* DELETE that fires no afterRemove.
DeleteOldNotifications(newest) ==
    /\ newest <= sent
    /\ nights < MaxNights
    /\ nights' = nights + 1
    /\ note' = [n \in Notes |-> IF n <= newest THEN "absent" ELSE note[n]]
    /\ dropped' = dropped + Cardinality({n \in Unread : n <= newest})
    /\ UNCHANGED <<sent, count, slot, failures, raced>>

\* An error or a restart: what has been committed stays, the rest is not done.
Fail(r) ==
    /\ slot[r] # Idle
    /\ failures < MaxFailures
    /\ failures' = failures + 1
    /\ raced' = (raced \/ slot[r].at = "allMarked")
    /\ Done(r)
    /\ UNCHANGED <<note, sent, count, nights, dropped>>

Finish(r) == \/ SaveSelect(r) \/ CommitUpdate(r) \/ CommitNothing(r) \/ CommitInsert(r)
             \/ ResetCount(r)

Next == \/ \E k \in Notes : Send(k) \/ DeleteOldNotifications(k)
        \/ \E r \in Requests : \/ \E n \in Notes : MarkAsRead(r, n)
                               \/ MarkAllAsRead(r) \/ Finish(r) \/ Fail(r)

Spec == Init /\ [][Next]_vars

-----------------------------------------------------------------------------
(* Correctness.                                                            *)

\* The type invariant.
TypeOK ==
    /\ note \in [Notes -> {"unread", "read", "absent"}]
    /\ sent \in 0..MaxNotes
    /\ count \in Int
    /\ slot \in [Requests -> Slot]
    /\ failures \in 0..MaxFailures
    /\ nights \in 0..MaxNights
    /\ dropped \in Nat
    /\ raced \in BOOLEAN

\* The count the user is shown is the number of unread notifications plus those that
\* the nightly deletion took away unread, whatever handlers overlap, until one of these
\* happens: a row changes between the SELECT and the UPDATE of its save, a notification
\* comes between the two statements of markAllAsRead, or that handler fails there.  The
\* next markAllAsRead makes up for all of them (getUnreadCount, NotificationSubscriber).
CountExplained ==
    raced \/ (\E r \in Requests : slot[r].at = "allMarked")
          \/ count = Cardinality(Unread) + dropped

=============================================================================
