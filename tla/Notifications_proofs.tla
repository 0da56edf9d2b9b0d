----------------------- MODULE Notifications_proofs ------------------------
(***************************************************************************)
(* Proofs about the three parts that MCNotifications puts side by side,    *)
(* for every number of notifications, requests, schedules, nights and      *)
(* runs, and every kind of schedule.                                       *)
(*                                                                         *)
(* Notifications: CountExplained relates the count to the rows.  To see    *)
(* that a step keeps it, one must know that the row a handler will write   *)
(* has been created (SlotInv) and that the rows Send fills are empty       *)
(* (RowInv).                                                               *)
(*                                                                         *)
(* Schedules: RunsAnnounced is about one step of the 00:30 job.  Behind it *)
(* stands RunInv, of every state: the next run of a schedule has been      *)
(* announced, counts as spoilt, or can still be announced.  What the job   *)
(* loads is due (AdvanceInv), and a run that is due can not be announced   *)
(* any more.                                                               *)
(*                                                                         *)
(* MonthlyRuns: the day of a run never grows, and each new one is the day  *)
(* of the run before or the length of its own month; the calendar matters  *)
(* for nothing else.                                                       *)
(***************************************************************************)
EXTENDS MCNotifications, FiniteSetTheorems, TLAPS

\* A handler that marks one notification works on one that has been sent.
SlotInv == \A r \in Requests : slot[r].at \in {"loaded", "selected"} => slot[r].note \in 1..sent

\* Numbers that have not been given out have no row.
RowInv == \A n \in Notes : n > sent => note[n] = "absent"

IInv == TypeOK /\ SlotInv /\ RowInv /\ CountExplained

-----------------------------------------------------------------------------
\* The unread rows are finitely many, so they can be counted.
LEMMA UnreadFinite ==
    ASSUME NEW S \in SUBSET Notes
    PROVE  IsFiniteSet(S) /\ Cardinality(S) \in Nat
<1>1. MaxNotes \in Int /\ 1 \in Int
  BY NotesAssumption
<1>2. IsFiniteSet(Notes)
  BY <1>1, FS_Interval DEF Notes
<1>3. IsFiniteSet(S)
  BY <1>2, FS_Subset
<1> QED  BY <1>3, FS_CardinalityType

\* Cardinality of the two parts of a set of notifications.
LEMMA SplitCount ==
    ASSUME NEW S \in SUBSET Notes, NEW T \in SUBSET Notes, S \cap T = {}
    PROVE  Cardinality(S \cup T) = Cardinality(S) + Cardinality(T)
<1>1. IsFiniteSet(S) /\ IsFiniteSet(T)
  BY UnreadFinite
<1>2. Cardinality(S \cup T) = Cardinality(S) + Cardinality(T) - Cardinality(S \cap T)
  BY <1>1, FS_Union
<1>3. Cardinality(S \cap T) = 0
  BY FS_EmptySet
<1>4. Cardinality(S) \in Nat /\ Cardinality(T) \in Nat
  BY UnreadFinite
<1> QED  BY <1>2, <1>3, <1>4

\* The initial state.
LEMMA InitIInv == Init => IInv
<1> SUFFICES ASSUME Init PROVE IInv
  OBVIOUS
<1>1. TypeOK
  <2>1. Idle \in Slot
    BY NotesAssumption DEF Idle, Slot
  <2>2. slot \in [Requests -> Slot] /\ note \in [Notes -> {"unread", "read", "absent"}]
    BY <2>1 DEF Init
  <2>3. /\ sent \in 0..MaxNotes /\ count \in Int /\ dropped \in Nat
        /\ failures \in 0..MaxFailures /\ nights \in 0..MaxNights
    BY NotesAssumption, BoundsAssumption DEF Init
  <2>4. raced \in BOOLEAN
    BY DEF Init
  <2> QED  BY <2>2, <2>3, <2>4 DEF TypeOK
<1>2. SlotInv /\ RowInv
  BY DEF Init, SlotInv, RowInv, Idle
<1>3. Unread = {}
  BY DEF Init, Unread
<1>4. count = Cardinality(Unread) + dropped
  BY <1>3, FS_EmptySet DEF Init
<1> QED  BY <1>1, <1>2, <1>4 DEF IInv, CountExplained

-----------------------------------------------------------------------------
(* One lemma for each kind of step.                                        *)

\* k rows that were empty become unread, and the count grows by k.
LEMMA SendStep == ASSUME NEW k \in Notes, IInv, Send(k) PROVE IInv'
<1> DEFINE New == sent + 1 .. sent + k
<1>1. TypeOK'
  BY NotesAssumption DEF IInv, TypeOK, Send, Notes
<1>2. SlotInv'
  BY NotesAssumption DEF IInv, TypeOK, SlotInv, Send, Notes
<1>3. RowInv'
  BY NotesAssumption DEF IInv, TypeOK, RowInv, Send, Notes
<1>4. New \in SUBSET Notes /\ Unread \in SUBSET Notes
  BY NotesAssumption DEF IInv, TypeOK, Send, Notes, Unread
<1>5. Unread \cap New = {}
  BY NotesAssumption DEF IInv, TypeOK, RowInv, Unread, Notes
<1>6. Unread' = Unread \cup New
  <2>1. note' = [n \in Notes |-> IF n \in New THEN "unread" ELSE note[n]]
    BY DEF Send
  <2> QED  BY <1>4, <2>1 DEF Unread
<1>7. Cardinality(New) = k
  <2>1. sent + 1 \in Int /\ sent + k \in Int /\ k \in Nat \ {0} /\ sent \in Nat
    BY NotesAssumption DEF IInv, TypeOK, Notes
  <2> QED  BY <2>1, FS_Interval
<1>8. Cardinality(Unread') = Cardinality(Unread) + k
  BY <1>4, <1>5, <1>6, <1>7, SplitCount
<1>9. Cardinality(Unread) \in Nat /\ k \in Int
  BY <1>4, UnreadFinite DEF Notes
<1>10. CountExplained'
  BY <1>8, <1>9 DEF IInv, TypeOK, CountExplained, Send
<1> QED  BY <1>1, <1>2, <1>3, <1>10 DEF IInv

\* Steps that change neither the rows nor the count, and do not touch markAllAsRead.
LEMMA QuietStep ==
    ASSUME IInv, NEW r \in Requests,
           slot[r].at # "allMarked",
           NEW s \in Slot,
           s.at \in {"loaded", "selected"} => s.note \in 1..sent,
           slot' = [slot EXCEPT ![r] = s],
           UNCHANGED <<note, sent, count, nights, dropped>>,
           raced' = raced, failures' \in 0..MaxFailures
    PROVE  IInv'
<1>1. TypeOK'
  BY DEF IInv, TypeOK
<1>2. SlotInv' /\ RowInv'
  BY DEF IInv, TypeOK, SlotInv, RowInv
<1>3. Unread' = Unread
  BY DEF Unread
<1>4. \A q \in Requests : slot[q].at = "allMarked" => slot'[q].at = "allMarked"
  BY DEF IInv, TypeOK
<1>5. CountExplained'
  BY <1>3, <1>4 DEF IInv, CountExplained
<1> QED  BY <1>1, <1>2, <1>5 DEF IInv

\* A handler loads the row it is to mark.
LEMMA LoadStep ==
    ASSUME IInv, NEW r \in Requests, NEW n \in Notes, MarkAsRead(r, n) PROVE IInv'
<1> DEFINE s == [at |-> "loaded", note |-> n, found |-> "none"]
<1>1. s \in Slot
  BY NotesAssumption DEF Slot, Notes
<1>2. n \in 1..sent
  BY NotesAssumption DEF IInv, TypeOK, RowInv, MarkAsRead, Notes
<1>3. slot' = [slot EXCEPT ![r] = s] /\ raced' = raced /\ failures' \in 0..MaxFailures
  BY DEF IInv, TypeOK, MarkAsRead
<1>4. slot[r].at # "allMarked" /\ UNCHANGED <<note, sent, count, nights, dropped>>
  BY DEF MarkAsRead, Idle
<1> HIDE DEF s
<1>5. s.note = n
  BY DEF s
<1> QED  BY <1>1, <1>2, <1>3, <1>4, <1>5, QuietStep

\* save() reads the row again, or finds it gone.
LEMMA SelectStep == ASSUME IInv, NEW r \in Requests, SaveSelect(r) PROVE IInv'
<1> DEFINE s == [at |-> "selected", note |-> slot[r].note, found |-> note[slot[r].note]]
<1>1. slot[r] \in Slot /\ slot[r].note \in 1..sent /\ slot[r].note \in Notes
  BY NotesAssumption DEF IInv, TypeOK, SlotInv, SaveSelect, Notes
<1>2. note[slot[r].note] \in {"unread", "read", "absent"}
  BY <1>1 DEF IInv, TypeOK
<1>3. s \in Slot
  BY <1>1, <1>2 DEF Slot
<1>4. slot' = [slot EXCEPT ![r] = s]
  BY <1>1 DEF SaveSelect, IInv, TypeOK
<1>5. raced' = raced /\ failures' \in 0..MaxFailures
  BY DEF IInv, TypeOK, SaveSelect
<1>6. slot[r].at # "allMarked" /\ UNCHANGED <<note, sent, count, nights, dropped>>
  BY DEF SaveSelect
<1>7. s.note \in 1..sent
  BY <1>1
<1> HIDE DEF s
<1> QED  BY <1>3, <1>4, <1>5, <1>6, <1>7, QuietStep

\* save() finds nothing to write.
LEMMA CommitNothingStep == ASSUME IInv, NEW r \in Requests, CommitNothing(r) PROVE IInv'
<1>1. Idle \in Slot /\ Idle.at = "idle"
  BY NotesAssumption DEF Idle, Slot
<1>2. slot' = [slot EXCEPT ![r] = Idle] /\ raced' = raced /\ failures' \in 0..MaxFailures
  BY DEF IInv, TypeOK, CommitNothing, Done
<1>3. slot[r].at # "allMarked" /\ UNCHANGED <<note, sent, count, nights, dropped>>
  BY DEF CommitNothing
<1> QED  BY <1>1, <1>2, <1>3, QuietStep

\* A handler ends: its slot is free, and the others are as they were.
LEMMA DoneStep ==
    ASSUME TypeOK, SlotInv, NEW r \in Requests, Done(r), sent' = sent
    PROVE  /\ slot' \in [Requests -> Slot] /\ SlotInv'
           /\ slot[r].at # "allMarked" =>
                  \A q \in Requests : slot[q].at = "allMarked" => slot'[q].at = "allMarked"
<1>1. Idle \in Slot /\ Idle.at = "idle"
  BY NotesAssumption DEF Idle, Slot
<1>2. \A q \in Requests : slot'[q] = IF q = r THEN Idle ELSE slot[q]
  BY DEF Done, TypeOK
<1> QED  BY <1>1, <1>2 DEF Done, TypeOK, SlotInv

\* One row that save found unread becomes read, and the count shrinks by one.
LEMMA CommitUpdateStep == ASSUME IInv, NEW r \in Requests, CommitUpdate(r) PROVE IInv'
<1> DEFINE n == slot[r].note
<1>1. n \in Notes
  BY NotesAssumption DEF IInv, TypeOK, SlotInv, CommitUpdate, Notes
<1>2. /\ slot' \in [Requests -> Slot] /\ SlotInv'
      /\ \A q \in Requests : slot[q].at = "allMarked" => slot'[q].at = "allMarked"
  BY DoneStep DEF IInv, CommitUpdate
<1>3. TypeOK'
  <2>1. note' \in [Notes -> {"unread", "read", "absent"}]
    BY <1>1 DEF IInv, TypeOK, CommitUpdate
  <2>2. count' \in Int /\ sent' \in 0..MaxNotes
    BY DEF IInv, TypeOK, CommitUpdate
  <2>3. raced' \in BOOLEAN
    BY Zenon DEF CommitUpdate
  <2> QED  BY <1>2, <2>1, <2>2, <2>3 DEF IInv, TypeOK, CommitUpdate
<1>4. RowInv'
  BY <1>1 DEF IInv, TypeOK, RowInv, CommitUpdate
<1>5. CASE note[n] # "unread"
  <2>1. raced'
    BY <1>5 DEF CommitUpdate
  <2> QED  BY <1>2, <1>3, <1>4, <2>1 DEF IInv, CountExplained
<1>6. CASE note[n] = "unread"
  <2>1. Unread' = Unread \ {n} /\ n \in Unread
    BY <1>1, <1>6 DEF Unread, IInv, TypeOK, CommitUpdate
  <2>2. Unread' \in SUBSET Notes /\ {n} \in SUBSET Notes
    BY <1>1 DEF Unread
  <2>3. Cardinality(Unread' \cup {n}) = Cardinality(Unread') + Cardinality({n})
    BY <2>1, <2>2, SplitCount
  <2>4. Cardinality(Unread) = Cardinality(Unread') + 1
    <3>1. Unread' \cup {n} = Unread
      BY <2>1
    <3> QED  BY <2>3, <3>1, FS_Singleton
  <2>5. Cardinality(Unread') \in Nat
    BY <2>2, UnreadFinite
  <2>6. raced' = raced
    BY <1>6 DEF CommitUpdate, IInv, TypeOK
  <2>7. count' = count - 1 /\ dropped' = dropped
    BY DEF CommitUpdate
  <2>8. count = Cardinality(Unread) + dropped => count' = Cardinality(Unread') + dropped'
    BY <2>4, <2>5, <2>7 DEF IInv, TypeOK
  <2> QED  BY <1>2, <1>3, <1>4, <2>6, <2>8 DEF IInv, CountExplained
<1> QED  BY <1>5, <1>6

\* A deleted row comes back read.
LEMMA CommitInsertStep == ASSUME IInv, NEW r \in Requests, CommitInsert(r) PROVE IInv'
<1> DEFINE n == slot[r].note
<1>1. n \in Notes /\ n \in 1..sent
  BY NotesAssumption DEF IInv, TypeOK, SlotInv, CommitInsert, Notes
<1>2. /\ slot' \in [Requests -> Slot] /\ SlotInv'
      /\ \A q \in Requests : slot[q].at = "allMarked" => slot'[q].at = "allMarked"
  BY DoneStep DEF IInv, CommitInsert
<1>3. CASE note[n] = "absent"
  <2>1. note' = [note EXCEPT ![n] = "read"] /\ count' = count + 1 /\ raced' = TRUE
    BY <1>3 DEF CommitInsert
  <2>2. TypeOK'
    BY <1>1, <1>2, <2>1 DEF IInv, TypeOK, CommitInsert
  <2>3. RowInv'
    BY <1>1, <2>1 DEF IInv, TypeOK, RowInv, CommitInsert
  <2> QED  BY <1>2, <2>1, <2>2, <2>3 DEF IInv, CountExplained
<1>4. CASE note[n] # "absent"
  <2>1. UNCHANGED <<note, count, raced, sent, failures, nights, dropped>>
    BY <1>4 DEF CommitInsert
  <2>2. TypeOK' /\ RowInv'
    BY <1>2, <2>1 DEF IInv, TypeOK, RowInv
  <2>3. Unread' = Unread
    BY <2>1 DEF Unread
  <2>4. CountExplained'
    BY <1>2, <2>1, <2>3 DEF IInv, CountExplained
  <2> QED  BY <1>2, <2>2, <2>4 DEF IInv
<1> QED  BY <1>3, <1>4

\* markAllAsRead: between its statements the count is not relied upon.
LEMMA MarkAllStep == ASSUME IInv, NEW r \in Requests, MarkAllAsRead(r) PROVE IInv'
<1>1. slot[r] = Idle /\ slot' = [slot EXCEPT ![r].at = "allMarked"]
  BY DEF MarkAllAsRead
<1>2. slot'[r].at = "allMarked"
  BY <1>1 DEF IInv, TypeOK, Slot
<1>3. slot' \in [Requests -> Slot]
  BY <1>1 DEF IInv, TypeOK, Slot
<1>4. note' \in [Notes -> {"unread", "read", "absent"}]
  BY DEF IInv, TypeOK, MarkAllAsRead
<1>5. TypeOK'
  BY <1>3, <1>4 DEF IInv, TypeOK, MarkAllAsRead
<1>6. SlotInv'
  BY <1>1, <1>2 DEF IInv, TypeOK, SlotInv, MarkAllAsRead
<1>7. RowInv'
  BY DEF IInv, TypeOK, RowInv, MarkAllAsRead
<1> QED  BY <1>2, <1>5, <1>6, <1>7 DEF IInv, CountExplained

\* The second statement of markAllAsRead.
LEMMA ResetStep == ASSUME IInv, NEW r \in Requests, ResetCount(r) PROVE IInv'
<1>1. slot' \in [Requests -> Slot] /\ SlotInv'
  BY DoneStep DEF IInv, ResetCount
<1>2. TypeOK'
  <2>1. raced' \in BOOLEAN
    BY Zenon DEF ResetCount
  <2> QED  BY <1>1, <2>1 DEF IInv, TypeOK, ResetCount
<1>3. RowInv'
  BY DEF IInv, RowInv, ResetCount
<1>4. CountExplained'
  <2>1. Unread' = Unread
    BY DEF Unread, ResetCount
  <2>2. CASE Unread # {}
    BY <2>2 DEF ResetCount, CountExplained
  <2>3. CASE Unread = {}
    <3>1. Cardinality(Unread') = 0
      BY <2>1, <2>3, FS_EmptySet
    <3>2. count' = Cardinality(Unread') + dropped'
      BY <3>1 DEF ResetCount
    <3> QED  BY <3>2 DEF CountExplained
  <2> QED  BY <2>2, <2>3
<1> QED  BY <1>1, <1>2, <1>3, <1>4 DEF IInv

\* The rows the nightly job deletes are counted in dropped when they were unread.
LEMMA DeleteStep ==
    ASSUME IInv, NEW newest \in Notes, DeleteOldNotifications(newest) PROVE IInv'
<1> DEFINE Old == {n \in Unread : n <= newest}
<1>1. Old \in SUBSET Notes /\ Unread' \in SUBSET Notes
  BY DEF Unread
<1>2. note' = [n \in Notes |-> IF n <= newest THEN "absent" ELSE note[n]]
  BY DEF DeleteOldNotifications
<1>3. Unread = Unread' \cup Old /\ Unread' \cap Old = {}
  BY <1>2 DEF Unread
<1>4. Cardinality(Unread) = Cardinality(Unread') + Cardinality(Old)
  BY <1>1, <1>3, SplitCount
<1>5. Cardinality(Unread') \in Nat /\ Cardinality(Old) \in Nat
  BY <1>1, UnreadFinite
<1>6. dropped' = dropped + Cardinality(Old)
  BY DEF DeleteOldNotifications
<1> HIDE DEF Old
<1>7. TypeOK'
  <2>1. note' \in [Notes -> {"unread", "read", "absent"}]
    BY <1>2 DEF IInv, TypeOK
  <2>2. dropped' \in Nat
    BY <1>5, <1>6 DEF IInv, TypeOK
  <2>3. nights' \in 0..MaxNights
    BY BoundsAssumption DEF IInv, TypeOK, DeleteOldNotifications
  <2> QED  BY <2>1, <2>2, <2>3 DEF IInv, TypeOK, DeleteOldNotifications
<1>8. SlotInv'
  BY DEF IInv, SlotInv, DeleteOldNotifications
<1>9. RowInv'
  BY <1>2 DEF IInv, RowInv, DeleteOldNotifications
<1>10. count = Cardinality(Unread) + dropped => count' = Cardinality(Unread') + dropped'
  BY <1>4, <1>5, <1>6 DEF IInv, TypeOK, DeleteOldNotifications
<1>11. CountExplained'
  BY <1>10 DEF IInv, CountExplained, DeleteOldNotifications
<1> QED  BY <1>7, <1>8, <1>9, <1>11 DEF IInv

\* A handler ends before its next statement.
LEMMA FailStep == ASSUME IInv, NEW r \in Requests, Fail(r) PROVE IInv'
<1>1. slot' \in [Requests -> Slot] /\ SlotInv'
  BY DoneStep DEF IInv, Fail
<1>2. TypeOK'
  <2>1. raced' \in BOOLEAN
    BY Zenon DEF Fail
  <2>2. failures' \in 0..MaxFailures
    BY BoundsAssumption DEF IInv, TypeOK, Fail
  <2> QED  BY <1>1, <2>1, <2>2 DEF IInv, TypeOK, Fail
<1>3. RowInv'
  BY DEF IInv, RowInv, Fail
<1>4. CountExplained'
  <2>1. CASE slot[r].at = "allMarked"
    BY <2>1 DEF Fail, CountExplained
  <2>2. CASE slot[r].at # "allMarked"
    <3>1. \A q \in Requests : slot[q].at = "allMarked" => slot'[q].at = "allMarked"
      BY <2>2, DoneStep DEF IInv, Fail
    <3>2. Unread' = Unread
      BY DEF Unread, Fail
    <3>3. raced => raced'
      BY Zenon DEF Fail
    <3> QED  BY <3>1, <3>2, <3>3 DEF IInv, CountExplained, Fail
  <2> QED  BY <2>1, <2>2
<1> QED  BY <1>1, <1>2, <1>3, <1>4 DEF IInv

-----------------------------------------------------------------------------
\* Every step of the notifications.
LEMMA NextIInv == IInv /\ [Next]_vars => IInv'
<1> SUFFICES ASSUME IInv, [Next]_vars PROVE IInv'
  OBVIOUS
<1>1. ASSUME NEW k \in Notes, Send(k) PROVE IInv'
  BY <1>1, SendStep
<1>2. ASSUME NEW k \in Notes, DeleteOldNotifications(k) PROVE IInv'
  BY <1>2, DeleteStep
<1>3. ASSUME NEW r \in Requests, NEW n \in Notes, MarkAsRead(r, n) PROVE IInv'
  BY <1>3, LoadStep
<1>4. ASSUME NEW r \in Requests, MarkAllAsRead(r) PROVE IInv'
  BY <1>4, MarkAllStep
<1>5. ASSUME NEW r \in Requests, Finish(r) PROVE IInv'
  BY <1>5, SelectStep, CommitUpdateStep, CommitNothingStep, CommitInsertStep, ResetStep
     DEF Finish
<1>6. ASSUME NEW r \in Requests, Fail(r) PROVE IInv'
  BY <1>6, FailStep
<1>7. CASE UNCHANGED vars
  <2>1. Unread' = Unread
    BY <1>7 DEF vars, Unread
  <2> QED
    BY <1>7, <2>1 DEF vars, IInv, TypeOK, SlotInv, RowInv, CountExplained
<1> QED  BY <1>1, <1>2, <1>3, <1>4, <1>5, <1>6, <1>7 DEF Next

\* Whatever overlaps or fails, the inductive invariant holds.
THEOREM Invariance == Spec => []IInv
<1> QED  BY InitIInv, NextIInv, PTL DEF Spec

\* The unread count (getUnreadCount) is explained by the rows and the deletions, unless
\* one of the named races has happened since the last markAllAsRead: for any number of
\* notifications, requests in flight, failures and nightly deletions.
THEOREM CountIsExplained == Spec => []CountExplained
<1>1. IInv => CountExplained
  BY DEF IInv
<1> QED  BY <1>1, Invariance, PTL

-----------------------------------------------------------------------------
(* Schedules.                                                              *)

\* The next run of s can still be announced: its day of notice has not passed, and on that
\* day the 08:00 job is yet to come or has the run in its batch.
Announceable(s) ==
    /\ plan[s].kind.notice > 0 \/ plan[s].kind.late
    /\ plan[s].next >= plan[s].kind.notice
    /\ phase \in {"reminding", "day"} =>
           \/ plan[s].next > plan[s].kind.notice
           \/ phase = "reminding" /\ s \in batch /\ AsHeld(s)

RunInv == \A s \in Plans : Active(s) \/ (phase = "advancing" /\ s \in batch) =>
              s \in announced \cup spoilt \/ Announceable(s)

\* The 00:30 job saves a schedule of its batch, and its batch is due.
AdvanceInv ==
    /\ saving # NotSaving => phase = "advancing" /\ saving.of \in batch
    /\ phase = "advancing" => \A s \in batch : /\ held[s].next <= 0
                                               /\ held[s].next = 0 => ~held[s].kind.late

\* A handler in flight has a schedule.
EditorInv == editor.at # "idle" => editor.of \in Plans

ScheduleInv == ScheduleTypeOK /\ RunInv /\ AdvanceInv /\ EditorInv

\* A row some of whose fields come from another one is a row.
LEMMA MixedType ==
    ASSUME NEW e \in Schedule, NEW r \in Schedule, NEW fields
    PROVE  LET x == [f \in Fields |-> IF f \in fields THEN e[f] ELSE r[f]]
           IN  /\ x \in Schedule
               /\ x.next = IF "next" \in fields THEN e.next ELSE r.next
               /\ x.kind = IF "kind" \in fields THEN e.kind ELSE r.kind
               /\ x.state = IF "state" \in fields THEN e.state ELSE r.state
               /\ x.status = IF "status" \in fields THEN e.status ELSE r.status
BY DEF Schedule, Fields

\* Kinds and days are of their types, and rows without a schedule are rows.
LEMMA KindType ==
    /\ \A k \in Kinds : k.period \in Nat /\ k.notice \in Nat /\ k.late \in BOOLEAN
    /\ MaxBehind \in Nat /\ MaxAhead \in Nat /\ Days \subseteq Int /\ 0 \in Days
    /\ NoSchedule \in Schedule /\ NoSchedule.state = "none" /\ NoSchedule.status = "active"
<1>1. \A k \in Kinds : k.period \in Nat /\ k.notice \in Nat /\ k.late \in BOOLEAN
  BY KindsAssumption
<1>2. MaxBehind \in Nat /\ MaxAhead \in Nat BY CountsAssumption
<1>3. Days \subseteq Int /\ 0 \in Days BY <1>2 DEF Days
<1>4. (CHOOSE k \in Kinds : TRUE) \in Kinds BY KindsAssumption
<1>5. NoSchedule \in Schedule /\ NoSchedule.state = "none" /\ NoSchedule.status = "active"
  BY <1>3, <1>4 DEF NoSchedule, Schedule
<1>6. QED BY <1>1, <1>2, <1>3, <1>5

\* The UPDATE of a save: unless it writes the end alone, the run it leaves behind can still
\* be announced or counts as spoilt.
LEMMA StoreStep ==
    ASSUME ScheduleInv, NEW s \in Plans, NEW e \in Schedule, NEW fields \in SUBSET Fields,
           Store(s, e, fields), UNCHANGED <<phase, held>>,
           batch' = batch \/ (phase = "advancing" /\ batch' = batch \ {s})
    PROVE  /\ plan' \in [Plans -> Schedule]
           /\ announced' \in SUBSET Plans /\ spoilt' \in SUBSET Plans
           /\ RunInv'
<1> DEFINE x == [f \in Fields |-> IF f \in fields THEN e[f] ELSE plan[s][f]]
<1>1. /\ plan \in [Plans -> Schedule] /\ announced \in SUBSET Plans
      /\ spoilt \in SUBSET Plans
      /\ phase \in {"night", "advancing", "morning", "reminding", "day"}
  BY DEF ScheduleInv, ScheduleTypeOK
<1>2. /\ x \in Schedule
      /\ x.next = IF "next" \in fields THEN e.next ELSE plan[s].next
      /\ x.kind = IF "kind" \in fields THEN e.kind ELSE plan[s].kind
      /\ x.state = IF "state" \in fields THEN e.state ELSE plan[s].state
      /\ x.status = IF "status" \in fields THEN e.status ELSE plan[s].status
  BY <1>1, MixedType
<1>3. /\ plan' = [plan EXCEPT ![s] = x]
      /\ IF fields \subseteq {"end"}
           THEN UNCHANGED <<announced, spoilt>>
           ELSE /\ announced' = announced \ {s}
                /\ spoilt' = IF InTime(x) THEN spoilt \ {s} ELSE spoilt \cup {s}
  BY DEF Store
<1> HIDE DEF x
<1>4. plan'[s] = x /\ \A o \in Plans \ {s} : plan'[o] = plan[o] BY <1>1, <1>3
<1>5. \A o \in Plans \ {s} : o \in announced' \cup spoilt' <=> o \in announced \cup spoilt
  BY <1>3
<1>6. \A o \in Plans \ {s} : o \in batch' <=> o \in batch OBVIOUS
<1>7. RunInv'
  <2> SUFFICES ASSUME NEW o \in Plans, Active(o)' \/ (phase' = "advancing" /\ o \in batch')
               PROVE  o \in announced' \cup spoilt' \/ Announceable(o)'
    BY DEF RunInv
  <2>1. CASE o # s
    <3>1. Active(o)' => Active(o) BY <1>4, <2>1 DEF Active
    <3>2. o \in announced \cup spoilt \/ Announceable(o)
      BY <1>6, <2>1, <3>1 DEF ScheduleInv, RunInv
    <3>3. Announceable(o) => Announceable(o)'
      BY <1>4, <1>6, <2>1 DEF Announceable, AsHeld
    <3>4. QED BY <1>5, <2>1, <3>2, <3>3
  <2>2. CASE o = s /\ fields \subseteq {"end"}
    <3>1. x.next = plan[s].next /\ x.kind = plan[s].kind /\ x.state = plan[s].state
          /\ x.status = plan[s].status
      BY <1>2, <2>2
    <3>2. Active(s)' => Active(s) BY <1>4, <2>2, <3>1 DEF Active
    <3>3. s \in announced \cup spoilt \/ Announceable(s)
      BY <2>2, <3>2 DEF ScheduleInv, RunInv
    <3>4. Announceable(s) => Announceable(s)'
      BY <1>1, <1>4, <3>1 DEF Announceable, AsHeld
    <3>5. QED BY <1>3, <2>2, <3>3, <3>4
  <2>3. CASE o = s /\ ~(fields \subseteq {"end"})
    <3>1. CASE ~InTime(x) BY <1>3, <2>3, <3>1
    <3>2. CASE InTime(x)
      <4>1. x.kind.notice \in Nat /\ x.next \in Int BY <1>2, KindType DEF Schedule
      <4>2. Announceable(s)' BY <1>1, <1>4, <3>2, <4>1 DEF InTime, Announceable
      <4>3. QED BY <2>3, <4>2
    <3>3. QED BY <3>1, <3>2
  <2>4. QED BY <2>1, <2>2, <2>3
<1>8. plan' \in [Plans -> Schedule] BY <1>1, <1>2, <1>3
<1>9. announced' \in SUBSET Plans /\ spoilt' \in SUBSET Plans BY <1>1, <1>3
<1>10. QED BY <1>7, <1>8, <1>9

\* Steps that leave the rows, the jobs and what is recorded alone.
LEMMA RunsKept ==
    ASSUME ScheduleInv, UNCHANGED <<plan, phase, batch, held, saving, announced, spoilt>>
    PROVE  RunInv' /\ AdvanceInv'
BY DEF ScheduleInv, RunInv, AdvanceInv, Active, Announceable, AsHeld

\* Before the first schedule is created.
LEMMA InitScheduleInv == ScheduleInit => ScheduleInv
<1> SUFFICES ASSUME ScheduleInit PROVE ScheduleInv OBVIOUS
<1>1. ScheduleTypeOK
  BY KindType, CountsAssumption DEF ScheduleInit, ScheduleTypeOK, NotSaving, NoEditor, Fields
<1>2. RunInv
  BY KindType DEF ScheduleInit, RunInv, Active
<1>3. AdvanceInv BY DEF ScheduleInit, AdvanceInv
<1>4. EditorInv BY DEF ScheduleInit, EditorInv, NoEditor
<1>5. QED BY <1>1, <1>2, <1>3, <1>4 DEF ScheduleInv

\* Creating, editing and deleting.
LEMMA EditSteps ==
    ASSUME ScheduleInv, NEW s \in Plans,
           \/ \E kind \in Kinds, start \in Starts :
                  \/ \E end \in Ends : CreateSchedule(s, kind, start, end)
                  \/ Reschedule(s, kind, start)
           \/ \E kind \in Kinds, end \in Ends : UpdateSchedule(s, kind, end)
           \/ DeleteSchedule(s)
    PROVE  ScheduleInv'
<1>1. /\ plan \in [Plans -> Schedule] /\ plan[s] \in Schedule /\ edits \in 0..MaxEdits
      /\ MaxEdits \in Nat
  BY CountsAssumption DEF ScheduleInv, ScheduleTypeOK
<1>2. \A kind \in Kinds, start \in Starts : ComputeNextRunDate(start, kind) \in Days
  BY RoomAssumption DEF ComputeNextRunDate, Days
<1>3. \A end \in Ends : end \in Days \cup {NoEnd} BY RoomAssumption DEF Days
<1>4. Edit => edits' \in 0..MaxEdits BY <1>1 DEF Edit
<1>5. ASSUME NEW kind \in Kinds, NEW start \in Starts, NEW end \in Ends,
             CreateSchedule(s, kind, start, end)
      PROVE  ScheduleInv'
  <2> DEFINE e == [state |-> "live", status |-> "active",
                   next |-> ComputeNextRunDate(start, kind), end |-> end, kind |-> kind]
  <2>1. e \in Schedule BY <1>2, <1>3 DEF Schedule
  <2>2. /\ Store(s, e, Fields) /\ Edit
        /\ UNCHANGED <<phase, batch, held, saving, editor, faults>>
    BY <1>5 DEF CreateSchedule
  <2> HIDE DEF e
  <2>3. /\ plan' \in [Plans -> Schedule]
        /\ announced' \in SUBSET Plans /\ spoilt' \in SUBSET Plans
        /\ RunInv'
    BY <2>1, <2>2, StoreStep
  <2>4. AdvanceInv' BY <2>2 DEF ScheduleInv, AdvanceInv
  <2>5. ScheduleTypeOK' BY <1>4, <2>2, <2>3 DEF ScheduleInv, ScheduleTypeOK
  <2>6. EditorInv' BY <2>2 DEF ScheduleInv, EditorInv
  <2>7. QED BY <2>3, <2>4, <2>5, <2>6 DEF ScheduleInv
<1>6. ASSUME NEW e \in Schedule, LoadSchedule(s, e)
      PROVE  ScheduleInv'
  <2>1. /\ editor' = [at |-> "loaded", of |-> s, entity |-> e, fields |-> {}] /\ Edit
        /\ UNCHANGED <<plan, phase, batch, held, saving, faults, announced, spoilt>>
    BY <1>6 DEF LoadSchedule
  <2>2. ScheduleTypeOK' BY <1>4, <2>1 DEF ScheduleInv, ScheduleTypeOK
  <2>3. EditorInv' BY <2>1 DEF EditorInv
  <2>4. QED BY <2>1, <2>2, <2>3, RunsKept DEF ScheduleInv
<1>7. ASSUME NEW kind \in Kinds, NEW start \in Starts, Reschedule(s, kind, start)
      PROVE  ScheduleInv'
  <2>1. [plan[s] EXCEPT !.next = ComputeNextRunDate(start, kind), !.kind = kind] \in Schedule
    BY <1>1, <1>2 DEF Schedule
  <2>2. QED BY <1>6, <1>7, <2>1 DEF Reschedule
<1>8. ASSUME NEW kind \in Kinds, NEW end \in Ends, UpdateSchedule(s, kind, end)
      PROVE  ScheduleInv'
  <2>1. [plan[s] EXCEPT !.kind = kind, !.end = end] \in Schedule BY <1>1, <1>3 DEF Schedule
  <2>2. QED BY <1>6, <1>8, <2>1 DEF UpdateSchedule
<1>9. CASE DeleteSchedule(s)
  <2>1. /\ plan[s].state = "live" /\ Edit
        /\ plan' = [plan EXCEPT ![s].state = "deleted"]
        /\ UNCHANGED <<phase, batch, held, saving, editor, faults, announced, spoilt>>
    BY <1>9 DEF DeleteSchedule
  <2>2. /\ plan'[s] \in Schedule /\ plan'[s].state = "deleted"
        /\ plan'[s].next = plan[s].next /\ plan'[s].kind = plan[s].kind
        /\ \A o \in Plans \ {s} : plan'[o] = plan[o]
    BY <1>1, <2>1 DEF Schedule
  <2>3. plan' \in [Plans -> Schedule] BY <1>1, <2>1, <2>2
  <2>4. RunInv'
    <3> SUFFICES ASSUME NEW o \in Plans,
                        Active(o)' \/ (phase' = "advancing" /\ o \in batch')
                 PROVE  o \in announced' \cup spoilt' \/ Announceable(o)'
      BY DEF RunInv
    <3>1. Active(o) \/ (phase = "advancing" /\ o \in batch)
      BY <2>1, <2>2 DEF Active
    <3>2. Announceable(o) => Announceable(o)'
      <4>1. plan'[o].next = plan[o].next /\ plan'[o].kind = plan[o].kind BY <2>2
      <4>2. QED BY <2>1, <4>1 DEF Announceable, AsHeld
    <3>3. QED BY <2>1, <3>1, <3>2 DEF ScheduleInv, RunInv
  <2>5. AdvanceInv' BY <2>1 DEF ScheduleInv, AdvanceInv
  <2>6. ScheduleTypeOK' BY <1>4, <2>1, <2>3 DEF ScheduleInv, ScheduleTypeOK
  <2>7. EditorInv' BY <2>1 DEF ScheduleInv, EditorInv
  <2>8. QED BY <2>4, <2>5, <2>6, <2>7 DEF ScheduleInv
<1>10. QED BY <1>5, <1>7, <1>8, <1>9

\* The handler that edits goes on.
LEMMA SaveSteps ==
    ASSUME ScheduleInv, Saves
    PROVE  ScheduleInv'
<1>1. ScheduleTypeOK /\ EditorInv /\ NoEditor.at = "idle"
  BY DEF ScheduleInv, NoEditor
<1>2. CASE SelectSchedule
  <2>1. FieldsChanged(editor.entity, editor.of) \in SUBSET Fields BY DEF FieldsChanged
  <2>2. /\ editor' = [editor EXCEPT !.at = "selected",
                                   !.fields = FieldsChanged(editor.entity, editor.of)]
        /\ editor.at = "loaded"
        /\ UNCHANGED <<plan, phase, batch, held, saving, edits, faults, announced, spoilt>>
    BY <1>2 DEF SelectSchedule
  <2>3. ScheduleTypeOK' BY <1>1, <2>1, <2>2 DEF ScheduleTypeOK
  <2>4. EditorInv' BY <1>1, <2>2 DEF EditorInv, ScheduleTypeOK
  <2>5. QED BY <2>2, <2>3, <2>4, RunsKept DEF ScheduleInv
<1>3. CASE EditFails
  <2>1. /\ editor' = NoEditor
        /\ UNCHANGED <<plan, phase, batch, held, saving, edits, faults, announced, spoilt>>
    BY <1>3 DEF EditFails
  <2>2. ScheduleTypeOK' BY <1>1, <2>1, KindType DEF ScheduleTypeOK, NoEditor
  <2>3. EditorInv' BY <1>1, <2>1 DEF EditorInv
  <2>4. QED BY <2>1, <2>2, <2>3, RunsKept DEF ScheduleInv
<1>4. CASE CommitSchedule
  <2>1. /\ editor.at = "selected" /\ Store(editor.of, editor.entity, editor.fields)
        /\ editor' = NoEditor
        /\ UNCHANGED <<phase, batch, held, saving, edits, faults>>
    BY <1>4 DEF CommitSchedule
  <2>2. editor.entity \in Schedule /\ editor.fields \in SUBSET Fields
    BY <1>1 DEF ScheduleTypeOK
  <2>3. editor.of \in Plans BY <1>1, <2>1 DEF EditorInv
  <2>4. /\ plan' \in [Plans -> Schedule]
        /\ announced' \in SUBSET Plans /\ spoilt' \in SUBSET Plans
        /\ RunInv'
    BY <2>1, <2>2, <2>3, StoreStep
  <2>5. NoEditor \in [at : {"idle", "loaded", "selected"}, of : Plans \cup {NoPlan},
                      entity : Schedule, fields : SUBSET Fields]
    BY KindType DEF NoEditor
  <2>6. ScheduleTypeOK' BY <1>1, <2>1, <2>4, <2>5 DEF ScheduleTypeOK
  <2>7. AdvanceInv' BY <2>1 DEF ScheduleInv, AdvanceInv
  <2>8. EditorInv' BY <1>1, <2>1 DEF EditorInv
  <2>9. QED BY <2>4, <2>6, <2>7, <2>8 DEF ScheduleInv
<1>5. QED BY <1>2, <1>3, <1>4 DEF Saves

\* A job begins: it loads rows as they are.
LEMMA BeginStep ==
    ASSUME ScheduleInv, NEW loaded \in SUBSET Plans, NEW from, NEW to, Begin(from, to, loaded),
           \/ from = "night" /\ to = "advancing" /\ loaded = {s \in Plans : Due(s)}
           \/ from = "morning" /\ to = "reminding" /\ loaded = {s \in Plans : Active(s)}
    PROVE  ScheduleInv'
<1>1. /\ phase = from /\ phase' = to /\ batch' = loaded
      /\ held' = [s \in Plans |-> IF s \in loaded THEN plan[s] ELSE NoSchedule]
      /\ UNCHANGED <<plan, saving, editor, edits, faults, announced, spoilt>>
  BY DEF Begin
<1>2. plan \in [Plans -> Schedule] BY DEF ScheduleInv, ScheduleTypeOK
<1>3. \A s \in loaded : held'[s] = plan[s] BY <1>1
<1>4. ScheduleTypeOK'
  <2>1. held' \in [Plans -> Schedule] BY <1>1, <1>2, KindType
  <2>2. QED BY <1>1, <2>1 DEF ScheduleInv, ScheduleTypeOK
<1>5. RunInv'
  <2> SUFFICES ASSUME NEW s \in Plans, Active(s)' \/ (phase' = "advancing" /\ s \in batch')
               PROVE  s \in announced' \cup spoilt' \/ Announceable(s)'
    BY DEF RunInv
  <2>1. Active(s) BY <1>1 DEF Due, Active
  <2>2. s \in announced \cup spoilt \/ Announceable(s) BY <2>1 DEF ScheduleInv, RunInv
  <2>3. plan[s].next \in Int /\ plan[s].kind.notice \in Nat
    BY <1>2, KindType DEF Schedule
  <2>4. Announceable(s) => Announceable(s)'
    BY <1>1, <1>3, <2>1, <2>3 DEF Announceable, AsHeld
  <2>5. QED BY <1>1, <2>2, <2>4
<1>6. AdvanceInv'
  <2>1. saving' = NotSaving BY <1>1 DEF ScheduleInv, AdvanceInv
  <2>2. ASSUME phase' = "advancing", NEW s \in batch'
        PROVE  held'[s].next <= 0 /\ (held'[s].next = 0 => ~held'[s].kind.late)
    <3>1. Due(s) /\ held'[s] = plan[s] BY <1>1, <1>3, <2>2
    <3>2. plan[s].next \in Int BY <1>1, <1>2, <2>2, KindType DEF Schedule
    <3>3. QED BY <3>1, <3>2 DEF Due
  <2>3. QED BY <2>1, <2>2 DEF AdvanceInv
<1>7. EditorInv' BY <1>1 DEF ScheduleInv, EditorInv
<1>8. QED BY <1>4, <1>5, <1>6, <1>7 DEF ScheduleInv

\* The 00:30 job saves a schedule.
LEMMA AdvanceSteps ==
    ASSUME ScheduleInv, AdvanceCommit \/ \E s \in Plans : AdvanceSelect(s)
    PROVE  ScheduleInv'
<1>1. ScheduleTypeOK /\ AdvanceInv /\ EditorInv BY DEF ScheduleInv
<1>2. ASSUME NEW s \in Plans, AdvanceSelect(s)
      PROVE  ScheduleInv'
  <2>1. FieldsChanged(Advanced(held[s]), s) \in SUBSET Fields BY DEF FieldsChanged
  <2>2. /\ phase = "advancing" /\ s \in batch
        /\ saving' = [of |-> s, fields |-> FieldsChanged(Advanced(held[s]), s)]
        /\ UNCHANGED <<plan, phase, batch, held, editor, edits, faults, announced, spoilt>>
    BY <1>2 DEF AdvanceSelect
  <2>3. ScheduleTypeOK' BY <1>1, <2>1, <2>2 DEF ScheduleTypeOK
  <2>4. RunInv' BY <2>2 DEF ScheduleInv, RunInv, Active, Announceable, AsHeld
  <2>5. AdvanceInv' BY <1>1, <2>2 DEF AdvanceInv
  <2>6. EditorInv' BY <1>1, <2>2 DEF EditorInv
  <2>7. QED BY <2>3, <2>4, <2>5, <2>6 DEF ScheduleInv
<1>3. CASE AdvanceCommit
  <2> DEFINE s == saving.of
  <2>1. /\ saving # NotSaving
        /\ Store(s, Advanced(held[s]), saving.fields)
        /\ batch' = batch \ {s} /\ saving' = NotSaving
        /\ UNCHANGED <<phase, held, editor, edits, faults>>
    BY <1>3 DEF AdvanceCommit
  <2>2. phase = "advancing" /\ s \in batch /\ s \in Plans
    BY <1>1, <2>1 DEF AdvanceInv, ScheduleTypeOK
  <2>3. saving.fields \in SUBSET Fields BY <1>1 DEF ScheduleTypeOK
  <2>4. Advanced(held[s]) \in Schedule
    <3>1. held[s] \in Schedule /\ held[s].next <= 0
      BY <1>1, <2>2 DEF ScheduleTypeOK, AdvanceInv
    <3>2. /\ held[s].next \in -MaxBehind..MaxAhead /\ held[s].kind.period \in Nat
          /\ held[s].kind.period <= MaxAhead
      BY <3>1, KindType, RoomAssumption DEF Schedule, Days
    <3>3. ComputeNextRunDate(held[s].next, held[s].kind) \in Days
      BY <3>1, <3>2, KindType DEF ComputeNextRunDate, Days
    <3>4. QED BY <3>1, <3>3 DEF Advanced, Schedule
  <2>5. /\ plan' \in [Plans -> Schedule]
        /\ announced' \in SUBSET Plans /\ spoilt' \in SUBSET Plans
        /\ RunInv'
    BY <2>1, <2>2, <2>3, <2>4, StoreStep
  <2>6. NotSaving \in [of : Plans \cup {NoPlan}, fields : SUBSET Fields] BY DEF NotSaving
  <2>7. ScheduleTypeOK' BY <1>1, <2>1, <2>5, <2>6 DEF ScheduleTypeOK
  <2>8. AdvanceInv' BY <1>1, <2>1 DEF AdvanceInv
  <2>9. EditorInv' BY <1>1, <2>1 DEF EditorInv
  <2>10. QED BY <2>5, <2>7, <2>8, <2>9 DEF ScheduleInv
<1>4. QED BY <1>2, <1>3

\* A job ends.
LEMMA EndStep ==
    ASSUME ScheduleInv, NEW from, NEW to, End(from, to), faults' \in 0..MaxFaults,
           \/ from = "advancing" /\ to = "morning" /\ spoilt' = spoilt
           \/ from = "reminding" /\ to = "day"
              /\ spoilt' = spoilt \cup {s \in batch : plan[s].next = plan[s].kind.notice}
    PROVE  ScheduleInv'
<1>1. ScheduleTypeOK /\ RunInv /\ EditorInv BY DEF ScheduleInv
<1>2. /\ phase = from /\ phase' = to /\ batch' = {} /\ saving' = NotSaving
      /\ held' = [s \in Plans |-> NoSchedule]
      /\ UNCHANGED <<plan, editor, edits, announced>>
  BY DEF End
<1>3. ScheduleTypeOK'
  <2>1. NotSaving \in [of : Plans \cup {NoPlan}, fields : SUBSET Fields] BY DEF NotSaving
  <2>2. held' \in [Plans -> Schedule] BY <1>2, KindType
  <2>3. spoilt' \in SUBSET Plans BY <1>1 DEF ScheduleTypeOK
  <2>4. phase' \in {"night", "advancing", "morning", "reminding", "day"} BY <1>2
  <2>5. QED BY <1>1, <1>2, <2>1, <2>2, <2>3, <2>4 DEF ScheduleTypeOK
<1>4. RunInv'
  <2> SUFFICES ASSUME NEW s \in Plans, Active(s)' \/ (phase' = "advancing" /\ s \in batch')
               PROVE  s \in announced' \cup spoilt' \/ Announceable(s)'
    BY DEF RunInv
  <2>1. Active(s) BY <1>2 DEF Active
  <2>2. s \in announced \cup spoilt \/ Announceable(s) BY <1>1, <2>1 DEF RunInv
  <2>3. plan[s].next \in Int /\ plan[s].kind.notice \in Nat
    BY <1>1, KindType DEF Schedule, ScheduleTypeOK
  <2>4. Announceable(s) => Announceable(s)' \/ s \in spoilt'
    BY <1>2, <2>3 DEF Announceable
  <2>5. QED BY <1>2, <2>2, <2>4
<1>5. AdvanceInv' BY <1>2 DEF AdvanceInv
<1>6. EditorInv' BY <1>1, <1>2 DEF EditorInv
<1>7. QED BY <1>3, <1>4, <1>5, <1>6 DEF ScheduleInv

\* The 08:00 job handles a schedule.
LEMMA RemindStep ==
    ASSUME ScheduleInv, NEW o \in Plans, Remind(o)
    PROVE  ScheduleInv'
<1>1. ScheduleTypeOK /\ RunInv /\ AdvanceInv /\ EditorInv BY DEF ScheduleInv
<1>2. /\ phase = "reminding" /\ o \in batch /\ batch' = batch \ {o}
      /\ announced' = IF Remindable(held[o]) /\ AsHeld(o) THEN announced \cup {o} ELSE announced
      /\ UNCHANGED <<plan, phase, held, saving, editor, edits, faults, spoilt>>
  BY DEF Remind
<1>3. ScheduleTypeOK' BY <1>1, <1>2 DEF ScheduleTypeOK
<1>4. RunInv'
  <2> SUFFICES ASSUME NEW s \in Plans, Active(s)' \/ (phase' = "advancing" /\ s \in batch')
               PROVE  s \in announced' \cup spoilt' \/ Announceable(s)'
    BY DEF RunInv
  <2>1. Active(s) BY <1>2 DEF Active
  <2>2. s \in announced \cup spoilt \/ Announceable(s) BY <1>1, <2>1 DEF RunInv
  <2>3. CASE s # o
    <3>1. Announceable(s) => Announceable(s)' BY <1>2, <2>3 DEF Announceable, AsHeld
    <3>2. QED BY <1>2, <2>2, <3>1
  <2>4. CASE s = o
    <3>1. CASE Announceable(o) /\ plan[o].next > plan[o].kind.notice
      <4>1. Announceable(o)' BY <1>2, <3>1 DEF Announceable
      <4>2. QED BY <2>4, <4>1
    <3>2. CASE Announceable(o) /\ ~(plan[o].next > plan[o].kind.notice)
      <4>1. plan[o].next \in Int /\ plan[o].kind.notice \in Nat
        BY <1>1, KindType DEF Schedule, ScheduleTypeOK
      <4>2. plan[o].next = plan[o].kind.notice /\ AsHeld(o)
        BY <1>2, <3>2, <4>1 DEF Announceable
      <4>3. Remindable(held[o]) BY <4>2 DEF Remindable, AsHeld
      <4>4. QED BY <1>2, <2>4, <4>2, <4>3
    <3>3. QED BY <1>2, <2>2, <2>4, <3>1, <3>2
  <2>5. QED BY <2>3, <2>4
<1>5. AdvanceInv' BY <1>1, <1>2 DEF AdvanceInv
<1>6. EditorInv' BY <1>1, <1>2 DEF EditorInv
<1>7. QED BY <1>3, <1>4, <1>5, <1>6 DEF ScheduleInv

\* A day passes.
LEMMA MidnightStep ==
    ASSUME ScheduleInv, Midnight
    PROVE  ScheduleInv'
<1>1. ScheduleTypeOK /\ RunInv /\ AdvanceInv /\ EditorInv BY DEF ScheduleInv
<1>2. /\ phase = "day" /\ phase' = "night"
      /\ plan' = [s \in Plans |-> IF plan[s].state = "live"
                                     THEN [plan[s] EXCEPT !.next = Earlier(@), !.end = Earlier(@)]
                                     ELSE plan[s]]
      /\ UNCHANGED <<batch, held, saving, editor, edits, faults, announced, spoilt>>
  BY DEF Midnight
<1>3. \A day \in Days : Earlier(day) \in Days
  BY KindType, PlansAssumption DEF Earlier, Days
<1>4. Earlier(NoEnd) = NoEnd BY DEF Earlier
<1>5. ASSUME NEW s \in Plans
      PROVE  /\ plan'[s] \in Schedule
             /\ plan'[s].state = plan[s].state /\ plan'[s].status = plan[s].status
             /\ plan'[s].kind = plan[s].kind
             /\ plan[s].state = "live" => plan'[s].next = Earlier(plan[s].next)
  <2>1. plan[s] \in Schedule BY <1>1 DEF ScheduleTypeOK
  <2>2. CASE plan[s].state = "live"
    <3>1. plan'[s] = [plan[s] EXCEPT !.next = Earlier(plan[s].next), !.end = Earlier(plan[s].end)]
      BY <1>2, <2>2
    <3>2. Earlier(plan[s].next) \in Days /\ Earlier(plan[s].end) \in Days \cup {NoEnd}
      BY <1>3, <1>4, <2>1 DEF Schedule
    <3>3. QED BY <2>1, <3>1, <3>2 DEF Schedule
  <2>3. CASE plan[s].state # "live"
    BY <1>2, <2>1, <2>3
  <2>4. QED BY <2>2, <2>3
<1>6. ScheduleTypeOK'
  <2>1. plan' \in [Plans -> Schedule] BY <1>2, <1>5
  <2>2. QED BY <1>1, <1>2, <2>1 DEF ScheduleTypeOK
<1>7. RunInv'
  <2> SUFFICES ASSUME NEW s \in Plans, Active(s)' \/ (phase' = "advancing" /\ s \in batch')
               PROVE  s \in announced' \cup spoilt' \/ Announceable(s)'
    BY DEF RunInv
  <2>1. Active(s) BY <1>2, <1>5 DEF Active
  <2>2. s \in announced \cup spoilt \/ Announceable(s) BY <1>1, <2>1 DEF RunInv
  <2>3. plan[s].next \in Days /\ plan[s].kind \in Kinds
    BY <1>1 DEF ScheduleTypeOK, Schedule
  <2>4. plan[s].next \in Int /\ plan[s].kind.notice \in Nat /\ MaxBehind \in Nat
    BY <2>3, KindType
  <2>5. plan'[s].next = Earlier(plan[s].next) /\ plan'[s].kind = plan[s].kind
    BY <1>5, <2>1 DEF Active
  <2>6. ASSUME Announceable(s)
        PROVE  Announceable(s)'
    <3>1. plan[s].next > plan[s].kind.notice BY <1>2, <2>6 DEF Announceable
    <3>2. Earlier(plan[s].next) = plan[s].next - 1
      BY <2>4, <3>1, PlansAssumption DEF Earlier
    <3>3. plan[s].next - 1 >= plan[s].kind.notice BY <2>4, <3>1
    <3>4. (plan[s].kind.notice > 0 \/ plan[s].kind.late)'
      BY <2>5, <2>6 DEF Announceable
    <3>5. (plan[s].next >= plan[s].kind.notice)' BY <2>5, <3>2, <3>3
    <3>6. (phase \notin {"reminding", "day"})' BY <1>2
    <3>7. QED BY <3>4, <3>5, <3>6 DEF Announceable
  <2>7. QED BY <1>2, <2>2, <2>6
<1>8. AdvanceInv' BY <1>1, <1>2 DEF AdvanceInv
<1>9. EditorInv' BY <1>1, <1>2 DEF EditorInv
<1>10. QED BY <1>6, <1>7, <1>8, <1>9 DEF ScheduleInv

\* Every step of the schedules.
LEMMA NextScheduleInv == ScheduleInv /\ [ScheduleNext]_scheduleVars => ScheduleInv'
<1> SUFFICES ASSUME ScheduleInv, [ScheduleNext]_scheduleVars
             PROVE  ScheduleInv'
  OBVIOUS
<1>1. CASE UNCHANGED scheduleVars
  BY <1>1 DEF scheduleVars, ScheduleInv, ScheduleTypeOK, RunInv, AdvanceInv, EditorInv,
              Active, Announceable, AsHeld
<1>2. CASE AdvanceRecurringSchedules
  <2>1. {s \in Plans : Due(s)} \in SUBSET Plans OBVIOUS
  <2>2. QED BY <1>2, <2>1, BeginStep DEF AdvanceRecurringSchedules
<1>3. CASE SendUpcomingReminders
  <2>1. {s \in Plans : Active(s)} \in SUBSET Plans OBVIOUS
  <2>2. QED BY <1>3, <2>1, BeginStep DEF SendUpcomingReminders
<1>4. faults \in 0..MaxFaults /\ MaxFaults \in Nat
  BY CountsAssumption DEF ScheduleInv, ScheduleTypeOK
<1>5. CASE AdvanceEnds
  BY <1>4, <1>5, EndStep DEF AdvanceEnds
<1>6. CASE AdvanceFails
  <2>1. faults' \in 0..MaxFaults BY <1>4, <1>6 DEF AdvanceFails
  <2>2. QED BY <1>6, <2>1, EndStep DEF AdvanceFails
<1>7. CASE RemindEnds
  <2>1. spoilt' = spoilt \cup {s \in batch : plan[s].next = plan[s].kind.notice}
    BY <1>7 DEF RemindEnds
  <2>2. QED BY <1>4, <1>7, <2>1, EndStep DEF RemindEnds
<1>8. CASE RemindFails
  <2>1. faults' \in 0..MaxFaults BY <1>4, <1>8 DEF RemindFails
  <2>2. QED BY <1>8, <2>1, EndStep DEF RemindFails
<1>9. CASE AdvanceCommit \/ \E s \in Plans : AdvanceSelect(s)
  BY <1>9, AdvanceSteps
<1>10. CASE \E s \in Plans : Remind(s)
  BY <1>10, RemindStep
<1>11. CASE Saves
  BY <1>11, SaveSteps
<1>12. CASE Midnight
  BY <1>12, MidnightStep
<1>13. CASE \E s \in Plans :
               \/ \E kind \in Kinds, start \in Starts :
                      \/ \E end \in Ends : CreateSchedule(s, kind, start, end)
                      \/ Reschedule(s, kind, start)
               \/ \E kind \in Kinds, end \in Ends : UpdateSchedule(s, kind, end)
               \/ DeleteSchedule(s)
  BY <1>13, EditSteps
<1>14. QED
  BY <1>1, <1>2, <1>3, <1>5, <1>6, <1>7, <1>8, <1>9, <1>10, <1>11, <1>12, <1>13
  DEF ScheduleNext, Jobs

\* The inductive invariant, for any number of schedules and any kinds of them.
THEOREM ScheduleInvariance == ScheduleSpec => []ScheduleInv
BY InitScheduleInv, NextScheduleInv, PTL DEF ScheduleSpec

\* What the nightly job leaves behind.
LEMMA AdvancedRunAnnounced ==
    ASSUME ScheduleInv, NEW s \in Plans, AdvanceCommit, saving.of = s, AsHeld(s)
    PROVE  s \in announced \cup spoilt
<1>1. saving # NotSaving BY DEF AdvanceCommit
<1>2. phase = "advancing" /\ s \in batch BY <1>1 DEF ScheduleInv, AdvanceInv
<1>3. held[s].next <= 0 /\ (held[s].next = 0 => ~held[s].kind.late)
  BY <1>2 DEF ScheduleInv, AdvanceInv
<1>4. held[s].next \in Int /\ held[s].kind.notice \in Nat
  BY KindType DEF ScheduleInv, ScheduleTypeOK, Schedule
<1>5. ~Announceable(s) BY <1>3, <1>4 DEF Announceable, AsHeld
<1>6. QED BY <1>2, <1>5 DEF ScheduleInv, RunInv

\* The run that advanceRecurringSchedules leaves behind has been announced, or there is one
\* of the named reasons why not: whatever the periods and notices, however many schedules
\* there are, and wherever updates fall between the two jobs.
THEOREM RunsAreAnnounced == ScheduleSpec => RunsAnnounced
<1>1. ScheduleInv /\ [ScheduleNext]_scheduleVars =>
        [\A s \in Plans : AdvanceCommit /\ saving.of = s /\ "next" \in saving.fields
                              /\ AsHeld(s) => s \in announced \cup spoilt]_scheduleVars
  BY AdvancedRunAnnounced
<1>2. QED BY <1>1, ScheduleInvariance, PTL DEF ScheduleSpec, RunsAnnounced

-----------------------------------------------------------------------------
(* Monthly runs.                                                           *)

\* The inductive invariant: dates are dates, and the runs slip as MonthlyRunsSlip says.
MonthlyInv ==
    /\ first \in [month : Nat, day : Nat]
    /\ interval \in Nat \ {0}
    /\ run \in [month : Nat, day : Nat]
    /\ runs \in Nat
    /\ MonthlyRunsSlip

\* A month has 28 to 31 days.
LEMMA MonthsHaveDays ==
    ASSUME NEW m \in Nat PROVE DaysInMonth(m) \in 28..31
  BY DEF DaysInMonth

\* A month number after another, nobody multiplies again below.
LEMMA NextMonth ==
    ASSUME NEW j \in Nat, MonthlyInv PROVE MonthOf(j) \in Nat /\ MonthOf(j + 1) = MonthOf(j) + interval
<1>1. interval \in Nat /\ first.month \in Nat
  BY DEF MonthlyInv
<1>2. (j + 1) * interval = j * interval + interval /\ j * interval \in Nat
  BY <1>1
<1> QED  BY <1>1, <1>2 DEF MonthOf

\* The run a schedule is created with.
LEMMA InitMonthlyInv == MonthlyInit => MonthlyInv
<1> SUFFICES ASSUME MonthlyInit PROVE MonthlyInv
  OBVIOUS
<1>1. PICK month \in 0..47 : \E day \in 1..DaysInMonth(month) : first = [month |-> month, day |-> day]
  BY DEF MonthlyInit
<1>2. DaysInMonth(month) \in 28..31
  BY MonthsHaveDays
<1>3. PICK day \in 1..DaysInMonth(month) : first = [month |-> month, day |-> day]
  BY <1>1
<1>4. /\ first \in [month : Nat, day : Nat] /\ run = first /\ runs = 0
      /\ interval \in Nat \ {0}
  BY <1>2, <1>3, MonthsAssumption DEF MonthlyInit
<1>5. MonthOf(0) = month /\ 0..0 = {0}
  BY <1>3, <1>4 DEF MonthOf
<1>6. MonthlyRunsSlip
  BY <1>2, <1>3, <1>4, <1>5 DEF MonthlyRunsSlip
<1> QED  BY <1>4, <1>6 DEF MonthlyInv

\* Every further run.
LEMMA NextMonthlyInv == MonthlyInv /\ [ComputeMonthly]_monthlyVars => MonthlyInv'
<1> SUFFICES ASSUME MonthlyInv, [ComputeMonthly]_monthlyVars PROVE MonthlyInv'
  OBVIOUS
<1>1. CASE UNCHANGED monthlyVars
  BY <1>1 DEF MonthlyInv, monthlyVars, MonthlyRunsSlip, MonthOf
<1>2. CASE ComputeMonthly
  <2> DEFINE length == DaysInMonth(MonthOf(runs + 1))
  <2>1. /\ MonthOf(runs + 1) = run.month + interval
        /\ MonthOf(runs + 1) \in Nat
        /\ \A j \in Nat : MonthOf(j)' = MonthOf(j)
    BY <1>2, NextMonth DEF MonthlyInv, MonthlyRunsSlip, ComputeMonthly, MonthOf
  <2>2. length \in 28..31
    BY <2>1, MonthsHaveDays
  <2>3. /\ run' = [month |-> MonthOf(runs + 1), day |-> Lesser(run.day, length)]
        /\ runs' = runs + 1 /\ first' = first /\ interval' = interval
    BY <1>2, <2>1 DEF ComputeMonthly, AddMonths
  <2>4. /\ run'.day \in Nat /\ run'.day <= run.day /\ run'.day <= length
        /\ run'.day = run.day \/ run'.day = length
    BY <2>2, <2>3 DEF Lesser, MonthlyInv
  <2>5. \A j \in 0..runs' : DaysInMonth(MonthOf(j)) \in 28..31
    BY MonthsHaveDays, NextMonth, <2>3 DEF MonthlyInv
  <2>6. \A j \in 0..runs' : j \in 0..runs \/ j = runs + 1
    BY <2>3 DEF MonthlyInv
  <2> HIDE DEF length
  <2>7. \A j \in 0..runs' : run'.day <= DaysInMonth(MonthOf(j))
    <3> SUFFICES ASSUME NEW j \in 0..runs' PROVE run'.day <= DaysInMonth(MonthOf(j))
      OBVIOUS
    <3>1. CASE j \in 0..runs
      <4>1. run.day <= DaysInMonth(MonthOf(j))
        BY <3>1 DEF MonthlyInv, MonthlyRunsSlip
      <4> QED  BY <4>1, <2>4, <2>5 DEF MonthlyInv
    <3>2. CASE j = runs + 1
      BY <3>2, <2>4 DEF length
    <3> QED  BY <3>1, <3>2, <2>6
  <2>8. run'.day = first.day \/ \E j \in 0..runs' : run'.day = DaysInMonth(MonthOf(j))
    <3>1. CASE run'.day = length
      <4>1. runs + 1 \in 0..runs'
        BY <2>3 DEF MonthlyInv
      <4> QED  BY <3>1, <4>1 DEF length
    <3>2. CASE run'.day = run.day
      <4>1. 0..runs \subseteq 0..runs'
        BY <2>3 DEF MonthlyInv
      <4> QED  BY <3>2, <4>1 DEF MonthlyInv, MonthlyRunsSlip
    <3> QED  BY <2>4, <3>1, <3>2
  <2>9. run'.month = MonthOf(runs)' /\ run'.day <= first'.day
    <3>1. MonthOf(runs)' = MonthOf(runs + 1)
      BY <2>3 DEF MonthOf
    <3>2. run.day <= first.day /\ run.day \in Nat /\ first.day \in Nat
      BY DEF MonthlyInv, MonthlyRunsSlip
    <3> QED  BY <3>1, <3>2, <2>3, <2>4
  <2>10. MonthlyRunsSlip'
    <3>1. \A j : MonthOf(j)' = first'.month + j * interval'
      BY DEF MonthOf
    <3>2. \A j \in 0..runs' : first'.month + j * interval' = MonthOf(j)
      BY <2>3 DEF MonthOf
    <3> QED  BY <2>3, <2>7, <2>8, <2>9, <3>2 DEF MonthlyRunsSlip, MonthOf
  <2> QED  BY <2>1, <2>3, <2>4, <2>10 DEF MonthlyInv
<1> QED  BY <1>1, <1>2

\* Every period has its run, on the starting day or the last of the shortest month so far,
\* whatever the interval and however many runs (computeNextRunDate).
THEOREM RunsSlip == MonthlySpec => []MonthlyRunsSlip
<1>1. MonthlyInv => MonthlyRunsSlip
  BY DEF MonthlyInv
<1> QED  BY <1>1, InitMonthlyInv, NextMonthlyInv, PTL DEF MonthlySpec

-----------------------------------------------------------------------------
(* The three side by side.                                                 *)

\* The types of notifications and of schedules hold whichever of the three parts the
\* behaviour is about.
THEOREM TypesHold == AllSpec => []TypesOK
<1>1. AllInit => IInv /\ ScheduleInv
  BY InitIInv, InitScheduleInv DEF AllInit
<1>2. /\ IInv /\ ScheduleInv
      /\ [Notifying \/ Scheduling(ScheduleNext) \/ Slipping \/ LastRun]_allVars
      => (IInv /\ ScheduleInv)'
  <2>1. [Notifying \/ Scheduling(ScheduleNext) \/ Slipping \/ LastRun]_allVars
          => [Next]_vars /\ [ScheduleNext]_scheduleVars
    BY DEF Notifying, Scheduling, Slipping, LastRun, allVars
  <2>2. QED
    BY <2>1, NextIInv, NextScheduleInv
<1>3. IInv /\ ScheduleInv => TypesOK
  BY DEF IInv, ScheduleInv, TypesOK
<1>4. QED
  BY <1>1, <1>2, <1>3, PTL DEF AllSpec

=============================================================================
