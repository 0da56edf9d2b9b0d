----------------------------- MODULE Schedules -----------------------------
(***************************************************************************)
(* Maintenance schedules and their two daily jobs (maintenance.service.ts, *)
(* maintenance_background_service.ts): at 00:30 one moves the schedules    *)
(* whose run is due to their next run, at 08:00 one announces the runs     *)
(* that are as many days away as the schedule asks notice for.             *)
(*                                                                         *)
(* A date is the number of days until it, as in ContractLifecycle.  A run  *)
(* is late if its time of day is after 00:30: it is due a night later.     *)
(* Both jobs load all their schedules first and handle them one after      *)
(* another; an error ends the job.  One user edits at a time: overlapping  *)
(* saves of users are what WorkOrders is about.                            *)
(***************************************************************************)
EXTENDS Integers

CONSTANTS
    Plans,       \* identities of schedules
    NoPlan,
    Kinds,       \* what users ask for: period in days (0: once), notice in days, late or not
    Starts,      \* days from now at which users let schedules begin
    Ends,        \* ... and end
    NoEnd,
    MaxBehind,   \* bound: days a date is remembered to be past
    MaxAhead,    \* bound: days a run is ahead
    MaxEdits,    \* bound: creations, updates and deletions
    MaxFaults    \* bound: jobs that end early

ASSUME PlansAssumption  == NoPlan \notin Plans /\ NoEnd \notin Int
ASSUME DatesAssumption  == Starts \subseteq Int /\ Ends \subseteq Int \cup {NoEnd}
ASSUME KindsAssumption  == Kinds \subseteq [period : Nat, notice : Nat, late : BOOLEAN] /\ Kinds # {}
ASSUME CountsAssumption == {MaxBehind, MaxAhead, MaxEdits, MaxFaults} \subseteq Nat
\* The bounds on dates leave room for every first run and for one period from today.
ASSUME RoomAssumption ==
    /\ \A kind \in Kinds : kind.period <= MaxAhead
    /\ \A kind \in Kinds, start \in Starts : start + kind.period \in -MaxBehind..MaxAhead
    /\ Ends \subseteq (-MaxBehind..MaxAhead) \cup {NoEnd}

VARIABLES
    plan,        \* the maintenance_schedules table
    phase,       \* which job the day has come to
    batch,       \* schedules the job has still to handle
    held,        \* the rows it has loaded
    saving,      \* the schedule it is saving, and the columns to be written
    editor,      \* the handler in flight
    edits,       \* creations, updates and deletions so far
    faults,      \* jobs that ended early
    announced,   \* history: schedules whose next run has been announced
    spoilt       \* history: schedules set too late to announce their next run, or whose
                 \* announcement failed

scheduleVars == <<plan, phase, batch, held, saving, editor, edits, faults, announced, spoilt>>

Days == -MaxBehind..MaxAhead

Schedule == [state : {"none", "live", "deleted"}, status : {"active", "completed"},
             next : Days, end : Days \cup {NoEnd}, kind : Kinds]

NoSchedule == [state |-> "none", status |-> "active", next |-> 0, end |-> NoEnd,
               kind |-> CHOOSE k \in Kinds : TRUE]

Fields == {"state", "status", "next", "end", "kind"}

NotSaving == [of |-> NoPlan, fields |-> {}]
NoEditor  == [at |-> "idle", of |-> NoPlan, entity |-> NoSchedule, fields |-> {}]

ScheduleInit ==
    /\ plan      = [s \in Plans |-> NoSchedule]
    /\ phase     = "night"
    /\ batch     = {}
    /\ held      = plan
    /\ saving    = NotSaving
    /\ editor    = NoEditor
    /\ edits     = 0
    /\ faults    = 0
    /\ announced = {}
    /\ spoilt    = {}

\* Mutant of ComputeNextRunDate: recurrenceInterval is not looked at.
MutIntervalOne(base, kind) == IF kind.period = 0 THEN base ELSE base + 1

\* Mutant of ComputeNextRunDate: the period is added twice.
MutTwice(base, kind) == base + 2 * kind.period

ComputeNextRunDate(base, kind) == base + kind.period

\* The run can still be announced: its day of notice has not come, or has come and the
\* 08:00 job has not, and 00:30 will not move the schedule on before.
InTime(row) ==
    /\ row.kind.notice > 0 \/ row.kind.late
    /\ IF phase \in {"night", "advancing", "morning"} THEN row.next >= row.kind.notice
                                                      ELSE row.next > row.kind.notice

\* The UPDATE of a save of entity e: the fields that differed, and what it means for the
\* announcement of the next run.
Store(s, e, fields) ==
    LET row == [f \in Fields |-> IF f \in fields THEN e[f] ELSE plan[s][f]]
    IN  /\ plan' = [plan EXCEPT ![s] = row]
        /\ IF fields \subseteq {"end"}
             THEN UNCHANGED <<announced, spoilt>>
             ELSE /\ announced' = announced \ {s}
                  /\ spoilt' = IF InTime(row) THEN spoilt \ {s} ELSE spoilt \cup {s}

FieldsChanged(e, s) == {f \in Fields : e[f] # plan[s][f]}

-----------------------------------------------------------------------------
(* Creating, editing and deleting.                                         *)

Edit == edits < MaxEdits /\ edits' = edits + 1

\* createSchedule, and createWorkOrder for a recurring order.
CreateSchedule(s, kind, start, end) ==
    /\ plan[s].state = "none" /\ Edit
    /\ Store(s, [state |-> "live", status |-> "active", next |-> ComputeNextRunDate(start, kind),
                 end |-> end, kind |-> kind], Fields)
    /\ UNCHANGED <<phase, batch, held, saving, editor, faults>>

LoadSchedule(s, entity) ==
    /\ plan[s].state = "live" /\ editor = NoEditor /\ Edit
    /\ editor' = [at |-> "loaded", of |-> s, entity |-> entity, fields |-> {}]
    /\ UNCHANGED <<plan, phase, batch, held, saving, faults, announced, spoilt>>

\* updateSchedule with a new start or recurrence computes the next run anew ...
Reschedule(s, kind, start) ==
    LoadSchedule(s, [plan[s] EXCEPT !.next = ComputeNextRunDate(start, kind), !.kind = kind])

\* ... and leaves it as it was loaded otherwise: another end, another notice.
UpdateSchedule(s, kind, end) ==
    /\ kind.period = plan[s].kind.period /\ kind.late = plan[s].kind.late
    /\ LoadSchedule(s, [plan[s] EXCEPT !.kind = kind, !.end = end])

SelectSchedule ==
    /\ editor.at = "loaded"
    /\ editor' = [editor EXCEPT !.at = "selected", !.fields = FieldsChanged(editor.entity, editor.of)]
    /\ UNCHANGED <<plan, phase, batch, held, saving, edits, faults, announced, spoilt>>

CommitSchedule ==
    /\ editor.at = "selected"
    /\ Store(editor.of, editor.entity, editor.fields)
    /\ editor' = NoEditor
    /\ UNCHANGED <<phase, batch, held, saving, edits, faults>>

\* deleteSchedule.
DeleteSchedule(s) ==
    /\ plan[s].state = "live" /\ Edit
    /\ plan' = [plan EXCEPT ![s].state = "deleted"]
    /\ UNCHANGED <<phase, batch, held, saving, editor, faults, announced, spoilt>>

EditFails ==
    /\ editor # NoEditor
    /\ editor' = NoEditor
    /\ UNCHANGED <<plan, phase, batch, held, saving, edits, faults, announced, spoilt>>

-----------------------------------------------------------------------------
(* 00:30.                                                                  *)

Active(s) == plan[s].state = "live" /\ plan[s].status = "active"

Due(s) == /\ Active(s) /\ plan[s].kind.period # 0
          /\ plan[s].next < 0 \/ (plan[s].next = 0 /\ ~plan[s].kind.late)

Begin(from, to, loaded) ==
    /\ phase = from /\ phase' = to
    /\ batch' = loaded
    /\ held' = [s \in Plans |-> IF s \in loaded THEN plan[s] ELSE NoSchedule]
    /\ UNCHANGED <<plan, saving, editor, edits, faults, announced, spoilt>>

\* The job is over: it has handled its schedules, or an error stops it.
End(from, to) ==
    /\ phase = from /\ phase' = to
    /\ batch' = {} /\ saving' = NotSaving
    /\ held' = [s \in Plans |-> NoSchedule]
    /\ UNCHANGED <<plan, editor, edits, announced>>

\* The run the job has loaded is still the next one.
AsHeld(s) == held[s].next = plan[s].next /\ held[s].kind = plan[s].kind

AdvanceRecurringSchedules == Begin("night", "advancing", {s \in Plans : Due(s)})

\* Mutant of Advanced: a schedule goes on after its end.
MutNeverCompleted(e) == [e EXCEPT !.next = ComputeNextRunDate(@, e.kind)]

\* One period on, and completed if that is after the end.
Advanced(e) ==
    LET next == ComputeNextRunDate(e.next, e.kind)
    IN  [e EXCEPT !.next = next,
                  !.status = IF e.end # NoEnd /\ next > e.end THEN "completed" ELSE @]

AdvanceSelect(s) ==
    /\ phase = "advancing" /\ s \in batch /\ saving = NotSaving
    /\ saving' = [of |-> s, fields |-> FieldsChanged(Advanced(held[s]), s)]
    /\ UNCHANGED <<plan, phase, batch, held, editor, edits, faults, announced, spoilt>>

AdvanceCommit ==
    LET s == saving.of
    IN  /\ saving # NotSaving
        /\ Store(s, Advanced(held[s]), saving.fields)
        /\ batch' = batch \ {s} /\ saving' = NotSaving
        /\ UNCHANGED <<phase, held, editor, edits, faults>>

AdvanceEnds == batch = {} /\ End("advancing", "morning") /\ UNCHANGED <<faults, spoilt>>

\* The catch around the whole loop: the other schedules wait for another night.
AdvanceFails ==
    /\ faults < MaxFaults /\ faults' = faults + 1
    /\ End("advancing", "morning") /\ UNCHANGED spoilt

-----------------------------------------------------------------------------
(* 08:00, and midnight.                                                    *)

SendUpcomingReminders == Begin("morning", "reminding", {s \in Plans : Active(s)})

\* Mutant of Remindable: a day too late.
MutDayLate(e) == e.next + 1 = e.kind.notice

Remindable(e) == e.next = e.kind.notice

\* The notification is of the run as it was loaded.
Remind(s) ==
    /\ phase = "reminding" /\ s \in batch
    /\ batch' = batch \ {s}
    /\ announced' = IF Remindable(held[s]) /\ AsHeld(s) THEN announced \cup {s} ELSE announced
    /\ UNCHANGED <<plan, phase, held, saving, editor, edits, faults, spoilt>>

RemindEnds == batch = {} /\ End("reminding", "day") /\ UNCHANGED <<faults, spoilt>>

RemindFails ==
    /\ faults < MaxFaults /\ faults' = faults + 1
    /\ End("reminding", "day")
    /\ spoilt' = spoilt \cup {s \in batch : plan[s].next = plan[s].kind.notice}

Earlier(day) == IF day = NoEnd \/ day = -MaxBehind THEN day ELSE day - 1

\* Handlers and jobs take far less than a day.
Midnight ==
    /\ phase = "day" /\ editor = NoEditor
    /\ phase' = "night"
    /\ plan' = [s \in Plans |-> IF plan[s].state = "live"
                                  THEN [plan[s] EXCEPT !.next = Earlier(@), !.end = Earlier(@)]
                                  ELSE plan[s]]
    /\ UNCHANGED <<batch, held, saving, editor, edits, faults, announced, spoilt>>

Jobs ==
    \/ AdvanceRecurringSchedules \/ AdvanceCommit \/ AdvanceEnds \/ AdvanceFails
    \/ SendUpcomingReminders \/ RemindEnds \/ RemindFails
    \/ \E s \in Plans : AdvanceSelect(s) \/ Remind(s)

Saves == SelectSchedule \/ CommitSchedule \/ EditFails

ScheduleNext ==
    \/ \E s \in Plans :
           \/ \E kind \in Kinds, start \in Starts :
                  \/ \E end \in Ends : CreateSchedule(s, kind, start, end)
                  \/ Reschedule(s, kind, start)
           \/ \E kind \in Kinds, end \in Ends : UpdateSchedule(s, kind, end)
           \/ DeleteSchedule(s)
    \/ Saves \/ Jobs \/ Midnight

ScheduleSpec == ScheduleInit /\ [][ScheduleNext]_scheduleVars

\* Handlers return, the jobs run every night, and days pass however often users edit.
ScheduleFairness ==
    WF_scheduleVars(Saves) /\ WF_scheduleVars(Jobs) /\ SF_scheduleVars(Midnight)

ScheduleFairSpec == ScheduleSpec /\ ScheduleFairness

-----------------------------------------------------------------------------
(* Correctness.                                                            *)

\* The type invariant.
ScheduleTypeOK ==
    /\ plan \in [Plans -> Schedule]
    /\ phase \in {"night", "advancing", "morning", "reminding", "day"}
    /\ batch \in SUBSET Plans
    /\ held \in [Plans -> Schedule]
    /\ saving \in [of : Plans \cup {NoPlan}, fields : SUBSET Fields]
    /\ editor \in [at : {"idle", "loaded", "selected"}, of : Plans \cup {NoPlan},
                   entity : Schedule, fields : SUBSET Fields]
    /\ edits \in 0..MaxEdits /\ faults \in 0..MaxFaults
    /\ announced \in SUBSET Plans /\ spoilt \in SUBSET Plans

\* When the nightly job moves a schedule on, the run it leaves behind has been announced,
\* unless the schedule came to that run too late for its notice, the announcement failed,
\* notice is asked for the very day and the run is due before 08:00, or an update has
\* replaced that run since the job loaded it
\* (advanceRecurringSchedules, sendUpcomingReminders, updateSchedule).
RunsAnnounced ==
    [][\A s \in Plans : AdvanceCommit /\ saving.of = s /\ "next" \in saving.fields
                                            /\ AsHeld(s)
                            => s \in announced \cup spoilt]_scheduleVars

\* A schedule with a period of more than a day that is behind catches up by itself, one
\* period a night, unless its period is shortened.  A daily one stays as far behind as it
\* ever came (advanceRecurringSchedules).
CatchesUp ==
    \A s \in Plans : Active(s) /\ plan[s].kind.period > 1
                         ~> ~Active(s) \/ plan[s].next > 0 \/ plan[s].kind.period < 2

\* A recurring schedule with an end is completed, if it is not deleted and no update
\* takes the end away (advanceRecurringSchedules).
SchedulesEnd ==
    \A s \in Plans : Active(s) /\ plan[s].end # NoEnd /\ plan[s].kind.period > 0
                         ~> ~Active(s) \/ plan[s].end = NoEnd \/ plan[s].kind.period = 0

=============================================================================
