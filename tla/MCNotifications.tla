-------------------------- MODULE MCNotifications --------------------------
(***************************************************************************)
(* Instances of Notifications, Schedules and MonthlyRuns for TLC.  The     *)
(* three share no state; part says which of them a behaviour is about.     *)
(***************************************************************************)
EXTENDS Notifications, Schedules, MonthlyRuns, TLC

VARIABLE part

allVars == <<vars, scheduleVars, monthlyVars, part>>

\* What users ask of a schedule: once, daily with notice of a day, and every second day late
\* in the day with notice on the day or two days before.
KindsUsed ==
    {[period |-> 0, notice |-> 1, late |-> FALSE], [period |-> 1, notice |-> 1, late |-> FALSE],
     [period |-> 2, notice |-> 0, late |-> TRUE],  [period |-> 2, notice |-> 2, late |-> TRUE]}

StartsUsed == {-2, 0}
EndsUsed   == {1, NoEnd}

Notifying  == part = "notifications" /\ Next /\ UNCHANGED <<scheduleVars, monthlyVars, part>>
Slipping   == part = "months" /\ ComputeMonthly /\ UNCHANGED <<vars, scheduleVars, part>>

\* The bound of MonthlyRuns is reached.
LastRun == part = "months" /\ run.month + interval > MaxMonths /\ UNCHANGED allVars

\* A step of the schedules.
Scheduling(A) == part = "schedules" /\ A /\ UNCHANGED <<vars, monthlyVars, part>>

AnyStart == MonthlyInit
OneStart == /\ first = [month |-> 0, day |-> 1] /\ interval = CHOOSE i \in Intervals : TRUE
            /\ run = first /\ runs = 0

AllInit ==
    /\ Init /\ ScheduleInit
    /\ \/ part = "months" /\ AnyStart
       \/ part \in {"notifications", "schedules"} /\ OneStart

AllSpec ==
    /\ AllInit
    /\ [][Notifying \/ Scheduling(ScheduleNext) \/ Slipping \/ LastRun]_allVars
    /\ WF_allVars(Scheduling(Saves)) /\ WF_allVars(Scheduling(Jobs)) /\ SF_allVars(Scheduling(Midnight))

\* The types of Notifications and of Schedules.
TypesOK == TypeOK /\ ScheduleTypeOK

=============================================================================
