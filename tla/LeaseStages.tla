---------------------------- MODULE LeaseStages ----------------------------
(***************************************************************************)
(* What the contract service promises about one lease, without rows, saves *)
(* or jobs: the stages a lease goes through, each reached from the one     *)
(* before, and at most one renewal of a lease that is over.                *)
(***************************************************************************)
CONSTANT Leases

VARIABLES stage,    \* the stage of each lease
          renewed   \* the leases that have been renewed

stageVars == <<stage, renewed>>

Stages == {"unborn", "negotiating", "agreed", "live", "notice", "over", "withdrawn"}

StagesTypeOK == stage \in [Leases -> Stages] /\ renewed \in SUBSET Leases

StagesInit == stage = [l \in Leases |-> "unborn"] /\ renewed = {}

Move(l, from, to) == stage[l] \in from /\ stage' = [stage EXCEPT ![l] = to]

Propose(l)  == Move(l, {"unborn"}, "negotiating") /\ UNCHANGED renewed
Withdraw(l) == Move(l, {"negotiating"}, "withdrawn") /\ UNCHANGED renewed
Agree(l)    == Move(l, {"negotiating"}, "agreed") /\ UNCHANGED renewed

\* The admin documents an agreed lease, or activates a proposed one at once.
Activate(l) == Move(l, {"agreed", "negotiating"}, "live") /\ UNCHANGED renewed

GiveNotice(l) == Move(l, {"live"}, "notice") /\ UNCHANGED renewed
EndLease(l)   == Move(l, {"live", "notice"}, "over") /\ UNCHANGED renewed

\* A lease that is over is renewed once, by a new one the parties have agreed upon.
RenewLease(l, new) == /\ stage[l] = "over" /\ l \notin renewed
                      /\ Move(new, {"unborn"}, "agreed")
                      /\ renewed' = renewed \cup {l}

StagesNext == \E l \in Leases :
    \/ Propose(l) \/ Withdraw(l) \/ Agree(l) \/ Activate(l) \/ GiveNotice(l)
    \/ EndLease(l) \/ \E new \in Leases : RenewLease(l, new)

StagesSpec == StagesInit /\ [][StagesNext]_stageVars

=============================================================================
