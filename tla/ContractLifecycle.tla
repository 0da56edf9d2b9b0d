------------------------- MODULE ContractLifecycle -------------------------
(***************************************************************************)
(* The contract service of the rental platform: every handler of           *)
(* contracts.service.ts that changes a contract, a renewal offer or a      *)
(* property's isRented flag, the nightly jobs that call it, and the one    *)
(* other handler that saves a contract row, ReviewsService.create.         *)
(*                                                                         *)
(* A handler is a sequence of awaits, and anything may run between two of  *)
(* them.  A handler that edits a contract does so in three steps:          *)
(*   load    findOne reads the row, the guards are tested on what it read, *)
(*           and the entity is changed in memory;                          *)
(*   select  TypeORM's save reads the row again and notes the columns in   *)
(*           which the entity differs from it;                             *)
(*   commit  an UPDATE writes those columns, in one transaction with the   *)
(*           handler's other writes.                                       *)
(* A save therefore writes back every column that somebody else changed    *)
(* since the load.  slot[w] is the handler worker w has in flight.         *)
(*                                                                         *)
(* A date is kept as the number of days until it, 0 once it has passed:    *)
(* the code compares dates with now and with nothing else.                 *)
(***************************************************************************)
EXTENDS Integers, FiniteSets

CONSTANTS
    Contracts,    \* identities a contract row can be given
    Originals,    \* bound: those that create can give out, the rest is for renewals
    Properties,
    Requests,     \* user requests that can be in flight at once
    Cron,         \* the worker of the nightly contract job
    NoContract, NoProperty,
    NoticeDays,   \* a landlord's notice (60 days in the code)
    OfferDays,    \* life of a renewal offer (60 days in the code)
    MaxTerm,      \* longest lease, in days
    MaxFaults,    \* bound on restarts and on failures inside the nightly jobs
    MaxInFlight   \* how many handlers may be in flight at the same time

ASSUME OriginalsAssumption == Originals \subseteq Contracts
ASSUME WorkersAssumption == Cron \notin Requests
ASSUME NullsAssumption   == NoContract \notin Contracts /\ NoProperty \notin Properties
ASSUME DaysAssumption    ==
    /\ NoticeDays \in Nat \ {0} /\ OfferDays \in Nat \ {0}
    /\ MaxTerm \in Nat \ {0} /\ MaxFaults \in Nat
ASSUME InFlightAssumption == IsFiniteSet(Requests) /\ MaxInFlight \in Nat \ {0}

VARIABLES
    row,        \* the mutable columns of the contracts table
    lease,      \* what a contract is about, fixed when it is created
    ends,       \* days until the contract's endDate
    offer,      \* status of the renew_requests row of a contract, "none" if absent
    offerLeft,  \* days until that offer is 60 days old
    isRented,   \* the flag of the properties table
    reviewed,   \* contracts that have a row in the reviews table
    slot,       \* the handler each worker has in flight
    daily,      \* the nightly contract job: its phase and the contracts left to do
    expiring,   \* the offers the nightly offer job has loaded and not yet saved
    due,        \* the jobs midnight has triggered and that have not started
    faults,     \* restarts and failures of the nightly jobs so far
    reached     \* history: the statuses each contract has ever been committed with

tables == <<row, lease, ends, offer, offerLeft, isRented, reviewed, reached>>
jobs   == <<daily, expiring, due, faults>>
vars   == <<row, lease, ends, offer, offerLeft, isRented, reviewed, reached,
            slot, daily, expiring, due, faults>>

Workers == Requests \cup {Cron}

-----------------------------------------------------------------------------
(* Rows, offers and handlers.                                              *)

\* DRAFT and EXPIRED are in the enum and no code assigns them; "none" is no row.
Status == {"none", "pending_landlord", "pending_tenant", "pending_signature",
           "active", "pending_termination", "terminated", "cancelled"}

OfferStatus == {"none", "pending", "accepted", "rejected", "expired"}

NoDate == -1

Row == [status : Status, number : BOOLEAN, isReviewed : BOOLEAN,
        effective : 0..NoticeDays \cup {NoDate}, renewNotify : BOOLEAN]

Columns == {"status", "number", "isReviewed", "effective", "renewNotify"}

NewRow(s) == [status |-> s, number |-> FALSE, isReviewed |-> FALSE,
              effective |-> NoDate, renewNotify |-> FALSE]

NoRow == NewRow("none")

Lease == [property : Properties \cup {NoProperty},
          renewalOf : Contracts \cup {NoContract}, direct : BOOLEAN]

NoLease == [property |-> NoProperty, renewalOf |-> NoContract, direct |-> FALSE]

\* Handlers that end with save(contract).
SaveOps == {"revise", "accept", "cancel", "activate", "tenantTerminate",
            "landlordTerminate", "review", "finalize", "expire", "expireAndOffer"}

\* Handlers whose write is not a save of a loaded contract.
OtherOps == {"directActivate", "acceptOffer", "rejectOffer"}

Slot == [at : {"idle", "loaded", "selected"}, op : SaveOps \cup OtherOps \cup {"none"},
         contract : Contracts \cup {NoContract}, entity : Row, dirty : SUBSET Columns]

Idle == [at |-> "idle", op |-> "none", contract |-> NoContract,
         entity |-> NoRow, dirty |-> {}]

Exists(c) == row[c].status # "none"

\* A lease somebody lives under.
Live(c) == row[c].status \in {"active", "pending_termination"}

\* Mutant of Sooner: a date goes on counting once it has passed.
MutSooner(d) == d - 1

Sooner(d) == IF d > 0 THEN d - 1 ELSE d

\* The columns in which an entity differs from the row save() finds.
Differing(e, r) ==
    {col \in Columns : \/ col = "status"      /\ e.status # r.status
                       \/ col = "number"      /\ e.number # r.number
                       \/ col = "isReviewed"  /\ e.isReviewed # r.isReviewed
                       \/ col = "effective"   /\ e.effective # r.effective
                       \/ col = "renewNotify" /\ e.renewNotify # r.renewNotify}

\* Row r after an UPDATE of the columns in dirty from entity e.
Written(e, r, dirty) ==
    [status      |-> IF "status"      \in dirty THEN e.status      ELSE r.status,
     number      |-> IF "number"      \in dirty THEN e.number      ELSE r.number,
     isReviewed  |-> IF "isReviewed"  \in dirty THEN e.isReviewed  ELSE r.isReviewed,
     effective   |-> IF "effective"   \in dirty THEN e.effective   ELSE r.effective,
     renewNotify |-> IF "renewNotify" \in dirty THEN e.renewNotify ELSE r.renewNotify]

-----------------------------------------------------------------------------
Init ==
    /\ row       = [c \in Contracts |-> NoRow]
    /\ lease     = [c \in Contracts |-> NoLease]
    /\ ends      = [c \in Contracts |-> 0]
    /\ offer     = [c \in Contracts |-> "none"]
    /\ offerLeft = [c \in Contracts |-> 0]
    /\ isRented  = [p \in Properties |-> FALSE]
    /\ reviewed  = {}
    /\ reached   = [c \in Contracts |-> {}]
    /\ slot      = [w \in Workers |-> Idle]
    /\ daily     = [phase |-> "idle", todo |-> {}]
    /\ expiring  = {}
    /\ due       = {}
    /\ faults   = 0

-----------------------------------------------------------------------------
(* The three steps of a handler.                                           *)

\* The workers with a handler in flight.
InFlight == {w \in Workers : slot[w].at # "idle"}

MayStart(w) == slot[w].at = "idle" /\ Cardinality(InFlight) < MaxInFlight

\* The load step: entity is the loaded row with the handler's changes in memory.
Load(w, op, c, entity) ==
    /\ MayStart(w)
    /\ slot' = [slot EXCEPT ![w] = [at |-> "loaded", op |-> op, contract |-> c,
                                    entity |-> entity, dirty |-> {}]]
    /\ UNCHANGED tables

\* The SELECT inside save(contract).  Of the entity only the columns that the UPDATE
\* will write are still needed.
SaveSelect(w) ==
    LET dirty == Differing(slot[w].entity, row[slot[w].contract])
    IN  /\ slot[w].at = "loaded" /\ slot[w].op \in SaveOps
        /\ slot' = [slot EXCEPT ![w] =
                        [at |-> "selected", op |-> @.op, contract |-> @.contract,
                         entity |-> Written(@.entity, NoRow, dirty), dirty |-> dirty]]
        /\ UNCHANGED <<tables, jobs>>

Done(w) == slot' = [slot EXCEPT ![w] = Idle]

\* Commit contract row r of c: the column update every commit shares.
Put(c, r) == /\ row' = [row EXCEPT ![c] = r]
             /\ reached' = [reached EXCEPT ![c] = @ \cup {r.status}]

\* Mutants of RentedAfter: the end of a notice frees no property; activation takes none.
MutRentedNotFreed(op, current) ==
    \/ op = "activate"
    \/ current /\ op \notin {"tenantTerminate", "expire", "expireAndOffer"}

MutRentedNotTaken(op, current) ==
    current /\ op \notin {"tenantTerminate", "finalize", "expire", "expireAndOffer"}

\* isRented after a handler's transaction: activation sets it, the end of a lease clears it.
RentedAfter(op, current) ==
    \/ op = "activate"
    \/ current /\ op \notin {"tenantTerminate", "finalize", "expire", "expireAndOffer"}

\* The UPDATE of save(contract) and the other writes of its transaction: isRented,
\* the review of ReviewsService.create, and the offer an expiry makes.  The unique
\* index on original_contract_id and the findOne before it allow one offer a contract.
SaveCommit(w) ==
    LET s == slot[w]
        c == s.contract
        p == lease[c].property
        offers == s.op = "expireAndOffer" /\ offer[c] = "none"
    IN  /\ s.at = "selected"
        /\ Put(c, Written(s.entity, row[c], s.dirty))
        /\ isRented' = [isRented EXCEPT ![p] = RentedAfter(s.op, @)]
        /\ reviewed' = IF s.op = "review" THEN reviewed \cup {c} ELSE reviewed
        /\ offer' = IF offers THEN [offer EXCEPT ![c] = "pending"] ELSE offer
        /\ offerLeft' = IF offers THEN [offerLeft EXCEPT ![c] = OfferDays] ELSE offerLeft
        /\ Done(w)
        /\ UNCHANGED <<lease, ends, jobs>>

\* A request's handler throws before its transaction commits: nothing more is written.
RequestFails(r) == /\ slot[r].at # "idle"
                   /\ Done(r)
                   /\ UNCHANGED <<tables, jobs>>

-----------------------------------------------------------------------------
(* Requests.                                                               *)

\* INSERT of a contract row; days is what its endDate is away.
Insert(c, s, l, days) ==
    /\ ~Exists(c)
    /\ Put(c, NewRow(s))
    /\ lease' = [lease EXCEPT ![c] = l]
    /\ ends' = [ends EXCEPT ![c] = days]

\* create: neither isRented nor another contract of the property is looked at.
Create(r, c, p) ==
    /\ MayStart(r)
    /\ \E days \in 1..MaxTerm :
           Insert(c, "pending_landlord",
                  [property |-> p, renewalOf |-> NoContract, direct |-> FALSE], days)
    /\ UNCHANGED <<offer, offerLeft, isRented, reviewed, slot, jobs>>

\* adminCreate with directActivate: create, which also sends the notifications, then
\* the update of DirectActivate.
AdminCreate(r, c, p) ==
    /\ MayStart(r)
    /\ \E days \in 1..MaxTerm :
           Insert(c, "pending_landlord",
                  [property |-> p, renewalOf |-> NoContract, direct |-> TRUE], days)
    /\ slot' = [slot EXCEPT ![r] = [at |-> "loaded", op |-> "directActivate",
                                    contract |-> c, entity |-> NoRow, dirty |-> {}]]
    /\ UNCHANGED <<offer, offerLeft, isRented, reviewed, jobs>>

\* contractRepo.update(id, {status: ACTIVE}): one column, no condition, no isRented.
DirectActivate(r) ==
    /\ slot[r].at = "loaded" /\ slot[r].op = "directActivate"
    /\ LET c == slot[r].contract IN Put(c, [row[c] EXCEPT !.status = "active"])
    /\ Done(r)
    /\ UNCHANGED <<lease, ends, offer, offerLeft, isRented, reviewed, jobs>>

LandlordUpdateTerms(r, c) ==
    /\ row[c].status = "pending_landlord"
    /\ Load(r, "revise", c, [row[c] EXCEPT !.status = "pending_tenant"])
    /\ UNCHANGED jobs

\* The landlord may add a renewal offer to the contract when accepting it.
AcceptContract(r, c) ==
    /\ \/ /\ row[c].status = "pending_landlord"
          /\ \E notify \in BOOLEAN :
                 Load(r, "accept", c, [row[c] EXCEPT !.status = "pending_signature",
                                                     !.renewNotify = @ \/ notify])
       \/ /\ row[c].status = "pending_tenant"
          /\ Load(r, "accept", c, [row[c] EXCEPT !.status = "pending_signature"])
    /\ UNCHANGED jobs

\* Mutant of CancelContract: an agreed contract can still be cancelled.
MutCancelAgreed(r, c) ==
    /\ row[c].status \in {"pending_landlord", "pending_tenant", "pending_signature"}
    /\ Load(r, "cancel", c, [row[c] EXCEPT !.status = "cancelled"])
    /\ UNCHANGED jobs

\* Only the party whose turn it is may cancel.
CancelContract(r, c) ==
    /\ row[c].status \in {"pending_landlord", "pending_tenant"}
    /\ Load(r, "cancel", c, [row[c] EXCEPT !.status = "cancelled"])
    /\ UNCHANGED jobs

\* Mutant of ActivateAndUploadPdf: the status is not tested.
MutActivateAny(r, c) ==
    /\ Exists(c)
    /\ Load(r, "activate", c, [row[c] EXCEPT !.status = "active", !.number = TRUE])
    /\ UNCHANGED jobs

ActivateAndUploadPdf(r, c) ==
    /\ row[c].status = "pending_signature"
    /\ Load(r, "activate", c, [row[c] EXCEPT !.status = "active", !.number = TRUE])
    /\ UNCHANGED jobs

\* Mutant of TerminateContract: the landlord's notice gets no date.
MutNoticeUndated(r, c) ==
    /\ \/ /\ Live(c)
          /\ Load(r, "tenantTerminate", c,
                  [row[c] EXCEPT !.status = "terminated", !.effective = 0])
       \/ /\ row[c].status = "active"
          /\ Load(r, "landlordTerminate", c,
                  [row[c] EXCEPT !.status = "pending_termination"])
    /\ UNCHANGED jobs

\* The tenant ends the lease now; the landlord gives notice, and only once.
TerminateContract(r, c) ==
    /\ \/ /\ Live(c)
          /\ Load(r, "tenantTerminate", c,
                  [row[c] EXCEPT !.status = "terminated", !.effective = 0])
       \/ /\ row[c].status = "active"
          /\ Load(r, "landlordTerminate", c,
                  [row[c] EXCEPT !.status = "pending_termination",
                                 !.effective = NoticeDays])
    /\ UNCHANGED jobs

\* Mutant of CreateReview: any contract can be reviewed.
MutReviewUnnumbered(r, c) ==
    /\ Exists(c) /\ ~row[c].isReviewed
    /\ c \notin reviewed
    /\ Load(r, "review", c, [row[c] EXCEPT !.isReviewed = TRUE])
    /\ UNCHANGED jobs

\* ReviewsService.create: allowed once the contract has a number, whatever its status.
CreateReview(r, c) ==
    /\ row[c].number /\ ~row[c].isReviewed
    /\ c \notin reviewed
    /\ Load(r, "review", c, [row[c] EXCEPT !.isReviewed = TRUE])
    /\ UNCHANGED jobs

\* acceptRenewOffer and rejectRenewOffer read the offer and test it is pending.
AcceptRenewOffer(r, c) ==
    /\ offer[c] = "pending"
    /\ Load(r, "acceptOffer", c, NoRow)
    /\ UNCHANGED jobs

RejectRenewOffer(r, c) ==
    /\ offer[c] = "pending"
    /\ Load(r, "rejectOffer", c, NoRow)
    /\ UNCHANGED jobs

\* The transaction of acceptRenewOffer: a new contract that awaits signature, the
\* offer accepted, the property rented.  The new lease starts the day after the old
\* one ended, so some of it, or all, may already have passed.
AcceptOfferCommit(r) ==
    LET c == slot[r].contract
        p == lease[c].property
    IN  /\ slot[r].at = "loaded" /\ slot[r].op = "acceptOffer"
        /\ \E n \in Contracts, days \in 0..MaxTerm :
               Insert(n, "pending_signature",
                      [property |-> p, renewalOf |-> c, direct |-> FALSE], days)
        /\ offer' = [offer EXCEPT ![c] = "accepted"]
        /\ isRented' = [isRented EXCEPT ![p] = TRUE]
        /\ Done(r)
        /\ UNCHANGED <<offerLeft, reviewed, jobs>>

RejectOfferCommit(r) ==
    /\ slot[r].at = "loaded" /\ slot[r].op = "rejectOffer"
    /\ offer' = [offer EXCEPT ![slot[r].contract] = "rejected"]
    /\ Done(r)
    /\ UNCHANGED <<row, reached, lease, ends, offerLeft, isRented, reviewed, jobs>>

-----------------------------------------------------------------------------
(* The nightly jobs and the clock.                                         *)

\* Mutant of NoticesServed: the date is not tested.
MutNoticesAny == {c \in Contracts : row[c].status = "pending_termination"}

\* Mutants of LeasesRunOut: the date is not tested; only leases with an offer are listed.
MutLeasesAny     == {c \in Contracts : row[c].status = "active"}
MutLeasesOffered == {c \in Contracts : row[c].status = "active" /\ ends[c] = 0
                                       /\ row[c].renewNotify}

\* findPendingTerminationContracts and findExpiredActiveContracts.
NoticesServed == {c \in Contracts : row[c].status = "pending_termination"
                                    /\ row[c].effective = 0}
LeasesRunOut  == {c \in Contracts : row[c].status = "active" /\ ends[c] = 0}

\* processDailyContractUpdates first lists the notices that have been served ...
StartDaily ==
    /\ "daily" \in due /\ daily.phase = "idle"
    /\ due' = due \ {"daily"}
    /\ daily' = [phase |-> "finalize", todo |-> NoticesServed]
    /\ UNCHANGED <<tables, slot, expiring, faults>>

\* ... and ends those contracts one after another.  autoFinalizeTermination reads the
\* contract again and does not look at its status.
AutoFinalizeTermination(c) ==
    /\ daily.phase = "finalize" /\ c \in daily.todo
    /\ Load(Cron, "finalize", c, [row[c] EXCEPT !.status = "terminated"])
    /\ daily' = [daily EXCEPT !.todo = @ \ {c}]
    /\ UNCHANGED <<expiring, due, faults>>

\* The try/catch around each contract: the job goes on with the next one.
DailyItemFails == /\ slot[Cron].at # "idle" /\ faults < MaxFaults
                  /\ faults' = faults + 1
                  /\ Done(Cron)
                  /\ UNCHANGED <<tables, daily, expiring, due>>

\* Then it lists the active contracts past their end date ...
StartExpirations ==
    /\ daily.phase = "finalize" /\ daily.todo = {} /\ slot[Cron].at = "idle"
    /\ daily' = [phase |-> "expire", todo |-> LeasesRunOut]
    /\ UNCHANGED <<tables, slot, expiring, due, faults>>

\* ... and ends those, again without a look at the status.  The months the landlord asks
\* for before an offer are at most the contract's, so at its end they have been spent.
AutoExpireAndCreateRenewRequest(c) ==
    /\ daily.phase = "expire" /\ c \in daily.todo
    /\ Load(Cron, IF row[c].renewNotify THEN "expireAndOffer" ELSE "expire", c,
            [row[c] EXCEPT !.status = "terminated", !.effective = 0])
    /\ daily' = [daily EXCEPT !.todo = @ \ {c}]
    /\ UNCHANGED <<expiring, due, faults>>

FinishDaily ==
    /\ daily.phase = "expire" /\ daily.todo = {} /\ slot[Cron].at = "idle"
    /\ daily' = [phase |-> "idle", todo |-> {}]
    /\ UNCHANGED <<tables, slot, expiring, due, faults>>

\* processExpiredRenewRequests loads every pending offer that is too old ...
OffersTooOld == {c \in Contracts : offer[c] = "pending" /\ offerLeft[c] = 0}

StartExpiredOffers ==
    /\ "offers" \in due /\ expiring = {}
    /\ due' = due \ {"offers"}
    /\ expiring' = OffersTooOld
    /\ UNCHANGED <<tables, slot, daily, faults>>

\* Mutant of ExpireOffer: the entity is not saved.
MutExpireUnsaved(c) ==
    /\ c \in expiring
    /\ expiring' = expiring \ {c}
    /\ UNCHANGED <<tables, slot, daily, due, faults>>

\* ... and saves the loaded entities one after another, each with its notifications
\* before the next.
ExpireOffer(c) ==
    /\ c \in expiring
    /\ expiring' = expiring \ {c}
    /\ offer' = [offer EXCEPT ![c] = "expired"]
    /\ UNCHANGED <<row, reached, lease, ends, offerLeft, isRented, reviewed,
                   slot, daily, due, faults>>

\* An exception in that loop is not caught inside it: the rest is left for tomorrow.
AbandonExpiredOffers ==
    /\ expiring # {} /\ faults < MaxFaults
    /\ expiring' = {}
    /\ faults' = faults + 1
    /\ UNCHANGED <<tables, slot, daily, due>>

\* Midnight.  Requests and jobs take far less than a day: none is under way, and one
\* that straddles midnight is taken to have started after it.  The offer job returns at
\* once when it finds nothing, and no offer grows too old before the next midnight: then
\* it is left out.
Midnight ==
    /\ due = {} /\ daily.phase = "idle" /\ expiring = {}
    /\ InFlight = {}
    /\ ends' = [c \in Contracts |-> Sooner(ends[c])]
    /\ offerLeft' = [c \in Contracts |-> Sooner(offerLeft[c])]
    /\ row' = [c \in Contracts |-> [row[c] EXCEPT !.effective = Sooner(@)]]
    /\ UNCHANGED <<lease, offer, isRented, reviewed, reached,
                   slot, daily, expiring, faults>>
    /\ due' = {"daily"} \cup (IF OffersTooOld' = {} THEN {} ELSE {"offers"})

\* The process restarts: what was in flight is gone, and a job that midnight triggered
\* is not run again before the next midnight.
Crash ==
    /\ faults < MaxFaults
    /\ faults' = faults + 1
    /\ slot' = [w \in Workers |-> Idle]
    /\ daily' = [phase |-> "idle", todo |-> {}]
    /\ expiring' = {}
    /\ due' = {}
    /\ UNCHANGED tables

-----------------------------------------------------------------------------
Request(r) ==
    \/ \E c \in Originals, p \in Properties : Create(r, c, p) \/ AdminCreate(r, c, p)
    \/ \E c \in Contracts :
          \/ LandlordUpdateTerms(r, c) \/ AcceptContract(r, c) \/ CancelContract(r, c)
          \/ ActivateAndUploadPdf(r, c) \/ TerminateContract(r, c) \/ CreateReview(r, c)
          \/ AcceptRenewOffer(r, c) \/ RejectRenewOffer(r, c)

Finish(w) == \/ SaveSelect(w) \/ SaveCommit(w)
             \/ DirectActivate(w) \/ AcceptOfferCommit(w) \/ RejectOfferCommit(w)

DailyJob == \/ StartDaily \/ StartExpirations \/ FinishDaily
            \/ \E c \in Contracts : \/ AutoFinalizeTermination(c)
                                    \/ AutoExpireAndCreateRenewRequest(c)

OfferJob == StartExpiredOffers \/ \E c \in Contracts : ExpireOffer(c)

Next == \/ \E r \in Requests : Request(r)
        \/ \E w \in Workers : Finish(w)
        \/ \E r \in Requests : RequestFails(r)
        \/ DailyJob \/ OfferJob \/ DailyItemFails \/ AbandonExpiredOffers
        \/ Midnight \/ Crash

Spec == Init /\ [][Next]_vars

\* Every handler that has started returns or throws, NestJS triggers the jobs, and the
\* day ends: requests are short, so they cannot hold midnight back for ever.
Fairness == /\ \A r \in Requests : WF_vars(Finish(r) \/ RequestFails(r))
            /\ WF_vars(Finish(Cron)) /\ WF_vars(DailyJob) /\ WF_vars(OfferJob)
            /\ SF_vars(Midnight)

FairSpec == Spec /\ Fairness

-----------------------------------------------------------------------------
(* Correctness.                                                            *)

\* The type invariant.
TypeOK ==
    /\ row \in [Contracts -> Row]
    /\ lease \in [Contracts -> Lease]
    /\ ends \in [Contracts -> 0..MaxTerm]
    /\ offer \in [Contracts -> OfferStatus]
    /\ offerLeft \in [Contracts -> 0..OfferDays]
    /\ isRented \in [Properties -> BOOLEAN]
    /\ reviewed \in SUBSET Contracts
    /\ reached \in [Contracts -> SUBSET Status]
    /\ slot \in [Workers -> Slot]
    /\ daily \in [phase : {"idle", "finalize", "expire"}, todo : SUBSET Contracts]
    /\ expiring \in SUBSET Contracts
    /\ due \in SUBSET {"daily", "offers"}
    /\ faults \in 0..MaxFaults

\* What a contract must have been before it can be s.
Earned(c, s) ==
    /\ s # "none"
    /\ s = "pending_landlord" => lease[c].renewalOf = NoContract
    /\ s \in {"pending_tenant", "cancelled"} => "pending_landlord" \in reached[c]
    /\ s = "pending_signature" => \/ "pending_landlord" \in reached[c]
                                  \/ lease[c].renewalOf # NoContract
    /\ s = "active" => "pending_signature" \in reached[c] \/ lease[c].direct
    /\ s \in {"pending_termination", "terminated"} => "active" \in reached[c]

\* No stage is skipped: whatever handlers overlap and however stale the rows they save,
\* a contract carries a status only after the status that earns it was committed, so
\* nothing is terminated that was never active, nor active that was never agreed upon.
StagesReachedInOrder == \A c \in Contracts : \A s \in reached[c] : Earned(c, s)

\* A contract number, and a review of the stay, belong to contracts the admin has
\* activated after both parties signed (activateAndUploadPdf, ReviewsService.create).
NumberedWasSigned ==
    \A c \in Contracts : row[c].number \/ c \in reviewed =>
        {"pending_signature", "active"} \subseteq reached[c]

\* A renewal continues a lease that ran to its end date and was ended there with an
\* offer (autoExpireAndCreateRenewRequest): never one that was ended early, never an
\* unsigned one.
RenewalFollowsFullTerm ==
    \A n \in Contracts : lease[n].renewalOf # NoContract =>
        LET c == lease[n].renewalOf
        IN  ends[c] = 0 /\ offer[c] # "none" /\ {"active", "terminated"} \subseteq reached[c]

\* A property that search hides from tenants has a live lease or a renewal that awaits
\* signature.
RentedMeansOccupied ==
    \A p \in Properties : isRented[p] =>
        \E c \in Contracts :
            /\ lease[c].property = p
            /\ \/ Live(c)
               \/ row[c].status = "pending_signature" /\ lease[c].renewalOf # NoContract

\* A lease the admin activated through activateAndUploadPdf is shown as rented while it is
\* the only one of its property that ever was live.
SoleLeaseIsRented ==
    \A c \in Contracts :
        /\ Live(c) /\ ~lease[c].direct
        /\ \A o \in Contracts \ {c} :
               lease[o].property = lease[c].property => "active" \notin reached[o]
        => isRented[lease[c].property]

\* isRented, which five transactions write that know their own contract only, is set for
\* somebody -- nothing would ever free the property otherwise -- and, as far as it goes,
\* whenever there is somebody.
RentedTracksLeases == RentedMeansOccupied /\ SoleLeaseIsRented

\* The stage of a contract in LeaseStages.
StageOf == [none                |-> "unborn",
            pending_landlord    |-> "negotiating",
            pending_tenant      |-> "negotiating",
            pending_signature   |-> "agreed",
            active              |-> "live",
            pending_termination |-> "notice",
            terminated          |-> "over",
            cancelled           |-> "withdrawn"]

Abstract == INSTANCE LeaseStages WITH
    Leases  <- Contracts,
    stage   <- [c \in Contracts |-> StageOf[row[c].status]],
    renewed <- {c \in Contracts : \E n \in Contracts : lease[n].renewalOf = c}

\* While handlers do not overlap (MaxInFlight = 1), the service, its nightly jobs and its
\* failures included, implements LeaseStages: no stage is skipped or taken back, what is
\* cancelled or terminated stays so, and a lease is renewed once, after its end.
ImplementsLeaseStages == Abstract!StagesSpec

\* Only the tenant's own request ends a lease early: the first time a contract becomes
\* terminated, either the tenant did it, or the landlord's notice (60 days) had run, or
\* the end date had passed.  This is so while at most two handlers overlap.
NoticeHonoured ==
    [][\A c \in Contracts : "terminated" \in reached'[c] \ reached[c] =>
           \/ ends[c] = 0
           \/ row[c].status = "pending_termination" /\ row[c].effective = 0
           \/ \E r \in Requests : /\ slot[r].op = "tenantTerminate"
                                  /\ slot[r].contract = c
                                  /\ slot'[r].at = "idle"]_vars

\* The nightly jobs make up for what they missed in a crash: a notice that was given is
\* served, a lease that has run out is ended, and no offer stays open for ever.
NoticesAreServed ==
    \A c \in Contracts :
        row[c].status = "pending_termination" ~> row[c].status = "terminated"
LeasesEnd == \A c \in Contracts : row[c].status = "active" ~> row[c].status = "terminated"
OffersAreDecided == \A c \in Contracts : offer[c] = "pending" ~> offer[c] # "pending"

-----------------------------------------------------------------------------
(* Claims of the repository that the code does not keep (see the README).  *)

\* isRented says that a property is occupied: allowToCreateContract answers "This
\* property is currently occupied." from it, and search offers what is not rented.
LiveMeansRented == \A c \in Contracts : Live(c) => isRented[lease[c].property]

\* An offer is accepted, rejected or expired only while it is pending (acceptRenewOffer
\* and rejectRenewOffer: "Must be PENDING").
DecidedOfferStaysDecided ==
    [][\A c \in Contracts : offer[c] \in {"accepted", "rejected", "expired"} =>
           offer'[c] = offer[c]]_vars

\* Of the contract, a review updates "the contract marker" (ReviewsService.create): it
\* does not bring a terminated contract back.
ReviewOnlyMarks ==
    [][\A r \in Requests :
           LET c == slot[r].contract
           IN  /\ slot[r].op = "review" /\ slot'[r].at = "idle"
               /\ row[c].status = "terminated"
               => row'[c].status = "terminated"]_vars

=============================================================================
