------------------------- MODULE ContractSerial_proofs -------------------------
(***************************************************************************)
(* Proofs about ContractLifecycle with one handler at a time               *)
(* (MaxInFlight = 1), for any number of contracts, properties and requests *)
(* and with every failure: RentedTracksLeases, NoticeHonoured, and the     *)
(* refinement ImplementsLeaseStages.                                       *)
(*                                                                         *)
(* These properties are false of overlapping handlers.  The invariant SInv *)
(* adds to IInv what being alone gives a handler: the row is still as it   *)
(* was found, so what the handler will leave behind follows from its guard *)
(* (FitInv), and so does what the nightly job will find (TodoInv).         *)
(***************************************************************************)
EXTENDS ContractLifecycle_proofs, FiniteSetTheorems

OneInFlight == \A v, w \in Workers :
    slot[v].at # "idle" /\ slot[w].at # "idle" => v = w

\* A contract is about a property of the table.
LeaseInv == \A c \in Contracts :
    IF Exists(c) THEN lease[c].property \in Properties ELSE lease[c] = NoLease

\* The row that handler s would leave behind if it committed now.
After(s) == IF s.at = "loaded" THEN s.entity
                               ELSE Written(s.entity, row[s.contract], s.dirty)

\* The statuses between which each saving handler moves a contract.
Moves(op, from, to) ==
    \/ op = "revise"   /\ from = "pending_landlord"  /\ to = "pending_tenant"
    \/ op = "accept"   /\ to = "pending_signature"
                       /\ from \in {"pending_landlord", "pending_tenant"}
    \/ op = "cancel"   /\ to = "cancelled"
                       /\ from \in {"pending_landlord", "pending_tenant"}
    \/ op = "activate" /\ from = "pending_signature" /\ to = "active"
    \/ op = "landlordTerminate" /\ from = "active" /\ to = "pending_termination"
    \/ op = "tenantTerminate"   /\ to = "terminated"
                                /\ from \in {"active", "pending_termination"}
    \/ op = "finalize" /\ to = "terminated"
                       /\ from \in {"pending_termination", "terminated"}
    \/ op \in {"expire", "expireAndOffer"}
       /\ to = "terminated"
       /\ from \in {"active", "pending_termination", "terminated"}
    \/ op = "review" /\ from = to

\* What the handler in flight finds and will do.
Fit(s) ==
    LET c == s.contract
    IN  /\ s.op \in SaveOps => Moves(s.op, row[c].status, After(s).status)
        /\ s.op = "review" => After(s).effective = row[c].effective
        /\ s.op = "finalize" /\ row[c].status = "pending_termination" =>
               row[c].effective = 0
        /\ s.op \in {"expire", "expireAndOffer"} => ends[c] = 0
        /\ s.op = "directActivate" => row[c].status = "pending_landlord"
        /\ s.op = "acceptOffer" => /\ row[c].status = "terminated"
                                   /\ \A n \in Contracts : lease[n].renewalOf # c

FitInv == /\ \A w \in Workers : slot[w].at # "idle" => Fit(slot[w])
          /\ slot[Cron].op # "tenantTerminate"

\* What the nightly job will find of the contracts it has listed.
TodoInv ==
    /\ daily.phase = "finalize" => \A c \in daily.todo :
           \/ row[c].status = "terminated"
           \/ row[c].status = "pending_termination" /\ row[c].effective = 0
    /\ daily.phase = "expire" => \A c \in daily.todo :
           row[c].status \in {"active", "pending_termination", "terminated"}

\* Offers and renewals: an undecided offer has no renewal, and no two renewals have the
\* same predecessor.
RenewalInv ==
    /\ \A c \in Contracts :
           /\ offer[c] # "none" => row[c].status = "terminated"
           /\ offer[c] = "accepted" => \E n \in Contracts : lease[n].renewalOf = c
           /\ offer[c] \in {"none", "pending"} =>
                  \A n \in Contracts : lease[n].renewalOf # c
    /\ \A m, n \in Contracts :
           lease[m].renewalOf # NoContract /\ lease[m].renewalOf = lease[n].renewalOf =>
               m = n

\* What is said of the tables and what is said of the handlers and jobs.
SerialTables == LeaseInv /\ RenewalInv /\ RentedTracksLeases
SerialWork   == OneInFlight /\ FitInv /\ TodoInv

SInv == IInv /\ SerialTables /\ SerialWork

-----------------------------------------------------------------------------
(* Being alone.                                                            *)

\* A handler starts only when none is in flight.
LEMMA NoneInFlight ==
    ASSUME MaxInFlight = 1, Cardinality(InFlight) < MaxInFlight
    PROVE  \A v \in Workers : slot[v].at = "idle"
<1>1. IsFiniteSet(Workers)
  BY InFlightAssumption, FS_AddElement DEF Workers
<1>2. InFlight \in SUBSET Workers BY DEF InFlight
<1>3. IsFiniteSet(InFlight) BY <1>1, <1>2, FS_Subset
<1>4. Cardinality(InFlight) \in Nat BY <1>3, FS_CardinalityType
<1>5. Cardinality(InFlight) = 0 BY <1>4
<1>6. InFlight = {} BY <1>3, <1>5, FS_EmptySet
<1>7. QED BY <1>6 DEF InFlight

\* A worker that was free takes up a handler that fits: it is the only one.
LEMMA AloneStarts ==
    ASSUME MaxInFlight = 1, SInv, NEW w \in Workers, MayStart(w), NEW s,
           slot' = [slot EXCEPT ![w] = s], Fit(slot[w])',
           w = Cron => s.op # "tenantTerminate"
    PROVE  OneInFlight' /\ FitInv'
<1>1. \A v \in Workers : slot[v].at = "idle" BY NoneInFlight DEF MayStart
<1>2. slot \in [Workers -> Slot] BY DEF SInv, IInv, TypeOK
<1>3. slot'[w] = s /\ \A v \in Workers \ {w} : slot'[v] = slot[v] BY <1>2
<1>4. \A v \in Workers : slot'[v].at # "idle" => v = w BY <1>1, <1>3
<1>5. Cron \in Workers BY DEF Workers
<1>6. slot'[Cron].op # "tenantTerminate"
  BY <1>3, <1>5 DEF SInv, SerialWork, FitInv
<1>7. FitInv' BY <1>4, <1>6 DEF FitInv
<1>8. QED BY <1>4, <1>7 DEF OneInFlight

\* The handler in flight ends: none is left.
LEMMA AloneEnds ==
    ASSUME SInv, NEW w \in Workers, slot[w].at # "idle", Done(w)
    PROVE  OneInFlight' /\ FitInv'
<1>1. slot \in [Workers -> Slot] BY DEF SInv, IInv, TypeOK
<1>2. slot'[w] = Idle /\ \A v \in Workers \ {w} : slot'[v] = slot[v]
  BY <1>1 DEF Done
<1>3. \A v \in Workers : slot'[v].at = "idle"
  BY <1>2, IdleType DEF SInv, SerialWork, OneInFlight
<1>4. Cron \in Workers /\ Idle.op = "none" BY DEF Workers, Idle
<1>5. slot'[Cron].op # "tenantTerminate"
  BY <1>2, <1>4 DEF SInv, SerialWork, FitInv
<1>6. QED BY <1>3, <1>5 DEF OneInFlight, FitInv

\* Steps that leave the tables, or all of them but the offers' dates, alone.
LEMMA SerialTablesKept ==
    ASSUME SInv, UNCHANGED tables
    PROVE  SerialTables'
<1>1. LeaseInv' BY DEF SInv, SerialTables, LeaseInv, Exists, tables
<1>2. RenewalInv' BY DEF SInv, SerialTables, RenewalInv, tables
<1>3. RentedMeansOccupied'
  BY DEF SInv, SerialTables, RentedTracksLeases, RentedMeansOccupied, Live, tables
<1>4. SoleLeaseIsRented'
  BY DEF SInv, SerialTables, RentedTracksLeases, SoleLeaseIsRented, Live, tables
<1>5. QED BY <1>1, <1>2, <1>3, <1>4 DEF SerialTables, RentedTracksLeases

\* The handler in flight, if any, goes on while nothing it relies on changes.
LEMMA FitKept ==
    ASSUME SInv, UNCHANGED <<slot, row, lease, ends>>
    PROVE  OneInFlight' /\ FitInv'
<1>1. \A w \in Workers : Fit(slot[w]) => Fit(slot[w])' BY DEF Fit, After
<1>2. QED BY <1>1 DEF SInv, SerialWork, OneInFlight, FitInv

\* The job's list is as before or shorter.
LEMMA TodoKept ==
    ASSUME SInv, UNCHANGED row, daily'.phase = daily.phase,
           daily'.todo \subseteq daily.todo
    PROVE  TodoInv'
BY DEF SInv, SerialWork, TodoInv

-----------------------------------------------------------------------------
(* Loads, the select, lists, failures and offers.                          *)

\* A handler that loads the row of c as e: if it fits, the invariant goes on.
LEMMA SerialLoad ==
    ASSUME MaxInFlight = 1, SInv, IInv', NEW w \in Workers, NEW op, NEW c \in Contracts,
           NEW e, Load(w, op, c, e),
           op \in SaveOps => Moves(op, row[c].status, e.status),
           op = "review" => e.effective = row[c].effective,
           op = "finalize" /\ row[c].status = "pending_termination" =>
               row[c].effective = 0,
           op \in {"expire", "expireAndOffer"} => ends[c] = 0,
           op = "acceptOffer" => /\ row[c].status = "terminated"
                                 /\ \A n \in Contracts : lease[n].renewalOf # c,
           op # "directActivate", w = Cron => op # "tenantTerminate",
           daily'.phase = daily.phase, daily'.todo \subseteq daily.todo
    PROVE  SInv'
<1> DEFINE s == [at |-> "loaded", op |-> op, contract |-> c, entity |-> e, dirty |-> {}]
<1>1. MayStart(w) /\ slot' = [slot EXCEPT ![w] = s] /\ UNCHANGED tables BY DEF Load
<1>2. slot \in [Workers -> Slot] BY DEF SInv, IInv, TypeOK
<1>3. slot'[w] = s BY <1>1, <1>2
<1>4. Fit(slot[w])' BY <1>1, <1>3 DEF Fit, After, tables
<1>5. OneInFlight' /\ FitInv' BY <1>1, <1>4, AloneStarts
<1>6. TodoInv' BY <1>1, TodoKept DEF tables
<1>7. QED BY <1>1, <1>5, <1>6, SerialTablesKept DEF SInv, SerialWork

\* The requests that load a contract find what their guards say and the renewal state
\* that goes with it.
LEMMA SerialRequestLoads ==
    ASSUME MaxInFlight = 1, SInv, NEW r \in Requests, NEW c \in Contracts,
           \/ LandlordUpdateTerms(r, c) \/ AcceptContract(r, c) \/ CancelContract(r, c)
           \/ ActivateAndUploadPdf(r, c) \/ TerminateContract(r, c) \/ CreateReview(r, c)
           \/ AcceptRenewOffer(r, c) \/ RejectRenewOffer(r, c)
    PROVE  SInv'
<1>1. r \in Workers /\ r # Cron BY WorkersAssumption DEF Workers
<1>2. IInv' BY RequestLoads DEF SInv
<1>3. UNCHANGED daily
  BY DEF LandlordUpdateTerms, AcceptContract, CancelContract, ActivateAndUploadPdf,
         TerminateContract, CreateReview, AcceptRenewOffer, RejectRenewOffer, jobs
<1>4. row[c] \in Row BY DEF SInv, IInv, TypeOK
<1>5. ASSUME NEW op \in {"revise", "accept", "cancel", "activate", "tenantTerminate",
                         "landlordTerminate"},
             NEW e, Load(r, op, c, e), Moves(op, row[c].status, e.status)
      PROVE  SInv'
  BY <1>1, <1>2, <1>3, <1>5, SerialLoad
<1>6. CASE LandlordUpdateTerms(r, c)
  <2>1. [row[c] EXCEPT !.status = "pending_tenant"].status = "pending_tenant"
    BY <1>4 DEF Row
  <2>2. QED BY <1>5, <1>6, <2>1 DEF LandlordUpdateTerms, Moves
<1>7. CASE AcceptContract(r, c)
  <2>1. /\ [row[c] EXCEPT !.status = "pending_signature"].status = "pending_signature"
        /\ \A b \in BOOLEAN :
             [row[c] EXCEPT !.status = "pending_signature",
                            !.renewNotify = @ \/ b].status = "pending_signature"
    BY <1>4 DEF Row
  <2>2. row[c].status \in {"pending_landlord", "pending_tenant"}
    BY <1>7 DEF AcceptContract
  <2>3. QED BY <1>5, <1>7, <2>1, <2>2 DEF AcceptContract, Moves
<1>8. CASE CancelContract(r, c)
  <2>1. [row[c] EXCEPT !.status = "cancelled"].status = "cancelled"
    BY <1>4 DEF Row
  <2>2. QED BY <1>5, <1>8, <2>1 DEF CancelContract, Moves
<1>9. CASE ActivateAndUploadPdf(r, c)
  <2>1. [row[c] EXCEPT !.status = "active", !.number = TRUE].status = "active"
    BY <1>4 DEF Row
  <2>2. QED BY <1>5, <1>9, <2>1 DEF ActivateAndUploadPdf, Moves
<1>10. CASE TerminateContract(r, c)
  <2>1. /\ [row[c] EXCEPT !.status = "terminated", !.effective = 0].status = "terminated"
        /\ [row[c] EXCEPT !.status = "pending_termination",
                          !.effective = NoticeDays].status = "pending_termination"
    BY <1>4 DEF Row
  <2>2. QED BY <1>5, <1>10, <2>1 DEF TerminateContract, Live, Moves
<1>11. CASE CreateReview(r, c)
  <2>1. /\ [row[c] EXCEPT !.isReviewed = TRUE].status = row[c].status
        /\ [row[c] EXCEPT !.isReviewed = TRUE].effective = row[c].effective
    BY <1>4 DEF Row
  <2>2. Load(r, "review", c, [row[c] EXCEPT !.isReviewed = TRUE])
    BY <1>11 DEF CreateReview
  <2>3. QED BY <1>1, <1>2, <1>3, <2>1, <2>2, SerialLoad DEF Moves
<1>12. CASE AcceptRenewOffer(r, c)
  <2>1. /\ row[c].status = "terminated"
        /\ \A n \in Contracts : lease[n].renewalOf # c
    BY <1>12 DEF AcceptRenewOffer, SInv, SerialTables, RenewalInv
  <2>2. Load(r, "acceptOffer", c, NoRow) BY <1>12 DEF AcceptRenewOffer
  <2>3. QED BY <1>1, <1>2, <1>3, <2>1, <2>2, SerialLoad DEF SaveOps
<1>13. CASE RejectRenewOffer(r, c)
  <2>1. Load(r, "rejectOffer", c, NoRow) BY <1>13 DEF RejectRenewOffer
  <2>2. QED BY <1>1, <1>2, <1>3, <2>1, SerialLoad DEF SaveOps
<1>14. QED BY <1>6, <1>7, <1>8, <1>9, <1>10, <1>11, <1>12, <1>13

\* The nightly job finds a contract of its list as TodoInv says.
LEMMA SerialDailyLoads ==
    ASSUME MaxInFlight = 1, SInv, NEW c \in Contracts,
           AutoFinalizeTermination(c) \/ AutoExpireAndCreateRenewRequest(c)
    PROVE  SInv'
<1>1. Cron \in Workers BY DEF Workers
<1>2. IInv' BY DailyLoads DEF SInv
<1>3. row[c] \in Row /\ daily \in [phase : {"idle", "finalize", "expire"},
                                   todo : SUBSET Contracts]
  BY DEF SInv, IInv, TypeOK
<1>4. c \in daily.todo /\ daily'.phase = daily.phase /\ daily'.todo \subseteq daily.todo
  BY <1>3 DEF AutoFinalizeTermination, AutoExpireAndCreateRenewRequest
<1>5. CASE AutoFinalizeTermination(c)
  <2>1. /\ daily.phase = "finalize"
        /\ Load(Cron, "finalize", c, [row[c] EXCEPT !.status = "terminated"])
    BY <1>5 DEF AutoFinalizeTermination
  <2>2. [row[c] EXCEPT !.status = "terminated"].status = "terminated"
    BY <1>3 DEF Row
  <2>3. \/ row[c].status = "terminated"
        \/ row[c].status = "pending_termination" /\ row[c].effective = 0
    BY <1>4, <2>1 DEF SInv, SerialWork, TodoInv
  <2>4. Moves("finalize", row[c].status, "terminated") BY <2>3 DEF Moves
  <2>5. QED BY <1>1, <1>2, <1>4, <2>1, <2>2, <2>3, <2>4, SerialLoad
<1>6. CASE AutoExpireAndCreateRenewRequest(c)
  <2> DEFINE op == IF row[c].renewNotify THEN "expireAndOffer" ELSE "expire"
             e  == [row[c] EXCEPT !.status = "terminated", !.effective = 0]
  <2>1. daily.phase = "expire" /\ Load(Cron, op, c, e)
    BY <1>6 DEF AutoExpireAndCreateRenewRequest
  <2>2. e.status = "terminated" BY <1>3 DEF Row
  <2>3. row[c].status \in {"active", "pending_termination", "terminated"}
    BY <1>4, <2>1 DEF SInv, SerialWork, TodoInv
  <2>4. ends[c] = 0 BY <1>4, <2>1 DEF SInv, IInv, JobInv
  <2>5. op \in {"expire", "expireAndOffer"} OBVIOUS
  <2> HIDE DEF op, e
  <2>6. Moves(op, row[c].status, e.status) BY <2>2, <2>3, <2>5 DEF Moves
  <2>7. QED BY <1>1, <1>2, <1>4, <2>1, <2>2, <2>4, <2>5, <2>6, SerialLoad
<1>7. QED BY <1>5, <1>6

\* The SELECT leaves what the handler will leave behind as it was.
LEMMA AfterSelect ==
    ASSUME NEW e \in Row, NEW r \in Row
    PROVE  LET d == Differing(e, r)
               x == Written(Written(e, NoRow, d), r, d)
           IN  x.status = e.status /\ x.effective = e.effective
<1> DEFINE d == Differing(e, r)
           y == Written(e, NoRow, d)
<1>1. /\ "status" \notin d => e.status = r.status
      /\ "effective" \notin d => e.effective = r.effective
  BY DEF Differing, Columns
<1> HIDE DEF d
<1>2. /\ "status" \in d => y.status = e.status
      /\ "effective" \in d => y.effective = e.effective
  BY DEF Written
<1> HIDE DEF y
<1>3. Written(y, r, d).status = e.status /\ Written(y, r, d).effective = e.effective
  BY <1>1, <1>2 DEF Written
<1>4. QED BY <1>3 DEF d, y

\* The SELECT of save: the entity is reduced to what the UPDATE will write.
LEMMA SerialSelect ==
    ASSUME SInv, NEW w \in Workers, SaveSelect(w)
    PROVE  SInv'
<1> DEFINE s == slot[w]
           c == s.contract
           d == Differing(s.entity, row[c])
           t == [at |-> "selected", op |-> s.op, contract |-> c,
                 entity |-> Written(s.entity, NoRow, d), dirty |-> d]
<1>1. /\ s.at = "loaded" /\ s.op \in SaveOps /\ slot' = [slot EXCEPT ![w] = t]
      /\ UNCHANGED tables /\ UNCHANGED jobs
  BY DEF SaveSelect
<1>2. IInv' BY SelectStep DEF SInv
<1>3. slot \in [Workers -> Slot] /\ s \in Slot /\ Sound(s) /\ Fit(s)
  BY <1>1 DEF SInv, IInv, TypeOK, SlotInv, SerialWork, FitInv
<1>4. c \in Contracts /\ row[c] \in Row /\ s.entity \in Row
  BY <1>3 DEF Sound, Slot, SInv, IInv, TypeOK
<1>5. /\ slot'[w] = t /\ \A v \in Workers \ {w} : slot'[v] = slot[v]
  BY <1>1, <1>3
<1>6. /\ Written(t.entity, row[c], t.dirty).status = s.entity.status
      /\ Written(t.entity, row[c], t.dirty).effective = s.entity.effective
  BY <1>4, AfterSelect
<1>7. /\ slot'[w].at = "selected" /\ slot'[w].op = s.op /\ slot'[w].contract = c
      /\ UNCHANGED <<row, lease, ends>>
  BY <1>1, <1>5 DEF tables
<1>8. /\ After(slot[w])'.status = After(slot[w]).status
      /\ After(slot[w])'.effective = After(slot[w]).effective
  BY <1>1, <1>5, <1>6, <1>7 DEF After
<1> HIDE DEF t
<1>9. \A v \in Workers \ {w} : slot[v].at = "idle"
  BY <1>1 DEF SInv, SerialWork, OneInFlight
<1>10. OneInFlight' BY <1>5, <1>9 DEF OneInFlight
<1>11. Cron \in Workers BY DEF Workers
<1>12. slot'[Cron].op # "tenantTerminate"
  BY <1>5, <1>7, <1>11 DEF SInv, SerialWork, FitInv
<1>13. Fit(slot[w])' BY <1>3, <1>7, <1>8 DEF Fit
<1>14. FitInv' BY <1>5, <1>9, <1>12, <1>13 DEF FitInv
<1>15. TodoInv' BY <1>1, TodoKept DEF tables, jobs
<1>16. QED BY <1>1, <1>2, <1>10, <1>14, <1>15, SerialTablesKept DEF SInv, SerialWork

\* Lists, failures and the end of a job touch neither tables nor what a handler relies on.
LEMMA SerialLists ==
    ASSUME SInv, StartDaily \/ StartExpirations \/ FinishDaily
    PROVE  SInv'
<1>1. IInv' BY DailyLists DEF SInv
<1>2. UNCHANGED tables /\ UNCHANGED slot
  BY DEF StartDaily, StartExpirations, FinishDaily
<1>3. OneInFlight' /\ FitInv' BY <1>2, FitKept DEF tables
<1>4. TodoInv'
  <2>1. row' = row BY <1>2 DEF tables
  <2>2. QED BY <2>1 DEF StartDaily, StartExpirations, FinishDaily, TodoInv,
                        NoticesServed, LeasesRunOut
<1>5. QED BY <1>1, <1>2, <1>3, <1>4, SerialTablesKept DEF SInv, SerialWork

\* A failure or a restart leaves what was written, and the other job has no handler.
LEMMA SerialFailures ==
    ASSUME SInv,
           \/ \E r \in Requests : RequestFails(r)
           \/ DailyItemFails \/ Crash \/ StartExpiredOffers \/ AbandonExpiredOffers
    PROVE  SInv'
<1>1. IInv' BY Failures, OfferLists DEF SInv
<1>2. UNCHANGED tables
  BY DEF RequestFails, DailyItemFails, Crash, StartExpiredOffers, AbandonExpiredOffers
<1>3. CASE \E r \in Requests : RequestFails(r)
  <2>1. PICK r \in Requests : RequestFails(r) BY <1>3
  <2>2. r \in Workers BY DEF Workers
  <2>3. OneInFlight' /\ FitInv' BY <2>1, <2>2, AloneEnds DEF RequestFails
  <2>4. TodoInv' BY <1>2, <2>1, TodoKept DEF RequestFails, jobs, tables
  <2>5. QED BY <1>1, <1>2, <2>3, <2>4, SerialTablesKept DEF SInv, SerialWork
<1>4. CASE DailyItemFails
  <2>1. Cron \in Workers BY DEF Workers
  <2>2. OneInFlight' /\ FitInv' BY <1>4, <2>1, AloneEnds DEF DailyItemFails
  <2>3. TodoInv' BY <1>2, <1>4, TodoKept DEF DailyItemFails, tables
  <2>4. QED BY <1>1, <1>2, <2>2, <2>3, SerialTablesKept DEF SInv, SerialWork
<1>5. CASE Crash
  <2>1. \A v \in Workers : slot'[v] = Idle BY <1>5 DEF Crash
  <2>2. Cron \in Workers /\ Idle.op = "none" /\ Idle.at = "idle" BY DEF Workers, Idle
  <2>3. OneInFlight' /\ FitInv' BY <2>1, <2>2 DEF OneInFlight, FitInv
  <2>4. TodoInv' BY <1>5 DEF Crash, TodoInv
  <2>5. QED BY <1>1, <1>2, <2>3, <2>4, SerialTablesKept DEF SInv, SerialWork
<1>6. CASE StartExpiredOffers \/ AbandonExpiredOffers
  <2>1. UNCHANGED <<slot, daily>>
    BY <1>6 DEF StartExpiredOffers, AbandonExpiredOffers
  <2>2. OneInFlight' /\ FitInv' BY <1>2, <2>1, FitKept DEF tables
  <2>3. TodoInv' BY <1>2, <2>1, TodoKept DEF tables
  <2>4. QED BY <1>1, <1>2, <2>2, <2>3, SerialTablesKept DEF SInv, SerialWork
<1>7. QED BY <1>3, <1>4, <1>5, <1>6

\* An offer that stands is written: what is said of leases and flags does not depend on it.
LEMMA OfferOnly ==
    ASSUME SInv, UNCHANGED <<row, reached, lease, ends, isRented>>, NEW c \in Contracts,
           NEW o \in {"rejected", "expired"},
           offer' = [offer EXCEPT ![c] = o], offer[c] # "none"
    PROVE  SerialTables'
<1>1. offer \in [Contracts -> OfferStatus] BY DEF SInv, IInv, TypeOK
<1>2. offer'[c] = o /\ \A x \in Contracts \ {c} : offer'[x] = offer[x] BY <1>1
<1>3. LeaseInv' BY DEF SInv, SerialTables, LeaseInv, Exists
<1>4. RenewalInv'
  <2>1. \A x \in Contracts :
          /\ offer'[x] # "none" => row[x].status = "terminated"
          /\ offer'[x] = "accepted" => \E n \in Contracts : lease[n].renewalOf = x
          /\ offer'[x] \in {"none", "pending"} =>
                 \A n \in Contracts : lease[n].renewalOf # x
    BY <1>2 DEF SInv, SerialTables, RenewalInv
  <2>2. QED BY <2>1 DEF SInv, SerialTables, RenewalInv
<1>5. RentedMeansOccupied'
  BY DEF SInv, SerialTables, RentedTracksLeases, RentedMeansOccupied, Live
<1>6. SoleLeaseIsRented'
  BY DEF SInv, SerialTables, RentedTracksLeases, SoleLeaseIsRented, Live
<1>7. QED BY <1>3, <1>4, <1>5, <1>6 DEF SerialTables, RentedTracksLeases

\* An offer is rejected by its tenant or runs out.
LEMMA SerialOffers ==
    ASSUME SInv, \/ \E r \in Workers : RejectOfferCommit(r)
                 \/ \E c \in Contracts : ExpireOffer(c)
    PROVE  SInv'
<1>1. CASE \E r \in Workers : RejectOfferCommit(r)
  <2>1. PICK r \in Workers : RejectOfferCommit(r) BY <1>1
  <2>2. IInv' BY <2>1, RejectOfferStep DEF SInv
  <2>3. /\ slot[r].at = "loaded" /\ slot[r].op = "rejectOffer" /\ Done(r)
        /\ offer' = [offer EXCEPT ![slot[r].contract] = "rejected"]
        /\ UNCHANGED <<row, reached, lease, ends, isRented>> /\ UNCHANGED daily
    BY <2>1 DEF RejectOfferCommit, jobs
  <2>4. slot[r].contract \in Contracts /\ offer[slot[r].contract] # "none"
    BY <2>3 DEF SInv, IInv, SlotInv, Sound
  <2>5. SerialTables' BY <2>3, <2>4, OfferOnly
  <2>6. OneInFlight' /\ FitInv' BY <2>3, AloneEnds
  <2>7. TodoInv' BY <2>3, TodoKept
  <2>8. QED BY <2>2, <2>5, <2>6, <2>7 DEF SInv, SerialWork
<1>2. CASE \E c \in Contracts : ExpireOffer(c)
  <2>1. PICK c \in Contracts : ExpireOffer(c) BY <1>2
  <2>2. IInv' BY <2>1, ExpireOfferStep DEF SInv
  <2>3. /\ offer' = [offer EXCEPT ![c] = "expired"] /\ offer[c] # "none"
        /\ UNCHANGED <<row, reached, lease, ends, isRented, slot, daily>>
    BY <2>1 DEF ExpireOffer, SInv, IInv, JobInv
  <2>4. SerialTables' BY <2>3, OfferOnly
  <2>5. OneInFlight' /\ FitInv' BY <2>3, FitKept
  <2>6. TodoInv' BY <2>3, TodoKept
  <2>7. QED BY <2>2, <2>4, <2>5, <2>6 DEF SInv, SerialWork
<1>3. QED BY <1>1, <1>2

-----------------------------------------------------------------------------
(* Commits.                                                                *)

\* What a commit does: the row becomes what its handler was to leave behind, and that is
\* one of Moves.
LEMMA CommitFacts ==
    ASSUME SInv, NEW w \in Workers, SaveCommit(w)
    PROVE  LET s == slot[w]
               c == s.contract
               p == lease[c].property
           IN  /\ s.at = "selected" /\ s.op \in SaveOps /\ Fit(s)
               /\ c \in Contracts /\ Exists(c) /\ p \in Properties
               /\ row'[c] = After(s) /\ Moves(s.op, row[c].status, row'[c].status)
               /\ row'[c].status \in Status \ {"none"}
               /\ \A o \in Contracts \ {c} : row'[o] = row[o]
               /\ reached'[c] = reached[c] \cup {row'[c].status}
               /\ \A o \in Contracts \ {c} : reached'[o] = reached[o]
               /\ isRented'[p] = RentedAfter(s.op, isRented[p])
               /\ \A q \in Properties \ {p} : isRented'[q] = isRented[q]
               /\ \A o \in Contracts \ {c} : offer'[o] = offer[o]
               /\ \/ offer'[c] = offer[c]
                  \/ s.op = "expireAndOffer" /\ offer[c] = "none" /\ offer'[c] = "pending"
               /\ UNCHANGED <<lease, ends, daily>> /\ Done(w)
<1> DEFINE s == slot[w]
           c == s.contract
           p == lease[c].property
           r == Written(s.entity, row[c], s.dirty)
<1>1. s.at = "selected" /\ s \in Slot /\ Sound(s) /\ Fit(s)
  BY DEF SaveCommit, SInv, IInv, TypeOK, SlotInv, SerialWork, FitInv
<1>2. s.op \in SaveOps /\ c \in Contracts /\ Exists(c) BY <1>1 DEF Sound
<1>3. p \in Properties BY <1>2 DEF SInv, SerialTables, LeaseInv
<1>4. /\ row \in [Contracts -> Row] /\ reached \in [Contracts -> SUBSET Status]
      /\ isRented \in [Properties -> BOOLEAN] /\ offer \in [Contracts -> OfferStatus]
  BY DEF SInv, IInv, TypeOK
<1>5. r = After(s) /\ r \in Row
  BY <1>1, <1>2, <1>4, WrittenType DEF After, Slot
<1>6. Moves(s.op, row[c].status, r.status) BY <1>1, <1>2, <1>5 DEF Fit
<1>7. r.status \in Status \ {"none"} BY <1>2, <1>5, <1>6 DEF Moves, Exists, Row
<1>8. Put(c, r) /\ Done(w) /\ UNCHANGED <<lease, ends>> /\ UNCHANGED daily
  BY DEF SaveCommit, jobs
<1> HIDE DEF r
<1>9. /\ row'[c] = r /\ \A o \in Contracts \ {c} : row'[o] = row[o]
      /\ reached'[c] = reached[c] \cup {r.status}
      /\ \A o \in Contracts \ {c} : reached'[o] = reached[o]
  BY <1>2, <1>4, <1>8 DEF Put
<1>10. /\ isRented'[p] = RentedAfter(s.op, isRented[p])
       /\ \A q \in Properties \ {p} : isRented'[q] = isRented[q]
  BY <1>3, <1>4 DEF SaveCommit
<1>11. /\ \A o \in Contracts \ {c} : offer'[o] = offer[o]
       /\ \/ offer'[c] = offer[c]
          \/ s.op = "expireAndOffer" /\ offer[c] = "none" /\ offer'[c] = "pending"
  BY <1>2, <1>4 DEF SaveCommit
<1>12. QED BY <1>1, <1>2, <1>3, <1>5, <1>6, <1>7, <1>8, <1>9, <1>10, <1>11

\* A save keeps what is said of offers and renewals: only what ran out gets an offer.
LEMMA CommitRenewals ==
    ASSUME SInv, NEW w \in Workers, SaveCommit(w)
    PROVE  RenewalInv'
<1> DEFINE s == slot[w]
           c == s.contract
<1>1. /\ s.op \in SaveOps /\ c \in Contracts /\ lease' = lease
      /\ Moves(s.op, row[c].status, row'[c].status)
      /\ \A o \in Contracts \ {c} : row'[o] = row[o] /\ offer'[o] = offer[o]
      /\ \/ offer'[c] = offer[c]
         \/ s.op = "expireAndOffer" /\ offer[c] = "none" /\ offer'[c] = "pending"
  BY CommitFacts
<1>2. row[c].status = "terminated" \/ s.op = "expireAndOffer" =>
          row'[c].status = "terminated"
  BY <1>1 DEF Moves
<1>3. RenewalInv BY DEF SInv, SerialTables
<1>4. \A x \in Contracts : offer'[x] # "none" => row'[x].status = "terminated"
  BY <1>1, <1>2, <1>3 DEF RenewalInv
<1>5. \A x \in Contracts :
        /\ offer'[x] = "accepted" => \E n \in Contracts : lease'[n].renewalOf = x
        /\ offer'[x] \in {"none", "pending"} =>
               \A n \in Contracts : lease'[n].renewalOf # x
  BY <1>1, <1>3 DEF RenewalInv
<1>6. \A m, n \in Contracts :
        lease'[m].renewalOf # NoContract /\ lease'[m].renewalOf = lease'[n].renewalOf =>
            m = n
  BY <1>1, <1>3 DEF RenewalInv
<1>7. QED BY <1>4, <1>5, <1>6 DEF RenewalInv

\* A save keeps isRented in step with the leases: it is cleared when the one live lease of
\* the property ends, and of a contract that was live no other counts as the sole one.
LEMMA CommitRented ==
    ASSUME SInv, NEW w \in Workers, SaveCommit(w)
    PROVE  RentedTracksLeases'
<1> DEFINE s == slot[w]
           c == s.contract
           p == lease[c].property
<1>1. /\ s.op \in SaveOps /\ c \in Contracts /\ Exists(c) /\ p \in Properties
      /\ lease' = lease
      /\ Moves(s.op, row[c].status, row'[c].status)
      /\ \A o \in Contracts \ {c} : row'[o] = row[o] /\ reached'[o] = reached[o]
      /\ reached'[c] = reached[c] \cup {row'[c].status}
      /\ isRented'[p] = RentedAfter(s.op, isRented[p])
      /\ \A q \in Properties \ {p} : isRented'[q] = isRented[q]
  BY CommitFacts
<1>2. RentedMeansOccupied /\ SoleLeaseIsRented
  BY DEF SInv, SerialTables, RentedTracksLeases
<1>3. \A o \in Contracts : /\ lease[o].property \in Properties \/ ~Exists(o)
                           /\ Live(o) => Exists(o)
  BY DEF SInv, SerialTables, LeaseInv, Live, Exists
<1>4. CASE s.op = "activate"
  <2>1. isRented'[p] /\ row'[c].status = "active"
    BY <1>1, <1>4 DEF RentedAfter, Moves
  <2>2. RentedMeansOccupied'
    BY <1>1, <1>2, <2>1 DEF RentedMeansOccupied, Live
  <2>3. SoleLeaseIsRented'
    <3> SUFFICES ASSUME NEW o \in Contracts, Live(o)', ~lease[o].direct,
                        \A x \in Contracts \ {o} : lease[x].property = lease[o].property
                            => "active" \notin reached'[x],
                        lease[o].property # p
                 PROVE  isRented'[lease[o].property]
      BY <1>1, <2>1 DEF SoleLeaseIsRented
    <3>1. o # c BY <1>1
    <3>2. Live(o) BY <1>1, <3>1 DEF Live
    <3>3. \A x \in Contracts \ {o} : lease[x].property = lease[o].property
              => "active" \notin reached[x]
      BY <1>1
    <3>4. isRented[lease[o].property] BY <1>2, <3>2, <3>3 DEF SoleLeaseIsRented
    <3>5. QED BY <1>1, <1>3, <3>2, <3>4
  <2>4. QED BY <2>2, <2>3 DEF RentedTracksLeases
<1>5. CASE s.op \in {"tenantTerminate", "finalize", "expire", "expireAndOffer"}
  <2>1. ~isRented'[p] /\ row'[c].status = "terminated"
        /\ row[c].status \in {"active", "pending_termination", "terminated"}
    BY <1>1, <1>5 DEF RentedAfter, Moves
  <2>2. RentedMeansOccupied'
    BY <1>1, <1>2, <2>1 DEF RentedMeansOccupied, Live
  <2>3. "active" \in reached[c]
    <3>1. row[c].status \in reached[c] /\ Earned(c, row[c].status)
      BY <1>1, LoadedFacts DEF SInv
    <3>2. QED BY <2>1, <3>1 DEF Earned
  <2>4. SoleLeaseIsRented'
    <3> SUFFICES ASSUME NEW o \in Contracts, Live(o)', ~lease[o].direct,
                        \A x \in Contracts \ {o} : lease[x].property = lease[o].property
                            => "active" \notin reached'[x]
                 PROVE  isRented'[lease[o].property]
      BY <1>1 DEF SoleLeaseIsRented
    <3>1. o # c BY <2>1 DEF Live
    <3>2. Live(o) BY <1>1, <3>1 DEF Live
    <3>3. "active" \in reached'[c] BY <1>1, <2>3
    <3>4. lease[o].property # p BY <1>1, <3>1, <3>3
    <3>5. \A x \in Contracts \ {o} : lease[x].property = lease[o].property
              => "active" \notin reached[x]
      BY <1>1
    <3>6. isRented[lease[o].property] BY <1>2, <3>2, <3>5 DEF SoleLeaseIsRented
    <3>7. QED BY <1>1, <1>3, <3>2, <3>4, <3>6
  <2>5. QED BY <2>2, <2>4 DEF RentedTracksLeases
<1>6. CASE s.op \in {"revise", "accept", "cancel", "landlordTerminate", "review"}
  <2>1. /\ isRented'[p] = isRented[p]
        /\ row'[c].status \in {"active", "pending_termination"} <=>
               row[c].status \in {"active", "pending_termination"}
        /\ row[c].status = "pending_signature" => row'[c].status = "pending_signature"
        /\ "active" \in reached'[c] <=> "active" \in reached[c]
    <3>1. \A b \in BOOLEAN : RentedAfter(s.op, b) = b
      <4>1. s.op # "activate"
            /\ s.op \notin {"tenantTerminate", "finalize", "expire", "expireAndOffer"}
        BY <1>6
      <4>2. QED BY <4>1 DEF RentedAfter
    <3>2. isRented[p] \in BOOLEAN BY <1>1 DEF SInv, IInv, TypeOK
    <3>3. isRented'[p] = isRented[p] BY <1>1, <3>1, <3>2
    <3>4. row[c].status \in reached[c] BY <1>1, LoadedFacts DEF SInv
    <3>5. /\ row'[c].status \in {"active", "pending_termination"} <=>
                 row[c].status \in {"active", "pending_termination"}
          /\ row[c].status = "pending_signature" => row'[c].status = "pending_signature"
          /\ row'[c].status = "active" => row[c].status = "active"
      BY <1>1, <1>6 DEF Moves
    <3>6. "active" \in reached'[c] <=> "active" \in reached[c] BY <1>1, <3>4, <3>5
    <3>7. QED BY <3>3, <3>5, <3>6
  <2>2. \A q \in Properties : isRented'[q] = isRented[q] BY <1>1, <2>1
  <2>3. \A o \in Contracts : /\ Live(o)' <=> Live(o)
                             /\ "active" \in reached'[o] <=> "active" \in reached[o]
    <3>1. \A o \in Contracts : Live(o)' <=> Live(o) BY <1>1, <2>1 DEF Live
    <3>2. QED BY <1>1, <2>1, <3>1
  <2>4. \A o \in Contracts : row[o].status = "pending_signature" =>
                                 row'[o].status = "pending_signature"
    BY <1>1, <2>1
  <2>5. RentedMeansOccupied'
    BY <1>1, <1>2, <2>2, <2>3, <2>4 DEF RentedMeansOccupied
  <2>6. SoleLeaseIsRented'
    BY <1>1, <1>2, <1>3, <2>2, <2>3 DEF SoleLeaseIsRented
  <2>7. QED BY <2>5, <2>6 DEF RentedTracksLeases
<1>7. QED BY <1>1, <1>4, <1>5, <1>6 DEF SaveOps

\* The UPDATE of save, with what its transaction does to the property and the offer.
LEMMA SerialCommit ==
    ASSUME SInv, NEW w \in Workers, SaveCommit(w)
    PROVE  SInv'
<1> DEFINE s == slot[w]
           c == s.contract
<1>1. /\ s.at = "selected" /\ s.op \in SaveOps /\ Fit(s) /\ c \in Contracts /\ Exists(c)
      /\ row'[c] = After(s)
      /\ Moves(s.op, row[c].status, row'[c].status)
      /\ row'[c].status \in Status \ {"none"}
      /\ \A o \in Contracts \ {c} : row'[o] = row[o]
      /\ UNCHANGED <<lease, ends, daily>> /\ Done(w)
  BY CommitFacts
<1>2. IInv' BY CommitStep DEF SInv
<1>3. OneInFlight' /\ FitInv' BY <1>1, AloneEnds
<1>4. LeaseInv' BY <1>1 DEF SInv, SerialTables, LeaseInv, Exists
<1>5. TodoInv'
  <2>1. TodoInv /\ daily.todo \subseteq Contracts
    BY DEF SInv, SerialWork, IInv, TypeOK
  <2>2. row[c].status = "terminated" => row'[c].status = "terminated"
    BY <1>1 DEF Moves
  <2>3. row[c].status = "pending_termination" /\ row[c].effective = 0 =>
            \/ row'[c].status = "terminated"
            \/ row'[c].status = "pending_termination" /\ row'[c].effective = 0
    BY <1>1 DEF Moves, Fit
  <2>4. row[c].status \in {"active", "pending_termination", "terminated"} =>
            row'[c].status \in {"active", "pending_termination", "terminated"}
    BY <1>1 DEF Moves
  <2>5. QED BY <1>1, <2>1, <2>2, <2>3, <2>4 DEF TodoInv
<1>6. QED BY <1>2, <1>3, <1>4, <1>5, CommitRenewals, CommitRented
          DEF SInv, SerialTables, SerialWork

\* The direct activation: the contract is still the landlord's to decide, so no offer and
\* no list of the jobs is about it, and SoleLeaseIsRented does not speak of it.
LEMMA SerialDirect ==
    ASSUME SInv, NEW r \in Workers, DirectActivate(r)
    PROVE  SInv'
<1> DEFINE c == slot[r].contract
<1>1. /\ slot[r].at = "loaded" /\ slot[r].op = "directActivate" /\ Done(r)
      /\ Put(c, [row[c] EXCEPT !.status = "active"])
      /\ UNCHANGED <<lease, ends, offer, isRented>> /\ UNCHANGED daily
  BY DEF DirectActivate, jobs
<1>2. /\ c \in Contracts /\ Exists(c) /\ lease[c].direct
      /\ row[c].status = "pending_landlord"
  BY <1>1 DEF SInv, IInv, SlotInv, Sound, SerialWork, FitInv, Fit
<1>3. /\ row \in [Contracts -> Row] /\ reached \in [Contracts -> SUBSET Status]
  BY DEF SInv, IInv, TypeOK
<1>4. /\ row'[c].status = "active" /\ \A o \in Contracts \ {c} : row'[o] = row[o]
      /\ reached'[c] = reached[c] \cup {"active"}
      /\ \A o \in Contracts \ {c} : reached'[o] = reached[o]
  <2>1. [row[c] EXCEPT !.status = "active"].status = "active" BY <1>2, <1>3 DEF Row
  <2>2. QED BY <1>1, <1>2, <1>3, <2>1 DEF Put
<1>5. IInv' BY DirectStep DEF SInv
<1>6. OneInFlight' /\ FitInv' BY <1>1, AloneEnds
<1>7. LeaseInv' BY <1>1, <1>2, <1>4 DEF SInv, SerialTables, LeaseInv, Exists
<1>8. RenewalInv' BY <1>1, <1>2, <1>4 DEF SInv, SerialTables, RenewalInv
<1>9. TodoInv'
  <2>1. TodoInv /\ daily.todo \subseteq Contracts
    BY DEF SInv, SerialWork, IInv, TypeOK
  <2>2. QED BY <1>1, <1>2, <1>4, <2>1 DEF TodoInv
<1>10. RentedMeansOccupied'
  <2>1. \A o \in Contracts : /\ Live(o) => Live(o)'
                             /\ row[o].status = "pending_signature" =>
                                    row'[o].status = "pending_signature"
    BY <1>2, <1>4 DEF Live
  <2>2. QED BY <1>1, <2>1 DEF SInv, SerialTables, RentedTracksLeases, RentedMeansOccupied
<1>11. SoleLeaseIsRented'
  <2> SUFFICES ASSUME NEW o \in Contracts, Live(o)', ~lease[o].direct,
                      \A x \in Contracts \ {o} : lease[x].property = lease[o].property
                          => "active" \notin reached'[x]
               PROVE  isRented[lease[o].property]
    BY <1>1 DEF SoleLeaseIsRented
  <2>1. o # c BY <1>2
  <2>2. Live(o) BY <1>4, <2>1 DEF Live
  <2>3. \A x \in Contracts \ {o} : lease[x].property = lease[o].property
            => "active" \notin reached[x]
    BY <1>4
  <2>4. QED BY <2>2, <2>3 DEF SInv, SerialTables, RentedTracksLeases, SoleLeaseIsRented
<1>12. QED BY <1>5, <1>6, <1>7, <1>8, <1>9, <1>10, <1>11
           DEF SInv, SerialTables, SerialWork, RentedTracksLeases

-----------------------------------------------------------------------------
(* New contracts.                                                          *)

\* What an INSERT does.
LEMMA InsertFacts ==
    ASSUME SInv, NEW n \in Contracts, NEW st \in Status, st # "none", NEW l,
           NEW days, Insert(n, st, l, days)
    PROVE  /\ ~Exists(n) /\ offer[n] = "none" /\ lease[n] = NoLease
           /\ row'[n].status = st /\ \A o \in Contracts \ {n} : row'[o] = row[o]
           /\ reached'[n] = {st} /\ \A o \in Contracts \ {n} : reached'[o] = reached[o]
           /\ lease'[n] = l /\ \A o \in Contracts \ {n} : lease'[o] = lease[o]
           /\ \A o \in Contracts \ {n} : ends'[o] = ends[o]
<1>1. ~Exists(n) /\ Put(n, NewRow(st)) /\ lease' = [lease EXCEPT ![n] = l]
      /\ ends' = [ends EXCEPT ![n] = days]
  BY DEF Insert
<1>2. /\ row \in [Contracts -> Row] /\ reached \in [Contracts -> SUBSET Status]
      /\ lease \in [Contracts -> Lease] /\ ends \in [Contracts -> 0..MaxTerm]
  BY DEF SInv, IInv, TypeOK
<1>3. reached[n] = {} BY <1>1 DEF SInv, IInv, RowInv, Exists
<1>4. NewRow(st).status = st BY NewRowType
<1>5. offer[n] = "none" /\ lease[n] = NoLease
  BY <1>1 DEF SInv, SerialTables, RenewalInv, LeaseInv, Exists
<1>6. QED BY <1>1, <1>2, <1>3, <1>4, <1>5 DEF Put

\* A new contract that is yet to be agreed upon changes nothing that is said of the others.
LEMMA SerialCreate ==
    ASSUME MaxInFlight = 1, SInv, NEW r \in Requests, NEW c \in Contracts,
           NEW p \in Properties, Create(r, c, p) \/ AdminCreate(r, c, p)
    PROVE  SInv'
<1>1. r \in Workers /\ r # Cron BY WorkersAssumption DEF Workers
<1>2. IInv' BY CreateStep DEF SInv
<1>3. /\ MayStart(r) /\ UNCHANGED <<offer, isRented>> /\ UNCHANGED daily
  BY DEF Create, AdminCreate, jobs
<1>4. PICK b \in BOOLEAN, days \in 1..MaxTerm :
          Insert(c, "pending_landlord",
                 [property |-> p, renewalOf |-> NoContract, direct |-> b], days)
  BY DEF Create, AdminCreate
<1> DEFINE l == [property |-> p, renewalOf |-> NoContract, direct |-> b]
<1>5. /\ ~Exists(c) /\ offer[c] = "none" /\ lease[c] = NoLease
      /\ row'[c].status = "pending_landlord"
      /\ \A o \in Contracts \ {c} : row'[o] = row[o]
      /\ reached'[c] = {"pending_landlord"}
      /\ \A o \in Contracts \ {c} : reached'[o] = reached[o]
      /\ lease'[c] = l /\ \A o \in Contracts \ {c} : lease'[o] = lease[o]
  BY <1>4, InsertFacts DEF Status
<1>6. l.property = p /\ l.renewalOf = NoContract /\ NoLease.renewalOf = NoContract
      /\ NoLease.property = NoProperty
  BY DEF NoLease
<1> HIDE DEF l
<1>7. LeaseInv' BY <1>5, <1>6 DEF SInv, SerialTables, LeaseInv, Exists
<1>8. RenewalInv'
  <2>1. \A o \in Contracts : lease'[o].renewalOf = lease[o].renewalOf BY <1>5, <1>6
  <2>2. \A o \in Contracts : row[o].status = "terminated" => row'[o].status = "terminated"
    BY <1>5 DEF Exists
  <2>3. QED BY <1>3, <2>1, <2>2 DEF SInv, SerialTables, RenewalInv
<1>9. RentedMeansOccupied'
  <2>1. \A o \in Contracts : Live(o) \/ row[o].status = "pending_signature" => o # c
    BY <1>5 DEF Live, Exists
  <2>2. \A o \in Contracts \ {c} : Live(o) => Live(o)' BY <1>5 DEF Live
  <2>3. QED BY <1>3, <1>5, <2>1, <2>2
            DEF SInv, SerialTables, RentedTracksLeases, RentedMeansOccupied
<1>10. SoleLeaseIsRented'
  <2> SUFFICES ASSUME NEW o \in Contracts, Live(o)', ~lease'[o].direct,
                      \A x \in Contracts \ {o} : lease'[x].property = lease'[o].property
                          => "active" \notin reached'[x]
               PROVE  isRented[lease'[o].property]
    BY <1>3 DEF SoleLeaseIsRented
  <2>1. o # c BY <1>5 DEF Live
  <2>2. Live(o) /\ lease'[o] = lease[o] BY <1>5, <2>1 DEF Live
  <2>3. "active" \notin reached[c] BY <1>5 DEF SInv, IInv, RowInv, Exists
  <2>4. \A x \in Contracts \ {o} : lease[x].property = lease[o].property
            => "active" \notin reached[x]
    BY <1>5, <2>2, <2>3
  <2>5. isRented[lease[o].property]
    BY <2>2, <2>4 DEF SInv, SerialTables, RentedTracksLeases, SoleLeaseIsRented
  <2>6. QED BY <2>2, <2>5
<1>11. OneInFlight' /\ FitInv'
  <2>1. slot \in [Workers -> Slot] /\ \A v \in Workers : slot[v].at = "idle"
    BY <1>3, NoneInFlight DEF SInv, IInv, TypeOK, MayStart
  <2>2. CASE Create(r, c, p)
    <3>1. slot' = slot BY <2>2 DEF Create
    <3>2. QED BY <2>1, <3>1 DEF SInv, SerialWork, OneInFlight, FitInv
  <2>3. CASE AdminCreate(r, c, p)
    <3> DEFINE s == [at |-> "loaded", op |-> "directActivate", contract |-> c,
                     entity |-> NoRow, dirty |-> {}]
    <3>1. slot' = [slot EXCEPT ![r] = s] BY <2>3 DEF AdminCreate
    <3>2. slot'[r] = s BY <1>1, <2>1, <3>1
    <3>3. Fit(slot[r])' BY <1>5, <3>2 DEF Fit, SaveOps
    <3>4. QED BY <1>1, <1>3, <3>1, <3>3, AloneStarts
  <2>4. QED BY <2>2, <2>3
<1>12. TodoInv'
  <2>1. TodoInv /\ daily.todo \subseteq Contracts
    BY DEF SInv, SerialWork, IInv, TypeOK
  <2>2. QED BY <1>3, <1>5, <2>1 DEF TodoInv, Exists
<1>13. QED BY <1>2, <1>7, <1>8, <1>9, <1>10, <1>11, <1>12
           DEF SInv, SerialTables, SerialWork, RentedTracksLeases

\* What the transaction of acceptRenewOffer does, when its handler is alone.
LEMMA AcceptFacts ==
    ASSUME SInv, NEW r \in Workers, AcceptOfferCommit(r)
    PROVE  LET c == slot[r].contract
               p == lease[c].property
           IN  /\ slot[r].at = "loaded" /\ Done(r)
               /\ c \in Contracts /\ p \in Properties /\ row[c].status = "terminated"
               /\ \A o \in Contracts : lease[o].renewalOf # c
               /\ \E n \in Contracts \ {c} :
                     /\ ~Exists(n) /\ lease[n] = NoLease
                     /\ row'[n].status = "pending_signature"
                     /\ \A o \in Contracts \ {n} : row'[o] = row[o]
                     /\ reached'[n] = {"pending_signature"}
                     /\ \A o \in Contracts \ {n} : reached'[o] = reached[o]
                     /\ lease'[n] = [property |-> p, renewalOf |-> c, direct |-> FALSE]
                     /\ \A o \in Contracts \ {n} : lease'[o] = lease[o]
                     /\ offer[n] = "none" /\ offer'[n] = "none"
               /\ offer' = [offer EXCEPT ![c] = "accepted"]
               /\ isRented' = [isRented EXCEPT ![p] = TRUE]
               /\ UNCHANGED daily
<1> DEFINE c == slot[r].contract
           p == lease[c].property
           l == [property |-> p, renewalOf |-> c, direct |-> FALSE]
<1>1. /\ slot[r].at = "loaded" /\ slot[r].op = "acceptOffer" /\ Done(r)
      /\ offer' = [offer EXCEPT ![c] = "accepted"]
      /\ isRented' = [isRented EXCEPT ![p] = TRUE] /\ UNCHANGED daily
  BY DEF AcceptOfferCommit, jobs
<1>2. Sound(slot[r]) /\ Fit(slot[r]) BY <1>1 DEF SInv, IInv, SlotInv, SerialWork, FitInv
<1>3. /\ c \in Contracts /\ Exists(c) /\ row[c].status = "terminated"
      /\ \A o \in Contracts : lease[o].renewalOf # c
  BY <1>1, <1>2 DEF Sound, Fit
<1>4. p \in Properties BY <1>3 DEF SInv, SerialTables, LeaseInv
<1>5. PICK n \in Contracts, days \in 0..MaxTerm : Insert(n, "pending_signature", l, days)
  BY DEF AcceptOfferCommit
<1> HIDE DEF l
<1>6. /\ ~Exists(n) /\ lease[n] = NoLease /\ offer[n] = "none"
      /\ row'[n].status = "pending_signature"
      /\ \A o \in Contracts \ {n} : row'[o] = row[o]
      /\ reached'[n] = {"pending_signature"}
      /\ \A o \in Contracts \ {n} : reached'[o] = reached[o]
      /\ lease'[n] = l /\ \A o \in Contracts \ {n} : lease'[o] = lease[o]
  BY <1>5, InsertFacts DEF Status
<1>7. n # c BY <1>3, <1>6
<1>8. offer'[n] = "none"
  <2>1. offer \in [Contracts -> OfferStatus] BY DEF SInv, IInv, TypeOK
  <2>2. QED BY <1>1, <1>6, <1>7, <2>1
<1>9. QED BY <1>1, <1>3, <1>4, <1>6, <1>7, <1>8 DEF l

\* acceptRenewOffer: the offer is accepted and its renewal inserted in one transaction.
LEMMA SerialAccept ==
    ASSUME SInv, NEW r \in Workers, AcceptOfferCommit(r)
    PROVE  SInv'
<1> DEFINE c == slot[r].contract
           p == lease[c].property
<1>1. /\ slot[r].at = "loaded" /\ Done(r) /\ UNCHANGED daily
      /\ c \in Contracts /\ p \in Properties /\ row[c].status = "terminated"
      /\ \A o \in Contracts : lease[o].renewalOf # c
      /\ offer' = [offer EXCEPT ![c] = "accepted"]
      /\ isRented' = [isRented EXCEPT ![p] = TRUE]
  BY AcceptFacts
<1>2. PICK n \in Contracts \ {c} :
        /\ ~Exists(n) /\ lease[n] = NoLease /\ row'[n].status = "pending_signature"
        /\ \A o \in Contracts \ {n} : row'[o] = row[o]
        /\ reached'[n] = {"pending_signature"}
        /\ \A o \in Contracts \ {n} : reached'[o] = reached[o]
        /\ lease'[n] = [property |-> p, renewalOf |-> c, direct |-> FALSE]
        /\ \A o \in Contracts \ {n} : lease'[o] = lease[o]
        /\ offer[n] = "none" /\ offer'[n] = "none"
  BY AcceptFacts
<1>3. lease'[n].property = p /\ lease'[n].renewalOf = c BY <1>2
<1>4. /\ offer'[c] = "accepted" /\ \A o \in Contracts \ {c} : offer'[o] = offer[o]
      /\ isRented'[p] /\ \A q \in Properties \ {p} : isRented'[q] = isRented[q]
  BY <1>1 DEF SInv, IInv, TypeOK
<1>5. NoLease.renewalOf = NoContract /\ NoLease.property = NoProperty BY DEF NoLease
<1>6. IInv' BY AcceptOfferStep DEF SInv
<1>7. OneInFlight' /\ FitInv' BY <1>1, AloneEnds
<1>8. LeaseInv' BY <1>1, <1>2, <1>3 DEF SInv, SerialTables, LeaseInv, Exists
<1>9. RenewalInv'
  <2>1. RenewalInv BY DEF SInv, SerialTables
  <2>2. \A o \in Contracts : offer'[o] # "none" => row'[o].status = "terminated"
    <3>1. \A o \in Contracts : offer'[o] # "none" => o # n BY <1>2
    <3>2. QED BY <1>1, <1>2, <1>4, <2>1, <3>1 DEF RenewalInv
  <2>3. \A o \in Contracts : offer'[o] = "accepted" =>
            \E m \in Contracts : lease'[m].renewalOf = o
    <3> SUFFICES ASSUME NEW o \in Contracts, offer'[o] = "accepted", o # c
                 PROVE  \E m \in Contracts : lease'[m].renewalOf = o
      BY <1>3
    <3>1. PICK m \in Contracts : lease[m].renewalOf = o BY <1>4, <2>1 DEF RenewalInv
    <3>2. m # n BY <1>2, <1>5, <3>1, NullsAssumption
    <3>3. QED BY <1>2, <3>1, <3>2
  <2>4. \A o \in Contracts : offer'[o] \in {"none", "pending"} =>
            \A m \in Contracts : lease'[m].renewalOf # o
    <3> SUFFICES ASSUME NEW o \in Contracts, offer'[o] \in {"none", "pending"},
                        NEW m \in Contracts
                 PROVE  lease'[m].renewalOf # o
      OBVIOUS
    <3>1. o # c BY <1>4
    <3>2. lease[m].renewalOf # o BY <1>4, <2>1, <3>1 DEF RenewalInv
    <3>3. QED BY <1>2, <1>3, <3>1, <3>2
  <2>5. \A k, m \in Contracts :
          lease'[k].renewalOf # NoContract /\ lease'[k].renewalOf = lease'[m].renewalOf
              => k = m
    BY <1>1, <1>2, <1>3, <2>1 DEF RenewalInv
  <2>6. QED BY <2>2, <2>3, <2>4, <2>5 DEF RenewalInv
<1>10. TodoInv'
  <2>1. TodoInv /\ daily.todo \subseteq Contracts
    BY DEF SInv, SerialWork, IInv, TypeOK
  <2>2. QED BY <1>1, <1>2, <2>1 DEF TodoInv, Exists
<1>11. RentedMeansOccupied'
  <2> SUFFICES ASSUME NEW q \in Properties, isRented'[q], q # p
               PROVE  \E o \in Contracts :
                          /\ lease'[o].property = q
                          /\ \/ Live(o)'
                             \/ /\ row'[o].status = "pending_signature"
                                /\ lease'[o].renewalOf # NoContract
    BY <1>1, <1>2, <1>3, NullsAssumption DEF RentedMeansOccupied
  <2>1. PICK o \in Contracts :
            /\ lease[o].property = q
            /\ \/ Live(o)
               \/ row[o].status = "pending_signature" /\ lease[o].renewalOf # NoContract
    BY <1>4 DEF SInv, SerialTables, RentedTracksLeases, RentedMeansOccupied
  <2>2. o # n BY <1>2, <2>1 DEF Live, Exists
  <2>3. QED BY <1>2, <2>1, <2>2 DEF Live
<1>12. SoleLeaseIsRented'
  <2> SUFFICES ASSUME NEW o \in Contracts, Live(o)', ~lease'[o].direct,
                      \A x \in Contracts \ {o} : lease'[x].property = lease'[o].property
                          => "active" \notin reached'[x],
                      lease'[o].property # p
               PROVE  isRented'[lease'[o].property]
    BY <1>4 DEF SoleLeaseIsRented
  <2>1. o # n BY <1>3
  <2>2. Live(o) /\ lease'[o] = lease[o] /\ Exists(o)
    BY <1>2, <2>1 DEF Live, Exists
  <2>3. lease[o].property \in Properties
    BY <2>2 DEF SInv, SerialTables, LeaseInv
  <2>4. \A x \in Contracts \ {o} : lease[x].property = lease[o].property
            => "active" \notin reached[x]
    BY <1>2, <1>5, <2>2, <2>3, NullsAssumption
  <2>5. isRented[lease[o].property]
    BY <2>2, <2>4 DEF SInv, SerialTables, RentedTracksLeases, SoleLeaseIsRented
  <2>6. QED BY <1>4, <2>2, <2>3, <2>5
<1>13. QED BY <1>6, <1>7, <1>8, <1>9, <1>10, <1>11, <1>12
           DEF SInv, SerialTables, SerialWork, RentedTracksLeases

\* Midnight finds nobody at work and changes dates only.
LEMMA SerialMidnight ==
    ASSUME SInv, Midnight
    PROVE  SInv'
<1>1. /\ row' = [c \in Contracts |-> [row[c] EXCEPT !.effective = Sooner(@)]]
      /\ UNCHANGED <<lease, offer, isRented, reached, slot, daily>>
      /\ daily.phase = "idle" /\ InFlight = {}
  BY DEF Midnight
<1>2. \A c \in Contracts : row'[c].status = row[c].status
  <2>1. \A c \in Contracts : row[c] \in Row BY DEF SInv, IInv, TypeOK
  <2>2. QED BY <1>1, <2>1 DEF Row
<1>3. IInv' BY MidnightStep DEF SInv
<1>4. \A v \in Workers : slot'[v].at = "idle" BY <1>1 DEF InFlight
<1>5. OneInFlight' /\ FitInv' BY <1>1, <1>4 DEF SInv, SerialWork, OneInFlight, FitInv
<1>6. TodoInv' BY <1>1 DEF TodoInv
<1>7. LeaseInv' BY <1>1, <1>2 DEF SInv, SerialTables, LeaseInv, Exists
<1>8. RenewalInv' BY <1>1, <1>2 DEF SInv, SerialTables, RenewalInv
<1>9. \A c \in Contracts : Live(c)' <=> Live(c) BY <1>2 DEF Live
<1>10. RentedMeansOccupied'
  <2> SUFFICES ASSUME NEW p \in Properties, isRented[p]
               PROVE  \E c \in Contracts :
                          /\ lease[c].property = p
                          /\ \/ Live(c)'
                             \/ /\ row'[c].status = "pending_signature"
                                /\ lease[c].renewalOf # NoContract
    BY <1>1 DEF RentedMeansOccupied
  <2>1. PICK c \in Contracts :
            /\ lease[c].property = p
            /\ \/ Live(c)
               \/ row[c].status = "pending_signature" /\ lease[c].renewalOf # NoContract
    BY DEF SInv, SerialTables, RentedTracksLeases, RentedMeansOccupied
  <2>2. QED BY <1>2, <1>9, <2>1
<1>11. SoleLeaseIsRented'
  BY <1>1, <1>9 DEF SInv, SerialTables, RentedTracksLeases, SoleLeaseIsRented
<1>12. QED BY <1>3, <1>5, <1>6, <1>7, <1>8, <1>10, <1>11
           DEF SInv, SerialTables, SerialWork, RentedTracksLeases

-----------------------------------------------------------------------------
(* The invariant.                                                          *)

\* Before anything is written.
LEMMA InitSInv == Init => SInv
<1> SUFFICES ASSUME Init PROVE SInv OBVIOUS
<1>1. IInv BY InitIInv
<1>2. NoRow.status = "none" /\ Idle.at = "idle" /\ Idle.op = "none"
      /\ NoLease.renewalOf = NoContract
  BY DEF NoRow, NewRow, Idle, NoLease
<1>3. LeaseInv BY <1>2 DEF Init, LeaseInv, Exists
<1>4. RenewalInv BY <1>2, NullsAssumption DEF Init, RenewalInv
<1>5. RentedTracksLeases
  BY <1>2 DEF Init, RentedTracksLeases, RentedMeansOccupied, SoleLeaseIsRented, Live
<1>6. OneInFlight /\ FitInv /\ TodoInv
  BY <1>2 DEF Init, OneInFlight, FitInv, TodoInv, Workers
<1>7. QED BY <1>1, <1>3, <1>4, <1>5, <1>6 DEF SInv, SerialTables, SerialWork

\* Every step of handlers that do not overlap keeps the invariant.
LEMMA NextSInv == ASSUME MaxInFlight = 1 PROVE SInv /\ [Next]_vars => SInv'
<1> SUFFICES ASSUME SInv, [Next]_vars PROVE SInv' OBVIOUS
<1>1. CASE \E r \in Requests : Request(r)
  <2>1. PICK r \in Requests : Request(r) BY <1>1
  <2>2. CASE \E c \in Originals, p \in Properties : Create(r, c, p) \/ AdminCreate(r, c, p)
    BY <2>2, SerialCreate, OriginalsAssumption
  <2>3. CASE \E c \in Contracts :
               \/ LandlordUpdateTerms(r, c) \/ AcceptContract(r, c) \/ CancelContract(r, c)
               \/ ActivateAndUploadPdf(r, c) \/ TerminateContract(r, c) \/ CreateReview(r, c)
               \/ AcceptRenewOffer(r, c) \/ RejectRenewOffer(r, c)
    BY <2>3, SerialRequestLoads
  <2>4. QED BY <2>1, <2>2, <2>3 DEF Request
<1>2. CASE \E w \in Workers : Finish(w)
  BY <1>2, SerialSelect, SerialCommit, SerialDirect, SerialAccept, SerialOffers DEF Finish
<1>3. CASE (\E r \in Requests : RequestFails(r)) \/ DailyItemFails \/ Crash
           \/ AbandonExpiredOffers
  BY <1>3, SerialFailures
<1>4. CASE DailyJob BY <1>4, SerialLists, SerialDailyLoads DEF DailyJob
<1>5. CASE OfferJob BY <1>5, SerialFailures, SerialOffers DEF OfferJob
<1>6. CASE Midnight BY <1>6, SerialMidnight
<1>7. CASE UNCHANGED vars
  <2>1. UNCHANGED tables /\ UNCHANGED slot /\ UNCHANGED daily BY <1>7 DEF vars, tables
  <2>2. IInv' BY <1>7, NextIInv DEF SInv
  <2>3. OneInFlight' /\ FitInv' BY <2>1, FitKept DEF tables
  <2>4. TodoInv' BY <2>1, TodoKept DEF tables
  <2>5. QED BY <2>1, <2>2, <2>3, <2>4, SerialTablesKept DEF SInv, SerialWork
<1>8. QED BY <1>1, <1>2, <1>3, <1>4, <1>5, <1>6, <1>7 DEF Next

\* While handlers do not overlap the invariant holds in every state that is reached.
THEOREM SerialInvariance == ASSUME MaxInFlight = 1 PROVE Spec => []SInv
<1>1. SInv /\ [Next]_vars => SInv' BY NextSInv
<1>2. QED BY <1>1, InitSInv, PTL DEF Spec

\* While handlers do not overlap, a property that search hides has a live lease or a
\* renewal that awaits signature, and a lease that is the only one is hidden: isRented,
\* which five transactions write, is in step with the leases of every property.
THEOREM RentedSerial == ASSUME MaxInFlight = 1 PROVE Spec => []RentedTracksLeases
<1>1. SInv => RentedTracksLeases BY DEF SInv, SerialTables
<1>2. QED BY <1>1, SerialInvariance, PTL

-----------------------------------------------------------------------------
(* Notices.                                                                *)

\* The writes that add to a contract's history; every other step leaves it alone.
Records(r) ==
    \/ SaveCommit(r) \/ DirectActivate(r) \/ AcceptOfferCommit(r)
    \/ r \in Requests /\ \E c \in Originals, p \in Properties :
                             Create(r, c, p) \/ AdminCreate(r, c, p)

\* The other steps change neither statuses nor leases, nor what has been reached.
LEMMA HistoryKept ==
    ASSUME [Next]_vars, ~\E w \in Workers : Records(w)
    PROVE  /\ UNCHANGED <<reached, lease>>
           /\ \A c \in Contracts : row[c] \in Row => row'[c].status = row[c].status
<1> USE DEF tables
<1> \A r \in Requests : r \in Workers BY DEF Workers
<1>1. CASE \E r \in Requests : Request(r)
  <2>1. PICK r \in Requests, c \in Contracts :
            \/ LandlordUpdateTerms(r, c) \/ AcceptContract(r, c) \/ CancelContract(r, c)
            \/ ActivateAndUploadPdf(r, c) \/ TerminateContract(r, c) \/ CreateReview(r, c)
            \/ AcceptRenewOffer(r, c) \/ RejectRenewOffer(r, c)
    BY <1>1 DEF Request, Records
  <2>2. UNCHANGED tables
    BY <2>1 DEF LandlordUpdateTerms, AcceptContract, CancelContract, TerminateContract,
                ActivateAndUploadPdf, CreateReview, AcceptRenewOffer, RejectRenewOffer, Load
  <2>3. QED BY <2>2
<1>2. CASE \E w \in Workers : Finish(w)
  <2>1. \E w \in Workers : SaveSelect(w) \/ RejectOfferCommit(w)
    BY <1>2 DEF Finish, Records
  <2>2. QED BY <2>1 DEF SaveSelect, RejectOfferCommit
<1>3. CASE (\E r \in Requests : RequestFails(r)) \/ DailyItemFails \/ Crash
           \/ AbandonExpiredOffers
  BY <1>3 DEF RequestFails, DailyItemFails, Crash, AbandonExpiredOffers
<1>4. CASE DailyJob
  BY <1>4 DEF DailyJob, StartDaily, StartExpirations, FinishDaily,
              AutoFinalizeTermination, AutoExpireAndCreateRenewRequest, Load
<1>5. CASE OfferJob BY <1>5 DEF OfferJob, StartExpiredOffers, ExpireOffer
<1>6. CASE Midnight
  <2>1. UNCHANGED <<reached, lease>> BY <1>6 DEF Midnight
  <2>2. ASSUME NEW c \in Contracts, row[c] \in Row PROVE row'[c].status = row[c].status
    <3>1. row'[c] = [row[c] EXCEPT !.effective = Sooner(@)] BY <1>6 DEF Midnight
    <3>2. QED BY <2>2, <3>1 DEF Row
  <2>3. QED BY <2>1, <2>2
<1>7. CASE UNCHANGED vars BY <1>7 DEF vars
<1>8. QED BY <1>1, <1>2, <1>3, <1>4, <1>5, <1>6, <1>7 DEF Next

\* A contract first becomes terminated by the save of the tenant's request, or of a nightly
\* handler whose contract's notice or term has run.
LEMMA NoticeStep ==
    ASSUME SInv, [Next]_vars, NEW c \in Contracts,
           "terminated" \in reached'[c] \ reached[c]
    PROVE  \/ ends[c] = 0
           \/ row[c].status = "pending_termination" /\ row[c].effective = 0
           \/ \E r \in Requests : /\ slot[r].op = "tenantTerminate"
                                  /\ slot[r].contract = c
                                  /\ slot'[r].at = "idle"
<1>1. PICK w \in Workers : Records(w) BY HistoryKept
<1>2. CASE SaveCommit(w)
  <2>1. /\ slot[w].op \in SaveOps /\ slot[w].at = "selected" /\ Fit(slot[w])
        /\ slot[w].contract \in Contracts /\ Exists(slot[w].contract)
        /\ Moves(slot[w].op, row[slot[w].contract].status, row'[slot[w].contract].status)
        /\ \A o \in Contracts \ {slot[w].contract} : reached'[o] = reached[o]
        /\ reached'[slot[w].contract] =
               reached[slot[w].contract] \cup {row'[slot[w].contract].status}
        /\ Done(w)
    BY <1>2, CommitFacts
  <2>2. c = slot[w].contract /\ row'[c].status = "terminated" BY <2>1
  <2>3. row[c].status # "terminated"
    <3>1. row[c].status \in reached[c] BY <2>1, <2>2, LoadedFacts DEF SInv
    <3>2. QED BY <3>1
  <2>4. slot[w].op \in {"tenantTerminate", "finalize", "expire", "expireAndOffer"}
    BY <2>1, <2>2, <2>3 DEF Moves
  <2>5. CASE slot[w].op = "tenantTerminate"
    <3>1. w \in Requests BY <2>5 DEF Workers, SInv, SerialWork, FitInv
    <3>2. slot \in [Workers -> Slot] BY DEF SInv, IInv, TypeOK
    <3>3. slot'[w].at = "idle" BY <2>1, <3>2, IdleType DEF Done
    <3>4. QED BY <2>2, <2>5, <3>1, <3>3
  <2>6. CASE slot[w].op = "finalize" BY <2>1, <2>2, <2>3, <2>6 DEF Moves, Fit
  <2>7. CASE slot[w].op \in {"expire", "expireAndOffer"} BY <2>1, <2>2, <2>7 DEF Fit
  <2>8. QED BY <2>4, <2>5, <2>6, <2>7
<1>3. CASE DirectActivate(w)
  <2>1. reached' = [reached EXCEPT ![slot[w].contract] =
                        @ \cup {[row[slot[w].contract] EXCEPT !.status = "active"].status}]
    BY <1>3 DEF DirectActivate, Put
  <2>2. /\ slot[w].contract \in Contracts /\ row[slot[w].contract] \in Row
        /\ reached \in [Contracts -> SUBSET Status]
    BY <1>3 DEF DirectActivate, SInv, IInv, SlotInv, Sound, TypeOK
  <2>3. [row[slot[w].contract] EXCEPT !.status = "active"].status = "active"
    BY <2>2 DEF Row
  <2>4. QED BY <2>1, <2>2, <2>3
<1>4. CASE AcceptOfferCommit(w)
  <2>1. PICK n \in Contracts : /\ reached'[n] = {"pending_signature"}
                               /\ \A o \in Contracts \ {n} : reached'[o] = reached[o]
    BY <1>4, AcceptFacts
  <2>2. QED BY <2>1
<1>5. CASE \E x \in Originals, p \in Properties : Create(w, x, p) \/ AdminCreate(w, x, p)
  <2>1. PICK x \in Originals, p \in Properties : Create(w, x, p) \/ AdminCreate(w, x, p)
    BY <1>5
  <2>2. PICK b \in BOOLEAN, days \in 1..MaxTerm :
            Insert(x, "pending_landlord",
                   [property |-> p, renewalOf |-> NoContract, direct |-> b], days)
    BY <2>1 DEF Create, AdminCreate
  <2>3. x \in Contracts BY OriginalsAssumption
  <2>4. /\ reached'[x] = {"pending_landlord"}
        /\ \A o \in Contracts \ {x} : reached'[o] = reached[o]
    BY <2>2, <2>3, InsertFacts DEF Status
  <2>5. QED BY <2>4
<1>6. QED BY <1>1, <1>2, <1>3, <1>4, <1>5 DEF Records

\* While handlers do not overlap, no lease ends early unless its tenant ends it: the job
\* that finalizes terminations never meets a contract whose notice has not run.
THEOREM NoticeIsHonoured == ASSUME MaxInFlight = 1 PROVE Spec => NoticeHonoured
<1>1. SInv /\ [Next]_vars =>
        [\A c \in Contracts : "terminated" \in reached'[c] \ reached[c] =>
           \/ ends[c] = 0
           \/ row[c].status = "pending_termination" /\ row[c].effective = 0
           \/ \E r \in Requests : /\ slot[r].op = "tenantTerminate"
                                  /\ slot[r].contract = c
                                  /\ slot'[r].at = "idle"]_vars
  BY NoticeStep
<1>2. QED BY <1>1, SerialInvariance, PTL DEF Spec, NoticeHonoured

-----------------------------------------------------------------------------
(* The refinement of LeaseStages, step by step.                            *)

\* The refinement mapping of Abstract.
Stage   == [c \in Contracts |-> StageOf[row[c].status]]
Renewed == {c \in Contracts : \E n \in Contracts : lease[n].renewalOf = c}

\* The moves that handlers make are actions of LeaseStages.
LEMMA ActionMapped ==
    ASSUME NEW c \in Contracts, NEW to, Stage' = [Stage EXCEPT ![c] = to],
           UNCHANGED Renewed,
           \/ Stage[c] = "unborn" /\ to = "negotiating"
           \/ Stage[c] = "negotiating" /\ to \in {"withdrawn", "agreed", "live"}
           \/ Stage[c] = "agreed" /\ to = "live"
           \/ Stage[c] = "live" /\ to \in {"notice", "over"}
           \/ Stage[c] = "notice" /\ to = "over"
    PROVE  Abstract!StagesNext
<1>1. UNCHANGED {y \in Contracts : \E n \in Contracts : lease[n].renewalOf = y}
  BY DEF Renewed
<1>2. CASE Stage[c] = "unborn" /\ to = "negotiating"
  <2>1. Abstract!Move(c, {"unborn"}, "negotiating") BY <1>2 DEF Abstract!Move, Stage
  <2>2. Abstract!Propose(c) BY <1>1, <2>1 DEF Abstract!Propose
  <2>3. QED BY <2>2 DEF Abstract!StagesNext
<1>3. CASE Stage[c] = "negotiating" /\ to = "withdrawn"
  <2>1. Abstract!Move(c, {"negotiating"}, "withdrawn") BY <1>3 DEF Abstract!Move, Stage
  <2>2. Abstract!Withdraw(c) BY <1>1, <2>1 DEF Abstract!Withdraw
  <2>3. QED BY <2>2 DEF Abstract!StagesNext
<1>4. CASE Stage[c] = "negotiating" /\ to = "agreed"
  <2>1. Abstract!Move(c, {"negotiating"}, "agreed") BY <1>4 DEF Abstract!Move, Stage
  <2>2. Abstract!Agree(c) BY <1>1, <2>1 DEF Abstract!Agree
  <2>3. QED BY <2>2 DEF Abstract!StagesNext
<1>5. CASE Stage[c] \in {"agreed", "negotiating"} /\ to = "live"
  <2>1. Abstract!Move(c, {"agreed", "negotiating"}, "live") BY <1>5 DEF Abstract!Move, Stage
  <2>2. Abstract!Activate(c) BY <1>1, <2>1 DEF Abstract!Activate
  <2>3. QED BY <2>2 DEF Abstract!StagesNext
<1>6. CASE Stage[c] = "live" /\ to = "notice"
  <2>1. Abstract!Move(c, {"live"}, "notice") BY <1>6 DEF Abstract!Move, Stage
  <2>2. Abstract!GiveNotice(c) BY <1>1, <2>1 DEF Abstract!GiveNotice
  <2>3. QED BY <2>2 DEF Abstract!StagesNext
<1>7. CASE Stage[c] \in {"live", "notice"} /\ to = "over"
  <2>1. Abstract!Move(c, {"live", "notice"}, "over") BY <1>7 DEF Abstract!Move, Stage
  <2>2. Abstract!EndLease(c) BY <1>1, <2>1 DEF Abstract!EndLease
  <2>3. QED BY <2>2 DEF Abstract!StagesNext
<1>8. QED BY <1>2, <1>3, <1>4, <1>5, <1>6, <1>7

\* A step that changes the status of one contract changes its stage only.
LEMMA StageMoves ==
    ASSUME NEW c \in Contracts, \A o \in Contracts \ {c} : row'[o].status = row[o].status
    PROVE  Stage' = [Stage EXCEPT ![c] = StageOf[row'[c].status]]
BY DEF Stage

\* A step that leaves statuses and leases alone is a stutter.
LEMMA StageKept ==
    ASSUME \A c \in Contracts : StageOf[row'[c].status] = StageOf[row[c].status],
           UNCHANGED lease
    PROVE  UNCHANGED Abstract!stageVars
<1>1. Stage' = Stage BY DEF Stage
<1>2. Renewed' = Renewed BY DEF Renewed
<1>3. QED BY <1>1, <1>2 DEF Abstract!stageVars, Stage, Renewed

\* A save is one move of the lease it is about, or none.
LEMMA CommitMapped ==
    ASSUME SInv, NEW w \in Workers, SaveCommit(w)
    PROVE  [Abstract!StagesNext]_(Abstract!stageVars)
<1> DEFINE s == slot[w]
           c == s.contract
<1>1. /\ c \in Contracts /\ lease' = lease
      /\ Moves(s.op, row[c].status, row'[c].status)
      /\ \A o \in Contracts \ {c} : row'[o] = row[o]
  BY CommitFacts
<1>2. PICK x \in Contracts : x = c BY <1>1
<1>3. /\ Moves(s.op, row[x].status, row'[x].status)
      /\ \A o \in Contracts \ {x} : row'[o] = row[o]
  BY <1>1, <1>2
<1> HIDE DEF c
<1>4. /\ Stage' = [Stage EXCEPT ![x] = StageOf[row'[x].status]]
      /\ Stage[x] = StageOf[row[x].status]
  BY <1>3, StageMoves DEF Stage
<1>5. UNCHANGED Renewed BY <1>1 DEF Renewed
<1>6. ASSUME row'[x].status = row[x].status
             \/ (row[x].status = "pending_landlord" /\ row'[x].status = "pending_tenant")
      PROVE  UNCHANGED Abstract!stageVars
  <2>1. \A o \in Contracts : StageOf[row'[o].status] = StageOf[row[o].status]
    BY <1>3, <1>6 DEF StageOf
  <2>2. QED BY <1>1, <2>1, StageKept
<1>7. CASE s.op \in {"revise", "review"} \/ row'[x].status = row[x].status
  <2>1. \/ row'[x].status = row[x].status
        \/ row[x].status = "pending_landlord" /\ row'[x].status = "pending_tenant"
    BY <1>3, <1>7 DEF Moves
  <2>2. QED BY <1>6, <2>1
<1>8. CASE s.op \notin {"revise", "review"} /\ row'[x].status # row[x].status
  <2> DEFINE from == row[x].status
             to   == row'[x].status
  <2>1. \/ /\ from \in {"pending_landlord", "pending_tenant"}
           /\ to \in {"pending_signature", "cancelled"}
        \/ from = "pending_signature" /\ to = "active"
        \/ from = "active" /\ to \in {"pending_termination", "terminated"}
        \/ from = "pending_termination" /\ to = "terminated"
    BY <1>3, <1>8 DEF Moves
  <2>2. \/ StageOf[from] = "negotiating" /\ StageOf[to] \in {"agreed", "withdrawn"}
        \/ StageOf[from] = "agreed" /\ StageOf[to] = "live"
        \/ StageOf[from] = "live" /\ StageOf[to] \in {"notice", "over"}
        \/ StageOf[from] = "notice" /\ StageOf[to] = "over"
    <3> HIDE DEF from, to
    <3>1. QED BY <2>1 DEF StageOf
  <2>3. QED BY <1>4, <1>5, <2>2, ActionMapped
<1>9. QED BY <1>7, <1>8

\* A direct activation, a creation and an acceptance are one move each.
LEMMA DirectMapped ==
    ASSUME SInv, NEW r \in Workers, DirectActivate(r)
    PROVE  Abstract!StagesNext
<1>1. PICK x \in Contracts : x = slot[r].contract
  BY DEF DirectActivate, SInv, IInv, SlotInv, Sound
<1>2. /\ row[x].status = "pending_landlord" /\ row \in [Contracts -> Row]
  BY <1>1 DEF DirectActivate, SInv, SerialWork, FitInv, Fit, IInv, TypeOK
<1>3. row' = [row EXCEPT ![x] = [row[x] EXCEPT !.status = "active"]] /\ lease' = lease
  BY <1>1 DEF DirectActivate, Put
<1>4. row'[x].status = "active" /\ \A o \in Contracts \ {x} : row'[o] = row[o]
  <2>1. [row[x] EXCEPT !.status = "active"].status = "active" BY <1>2 DEF Row
  <2>2. QED BY <1>2, <1>3, <2>1
<1>5. Stage' = [Stage EXCEPT ![x] = StageOf[row'[x].status]] BY <1>4, StageMoves
<1>6. Stage[x] = "negotiating" /\ Stage' = [Stage EXCEPT ![x] = "live"]
  BY <1>2, <1>4, <1>5 DEF Stage, StageOf
<1>7. UNCHANGED Renewed BY <1>3 DEF Renewed
<1>8. QED BY <1>6, <1>7, ActionMapped

\* A new contract is one new lease.
LEMMA CreateMapped ==
    ASSUME SInv, NEW r \in Requests, NEW x \in Contracts, NEW p \in Properties,
           Create(r, x, p) \/ AdminCreate(r, x, p)
    PROVE  Abstract!StagesNext
<1>1. PICK b \in BOOLEAN, days \in 1..MaxTerm :
          Insert(x, "pending_landlord",
                 [property |-> p, renewalOf |-> NoContract, direct |-> b], days)
  BY DEF Create, AdminCreate
<1> DEFINE l == [property |-> p, renewalOf |-> NoContract, direct |-> b]
<1>2. l.renewalOf = NoContract OBVIOUS
<1> HIDE DEF l
<1>3. /\ ~Exists(x) /\ lease[x] = NoLease /\ row'[x].status = "pending_landlord"
      /\ \A o \in Contracts \ {x} : row'[o] = row[o]
      /\ lease'[x] = l /\ \A o \in Contracts \ {x} : lease'[o] = lease[o]
  BY <1>1, InsertFacts DEF Status, l
<1>4. Stage' = [Stage EXCEPT ![x] = StageOf[row'[x].status]] BY <1>3, StageMoves
<1>5. Stage[x] = "unborn" /\ Stage' = [Stage EXCEPT ![x] = "negotiating"]
  BY <1>3, <1>4 DEF Stage, StageOf, Exists
<1>6. \A o \in Contracts : lease'[o].renewalOf = lease[o].renewalOf
  BY <1>2, <1>3 DEF NoLease
<1>7. UNCHANGED Renewed BY <1>6 DEF Renewed
<1>8. QED BY <1>5, <1>7, ActionMapped

\* An accepted offer is one renewal of a lease that is over.
LEMMA AcceptMapped ==
    ASSUME SInv, NEW r \in Workers, AcceptOfferCommit(r)
    PROVE  Abstract!StagesNext
<1>1. PICK c \in Contracts : c = slot[r].contract BY AcceptFacts
<1>2. /\ row[c].status = "terminated" /\ \A o \in Contracts : lease[o].renewalOf # c
  BY <1>1, AcceptFacts
<1>3. PICK n \in Contracts \ {c} :
        /\ ~Exists(n) /\ lease[n] = NoLease /\ row'[n].status = "pending_signature"
        /\ \A o \in Contracts \ {n} : row'[o] = row[o]
        /\ lease'[n].renewalOf = c
        /\ \A o \in Contracts \ {n} : lease'[o] = lease[o]
  <2>1. PICK n \in Contracts \ {c} :
            /\ ~Exists(n) /\ lease[n] = NoLease /\ row'[n].status = "pending_signature"
            /\ \A o \in Contracts \ {n} : row'[o] = row[o]
            /\ lease'[n] = [property |-> lease[c].property, renewalOf |-> c,
                            direct |-> FALSE]
            /\ \A o \in Contracts \ {n} : lease'[o] = lease[o]
    BY <1>1, AcceptFacts
  <2>2. lease'[n].renewalOf = c BY <2>1
  <2>3. QED BY <2>1, <2>2
<1>4. Stage' = [Stage EXCEPT ![n] = StageOf[row'[n].status]] BY <1>3, StageMoves
<1>5. Stage[n] \in {"unborn"} /\ Stage' = [Stage EXCEPT ![n] = "agreed"]
  BY <1>3, <1>4 DEF Stage, StageOf, Exists
<1>6. Stage[c] = "over" /\ c \notin Renewed BY <1>2 DEF Stage, StageOf, Renewed
<1>7. Renewed' = Renewed \cup {c}
  <2>1. lease[n].renewalOf = NoContract BY <1>3 DEF NoLease
  <2>2. ASSUME NEW y \in Contracts
        PROVE  y \in Renewed' <=> y \in Renewed \/ y = c
    <3>1. CASE y = c BY <1>3, <3>1 DEF Renewed
    <3>2. CASE y # c
      <4>1. \A o \in Contracts : lease'[o].renewalOf = y <=> lease[o].renewalOf = y
        BY <1>3, <2>1, <3>2, NullsAssumption
      <4>2. QED BY <3>2, <4>1 DEF Renewed
    <3>3. QED BY <3>1, <3>2
  <2>3. QED BY <2>2 DEF Renewed
<1>8. Abstract!RenewLease(c, n)
  BY <1>5, <1>6, <1>7 DEF Abstract!RenewLease, Abstract!Move, Stage, Renewed
<1>9. QED BY <1>8 DEF Abstract!StagesNext

\* While handlers do not overlap, the service and its jobs implement LeaseStages: every
\* step is one move of one lease or none.
THEOREM Implementation == ASSUME MaxInFlight = 1 PROVE Spec => ImplementsLeaseStages
<1>1. Init => Abstract!StagesInit
  <2>1. NoRow.status = "none" /\ NoLease.renewalOf = NoContract
    BY DEF NoRow, NewRow, NoLease
  <2>2. QED BY <2>1, NullsAssumption DEF Init, Abstract!StagesInit, StageOf
<1>2. SInv /\ [Next]_vars => [Abstract!StagesNext]_(Abstract!stageVars)
  <2> SUFFICES ASSUME SInv, [Next]_vars PROVE [Abstract!StagesNext]_(Abstract!stageVars)
    OBVIOUS
  <2>1. CASE ~\E w \in Workers : Records(w)
    <3>1. /\ UNCHANGED lease
          /\ \A c \in Contracts : row[c] \in Row => row'[c].status = row[c].status
      BY <2>1, HistoryKept
    <3>2. row \in [Contracts -> Row] BY DEF SInv, IInv, TypeOK
    <3>3. \A c \in Contracts : StageOf[row'[c].status] = StageOf[row[c].status]
      BY <3>1, <3>2
    <3>4. QED BY <3>1, <3>3, StageKept
  <2>2. CASE \E w \in Workers : Records(w)
    <3>1. PICK w \in Workers : Records(w) BY <2>2
    <3>2. QED BY <3>1, CommitMapped, DirectMapped, AcceptMapped, CreateMapped,
                 OriginalsAssumption DEF Records
  <2>3. QED BY <2>1, <2>2
<1>3. QED BY <1>1, <1>2, SerialInvariance, PTL
          DEF Spec, ImplementsLeaseStages, Abstract!StagesSpec

===============================================================================
