----------------------- MODULE ContractLifecycle_proofs -----------------------
(***************************************************************************)
(* Proofs about ContractLifecycle for every number of contracts, requests  *)
(* and handlers in flight: type correctness, StagesReachedInOrder,         *)
(* NumberedWasSigned and RenewalFollowsFullTerm.                           *)
(*                                                                         *)
(* The properties speak of rows and of history.  What a stale entity may   *)
(* still write is in slot, so the inductive invariant IInv adds that every *)
(* handler in flight only carries what its contract has earned (SlotInv),  *)
(* and the same of the lists the nightly jobs work through (JobInv).       *)
(***************************************************************************)
EXTENDS ContractLifecycle, TLAPS

\* The row is on record in reached; a contract without a row has no past.
RowInv == \A c \in Contracts :
    IF row[c].status = "none" THEN reached[c] = {} ELSE row[c].status \in reached[c]

\* Offers are made for leases that were ended at their end date.
OfferInv == \A c \in Contracts : offer[c] # "none" =>
    ends[c] = 0 /\ "active" \in reached[c] /\ "terminated" \in reached[c]

\* The contracts and offers a nightly job still has to do.
JobInv ==
    /\ \A c \in daily.todo : /\ "active" \in reached[c]
                             /\ daily.phase = "expire" => ends[c] = 0
    /\ \A c \in expiring : offer[c] # "none"

\* Handler s will write column col of its entity, unless its SELECT finds it there.
Carries(s, col) == s.at = "loaded" \/ col \in s.dirty

\* What handler s may rely on and what it may write.
Sound(s) ==
    /\ s.contract \in Contracts
    /\ Exists(s.contract)
    /\ s.at = "selected" => s.op \in SaveOps
    /\ s.op = "directActivate" => lease[s.contract].direct
    /\ s.op \in {"acceptOffer", "rejectOffer"} => offer[s.contract] # "none"
    /\ s.op \in SaveOps /\ Carries(s, "status") => Earned(s.contract, s.entity.status)
    /\ s.op \in SaveOps /\ Carries(s, "number") /\ s.entity.number =>
           /\ "pending_signature" \in reached[s.contract]
           /\ \/ "active" \in reached[s.contract]
              \/ Carries(s, "status") /\ s.entity.status = "active"
    /\ s.op = "review" => /\ "pending_signature" \in reached[s.contract]
                          /\ "active" \in reached[s.contract]
    /\ s.op = "expireAndOffer" =>
           /\ ends[s.contract] = 0 /\ "active" \in reached[s.contract]
           /\ \/ "terminated" \in reached[s.contract]
              \/ Carries(s, "status") /\ s.entity.status = "terminated"

SlotInv == \A w \in Workers : slot[w].at # "idle" => Sound(slot[w])

IInv == /\ TypeOK /\ RowInv /\ StagesReachedInOrder /\ NumberedWasSigned
        /\ OfferInv /\ RenewalFollowsFullTerm /\ JobInv /\ SlotInv

-----------------------------------------------------------------------------
(* Facts about the operators.                                              *)

\* An UPDATE of some columns from a row of the right type gives a row of that type.
LEMMA WrittenType ==
    ASSUME NEW e \in Row, NEW r \in Row, NEW dirty
    PROVE  /\ Written(e, r, dirty) \in Row
           /\ Written(e, r, dirty).status = IF "status" \in dirty THEN e.status ELSE r.status
           /\ Written(e, r, dirty).number = IF "number" \in dirty THEN e.number ELSE r.number
BY DEF Row, Written

\* A fresh row has its status, no number and the right type.
LEMMA NewRowType ==
    ASSUME NEW s \in Status
    PROVE  NewRow(s) \in Row /\ NewRow(s).status = s /\ NewRow(s).number = FALSE
BY DaysAssumption DEF Row, NewRow, NoDate

\* A worker at rest and the row of no contract are well typed.
LEMMA IdleType == Idle \in Slot /\ Idle.at = "idle" /\ NoRow \in Row
<1>1. NoRow \in Row BY NewRowType DEF NoRow, Status
<1>2. QED BY <1>1 DEF Idle, Slot

\* A countdown stays in its range.
LEMMA SoonerType ==
    ASSUME NEW n \in Nat
    PROVE  /\ \A d \in 0..n : Sooner(d) \in 0..n /\ (d = 0 => Sooner(d) = 0)
           /\ \A d \in 0..n \cup {NoDate} : Sooner(d) \in 0..n \cup {NoDate}
BY DEF Sooner, NoDate

\* The columns save() would write are columns; a column it leaves out already holds the
\* entity's value.
LEMMA DifferingType ==
    ASSUME NEW e, NEW r
    PROVE  /\ Differing(e, r) \subseteq Columns
           /\ "status" \notin Differing(e, r) => e.status = r.status
           /\ "number" \notin Differing(e, r) => e.number = r.number
BY DEF Differing, Columns

-----------------------------------------------------------------------------
(* What a step may not take back.                                          *)

\* For a contract that has a row: its lease stays, its history grows, its end date stays
\* passed, its offer stays on record.
Grows == \A c \in Contracts : Exists(c) =>
    /\ Exists(c)'
    /\ lease'[c] = lease[c]
    /\ \A x \in Status : x \in reached[c] => x \in reached'[c]
    /\ ends[c] = 0 => ends'[c] = 0
    /\ offer[c] # "none" => offer'[c] # "none"

\* What a contract has earned it keeps.
LEMMA EarnedGrows ==
    ASSUME Grows, NEW c \in Contracts, Exists(c), NEW s \in Status, Earned(c, s)
    PROVE  Earned(c, s)'
BY DEF Grows, Earned, Status

\* A handler that is not touched by a step stays sound.
LEMMA SoundGrows ==
    ASSUME Grows, NEW w \in Workers, slot[w] \in Slot, slot'[w] = slot[w], Sound(slot[w])
    PROVE  Sound(slot[w])'
<1> DEFINE c == slot[w].contract
<1>1. c \in Contracts /\ Exists(c) BY DEF Sound
<1>2. slot[w].entity.status \in Status BY DEF Slot, Row
<1>3. Earned(c, slot[w].entity.status) => Earned(c, slot[w].entity.status)'
  BY <1>1, <1>2 DEF Grows, Earned, Status
<1>4. QED
  BY <1>1, <1>3 DEF Grows, Sound, Carries, Status

-----------------------------------------------------------------------------
(* The invariant holds initially.                                          *)

\* Before anything is written.
LEMMA InitIInv == Init => IInv
<1> SUFFICES ASSUME Init PROVE IInv OBVIOUS
<1>1. TypeOK
  BY IdleType, DaysAssumption
     DEF Init, TypeOK, NoLease, Lease, OfferStatus, Status
<1>2. RowInv /\ StagesReachedInOrder /\ NumberedWasSigned /\ OfferInv
  BY NewRowType DEF Init, RowInv, StagesReachedInOrder, NumberedWasSigned, OfferInv,
                    NoRow, Status
<1>3. RenewalFollowsFullTerm
  BY DEF Init, RenewalFollowsFullTerm, NoLease
<1>4. JobInv /\ SlotInv
  BY IdleType DEF Init, JobInv, SlotInv
<1>5. QED BY <1>1, <1>2, <1>3, <1>4 DEF IInv

-----------------------------------------------------------------------------
(* Steps that leave the tables alone.                                      *)

\* Such a step keeps everything said of the tables.
LEMMA TablesKept ==
    ASSUME IInv, UNCHANGED tables
    PROVE  /\ Grows
           /\ RowInv' /\ StagesReachedInOrder' /\ NumberedWasSigned'
           /\ OfferInv' /\ RenewalFollowsFullTerm'
<1>1. Grows BY DEF tables, Grows, Exists
<1>2. RowInv' /\ OfferInv' BY DEF IInv, RowInv, OfferInv, tables
<1>3. StagesReachedInOrder' BY DEF IInv, StagesReachedInOrder, Earned, tables
<1>4. NumberedWasSigned' /\ RenewalFollowsFullTerm'
  BY DEF IInv, NumberedWasSigned, RenewalFollowsFullTerm, tables
<1>5. QED BY <1>1, <1>2, <1>3, <1>4

\* Whatever grows the tables and touches one worker keeps SlotInv if that worker's new
\* handler is sound.
LEMMA SlotStep ==
    ASSUME IInv, Grows, NEW w \in Workers,
           \A v \in Workers \ {w} : slot'[v] = slot[v],
           slot'[w].at # "idle" => Sound(slot[w])'
    PROVE  SlotInv'
<1> SUFFICES ASSUME NEW v \in Workers, slot'[v].at # "idle" PROVE Sound(slot[v])'
  BY DEF SlotInv
<1>1. CASE v = w BY <1>1
<1>2. CASE v # w
  <2>1. slot'[v] = slot[v] BY <1>2
  <2>2. slot[v] \in Slot BY DEF IInv, TypeOK
  <2>3. Sound(slot[v]) BY <2>1 DEF IInv, SlotInv
  <2>4. QED BY <2>1, <2>2, <2>3, SoundGrows
<1>3. QED BY <1>1, <1>2

\* The load step of a request.
LEMMA LoadStep ==
    ASSUME IInv, NEW w \in Workers, NEW op \in SaveOps \cup OtherOps,
           NEW c \in Contracts, NEW e \in Row, Load(w, op, c, e),
           LET s == [at |-> "loaded", op |-> op, contract |-> c, entity |-> e, dirty |-> {}]
           IN  Sound(s)
    PROVE  /\ slot' \in [Workers -> Slot]
           /\ SlotInv'
           /\ UNCHANGED tables
<1> DEFINE s == [at |-> "loaded", op |-> op, contract |-> c, entity |-> e, dirty |-> {}]
<1>1. slot' = [slot EXCEPT ![w] = s] /\ UNCHANGED tables BY DEF Load
<1>2. s \in Slot BY DEF Slot
<1>3. slot \in [Workers -> Slot] BY DEF IInv, TypeOK
<1>4. slot'[w] = s /\ \A v \in Workers \ {w} : slot'[v] = slot[v] BY <1>1, <1>3
<1>5. Sound(slot[w])'
  <2> HIDE DEF s
  <2>1. Sound(s) BY DEF s
  <2>2. QED BY <2>1, <1>1, <1>4 DEF Sound, tables, Exists, Earned, Carries
<1>6. SlotInv' BY <1>1, <1>4, <1>5, TablesKept, SlotStep
<1>7. QED BY <1>1, <1>2, <1>3, <1>6

\* A request's handler has loaded a contract and leaves the jobs alone.
LEMMA TablesAndJobsKept ==
    ASSUME IInv, UNCHANGED tables, UNCHANGED jobs,
           slot' \in [Workers -> Slot], SlotInv'
    PROVE  IInv'
<1>1. TypeOK' BY DEF IInv, TypeOK, tables, jobs
<1>2. JobInv' BY DEF IInv, JobInv, tables, jobs
<1>3. QED BY <1>1, <1>2, TablesKept DEF IInv

\* A changed copy of a loaded row still has the type of a row.
LEMMA EditType ==
    ASSUME NEW e \in Row
    PROVE  /\ \A s \in Status : [e EXCEPT !.status = s] \in Row
           /\ \A s \in Status : [e EXCEPT !.status = s, !.number = TRUE] \in Row
           /\ \A s \in Status, d \in 0..NoticeDays :
                  [e EXCEPT !.status = s, !.effective = d] \in Row
           /\ \A s \in Status, b \in BOOLEAN :
                  [e EXCEPT !.status = s, !.renewNotify = b] \in Row
           /\ [e EXCEPT !.isReviewed = TRUE] \in Row
BY DEF Row

\* What is known of the contract a handler has just loaded.
LEMMA LoadedFacts ==
    ASSUME IInv, NEW c \in Contracts
    PROVE  /\ row[c] \in Row /\ row[c].status \in Status
           /\ Exists(c) => row[c].status \in reached[c] /\ Earned(c, row[c].status)
           /\ reached[c] # {} => Exists(c)
           /\ row[c].number => /\ "pending_signature" \in reached[c]
                               /\ "active" \in reached[c]
<1>1. row[c] \in Row BY DEF IInv, TypeOK
<1>2. row[c].status \in Status BY <1>1 DEF Row
<1>3. /\ Exists(c) => row[c].status \in reached[c]
      /\ reached[c] # {} => Exists(c)
  BY DEF IInv, RowInv, Exists
<1>4. row[c].status \in reached[c] => Earned(c, row[c].status)
  BY DEF IInv, StagesReachedInOrder
<1>5. QED BY <1>1, <1>2, <1>3, <1>4 DEF IInv, NumberedWasSigned

\* Every handler that loads a contract and edits it keeps the invariant.
LEMMA RequestLoads ==
    ASSUME IInv, NEW r \in Requests, NEW c \in Contracts,
           \/ LandlordUpdateTerms(r, c) \/ AcceptContract(r, c) \/ CancelContract(r, c)
           \/ ActivateAndUploadPdf(r, c) \/ TerminateContract(r, c) \/ CreateReview(r, c)
           \/ AcceptRenewOffer(r, c) \/ RejectRenewOffer(r, c)
    PROVE  IInv'
<1> r \in Workers BY DEF Workers
<1> USE LoadedFacts
<1>1. ASSUME NEW op \in SaveOps, NEW e \in Row, Load(r, op, c, e), UNCHANGED jobs,
             Exists(c), Earned(c, e.status),
             e.number => /\ "pending_signature" \in reached[c]
                         /\ "active" \in reached[c] \/ e.status = "active",
             op = "review" => /\ "pending_signature" \in reached[c]
                              /\ "active" \in reached[c],
             op # "expireAndOffer"
      PROVE  IInv'
  <2> DEFINE s == [at |-> "loaded", op |-> op, contract |-> c, entity |-> e, dirty |-> {}]
  <2>1. Sound(s) BY <1>1 DEF Sound, Carries, SaveOps
  <2>2. QED BY <1>1, <2>1, LoadStep, TablesAndJobsKept
<1>2. CASE LandlordUpdateTerms(r, c)
  <2>1. PICK e \in Row : e = [row[c] EXCEPT !.status = "pending_tenant"]
    BY EditType DEF Status
  <2>2. e.status = "pending_tenant" /\ e.number = row[c].number BY <2>1 DEF Row
  <2>3. Exists(c) /\ Earned(c, e.status)
    BY <1>2, <2>2 DEF LandlordUpdateTerms, Exists, Earned
  <2>4. QED BY <1>1, <1>2, <2>1, <2>2, <2>3 DEF LandlordUpdateTerms, SaveOps
<1>3. CASE AcceptContract(r, c)
  <2>1. row[c].status \in {"pending_landlord", "pending_tenant"}
    BY <1>3 DEF AcceptContract
  <2>2. Exists(c) /\ "pending_landlord" \in reached[c]
    BY <2>1 DEF Exists, Earned
  <2>3. \E e \in Row : /\ Load(r, "accept", c, e)
                       /\ e.status = "pending_signature" /\ e.number = row[c].number
    <3>1. CASE \E notify \in BOOLEAN :
                   Load(r, "accept", c, [row[c] EXCEPT !.status = "pending_signature",
                                                       !.renewNotify = @ \/ notify])
      <4>1. PICK notify \in BOOLEAN :
                Load(r, "accept", c, [row[c] EXCEPT !.status = "pending_signature",
                                                    !.renewNotify = @ \/ notify])
        BY <3>1
      <4>2. (row[c].renewNotify \/ notify) \in BOOLEAN OBVIOUS
      <4>3. PICK e \in Row : e = [row[c] EXCEPT !.status = "pending_signature",
                                                !.renewNotify = @ \/ notify]
        BY <4>2, EditType DEF Status
      <4>4. e.status = "pending_signature" /\ e.number = row[c].number
        BY <4>3 DEF Row
      <4>5. QED BY <4>1, <4>3, <4>4
    <3>2. CASE Load(r, "accept", c, [row[c] EXCEPT !.status = "pending_signature"])
      <4>1. PICK e \in Row : e = [row[c] EXCEPT !.status = "pending_signature"]
        BY EditType DEF Status
      <4>2. e.status = "pending_signature" /\ e.number = row[c].number
        BY <4>1 DEF Row
      <4>3. QED BY <3>2, <4>1, <4>2
    <3>3. QED BY <1>3, <3>1, <3>2 DEF AcceptContract
  <2>4. UNCHANGED jobs BY <1>3 DEF AcceptContract
  <2>5. PICK e \in Row : /\ Load(r, "accept", c, e)
                         /\ e.status = "pending_signature" /\ e.number = row[c].number
    BY <2>3
  <2>6. Earned(c, e.status) BY <2>2, <2>5 DEF Earned
  <2>7. QED BY <1>1, <2>2, <2>4, <2>5, <2>6 DEF SaveOps
<1>4. CASE CancelContract(r, c)
  <2>1. PICK e \in Row : e = [row[c] EXCEPT !.status = "cancelled"]
    BY EditType DEF Status
  <2>2. e.status = "cancelled" /\ e.number = row[c].number BY <2>1 DEF Row
  <2>3. Exists(c) /\ Earned(c, e.status)
    BY <1>4, <2>2 DEF CancelContract, Exists, Earned
  <2>4. QED BY <1>1, <1>4, <2>1, <2>2, <2>3 DEF CancelContract, SaveOps
<1>5. CASE ActivateAndUploadPdf(r, c)
  <2>1. PICK e \in Row : e = [row[c] EXCEPT !.status = "active", !.number = TRUE]
    BY EditType DEF Status
  <2>2. e.status = "active" BY <2>1 DEF Row
  <2>3. Exists(c) /\ "pending_signature" \in reached[c]
    BY <1>5 DEF ActivateAndUploadPdf, Exists
  <2>4. Earned(c, e.status) BY <2>2, <2>3 DEF Earned
  <2>5. QED BY <1>1, <1>5, <2>1, <2>2, <2>3, <2>4 DEF ActivateAndUploadPdf, SaveOps
<1>6. CASE TerminateContract(r, c)
  <2>1. Exists(c) /\ "active" \in reached[c]
    BY <1>6 DEF TerminateContract, Live, Exists, Earned
  <2>2. 0 \in 0..NoticeDays /\ NoticeDays \in 0..NoticeDays BY DaysAssumption
  <2>3. CASE Load(r, "tenantTerminate", c,
                  [row[c] EXCEPT !.status = "terminated", !.effective = 0])
    <3>1. [row[c] EXCEPT !.status = "terminated", !.effective = 0] \in Row
      BY <2>2, EditType DEF Status
    <3>2. PICK e \in Row : e = [row[c] EXCEPT !.status = "terminated", !.effective = 0]
      BY <3>1
    <3>3. e.status = "terminated" /\ e.number = row[c].number BY <3>2 DEF Row
    <3>4. Earned(c, e.status) BY <2>1, <3>3 DEF Earned
    <3>5. QED BY <1>1, <1>6, <2>1, <2>3, <3>2, <3>3, <3>4 DEF TerminateContract, SaveOps
  <2>4. CASE Load(r, "landlordTerminate", c,
                  [row[c] EXCEPT !.status = "pending_termination",
                                 !.effective = NoticeDays])
    <3>1. [row[c] EXCEPT !.status = "pending_termination", !.effective = NoticeDays] \in Row
      BY <2>2, EditType DEF Status
    <3>2. PICK e \in Row : e = [row[c] EXCEPT !.status = "pending_termination",
                                              !.effective = NoticeDays]
      BY <3>1
    <3>3. e.status = "pending_termination" /\ e.number = row[c].number
      BY <3>2 DEF Row
    <3>4. Earned(c, e.status) BY <2>1, <3>3 DEF Earned
    <3>5. QED BY <1>1, <1>6, <2>1, <2>4, <3>2, <3>3, <3>4 DEF TerminateContract, SaveOps
  <2>5. QED BY <1>6, <2>3, <2>4 DEF TerminateContract
<1>7. CASE CreateReview(r, c)
  <2>1. PICK e \in Row : e = [row[c] EXCEPT !.isReviewed = TRUE] BY EditType
  <2>2. e.status = row[c].status /\ e.number = row[c].number BY <2>1 DEF Row
  <2>3. /\ "pending_signature" \in reached[c] /\ "active" \in reached[c]
        /\ Exists(c) /\ Earned(c, e.status)
    BY <1>7, <2>2 DEF CreateReview
  <2>4. QED BY <1>1, <1>7, <2>1, <2>2, <2>3 DEF CreateReview, SaveOps
<1>8. ASSUME NEW op \in {"acceptOffer", "rejectOffer"},
             offer[c] = "pending", Load(r, op, c, NoRow), UNCHANGED jobs
      PROVE  IInv'
  <2> DEFINE s == [at |-> "loaded", op |-> op, contract |-> c, entity |-> NoRow, dirty |-> {}]
  <2>1. Exists(c) BY <1>8 DEF IInv, OfferInv
  <2>2. Sound(s) BY <1>8, <2>1 DEF Sound, SaveOps
  <2>3. op \in SaveOps \cup OtherOps BY DEF OtherOps
  <2>4. QED BY <1>8, <2>2, <2>3, IdleType, LoadStep, TablesAndJobsKept
<1>9. QED
  BY <1>2, <1>3, <1>4, <1>5, <1>6, <1>7, <1>8 DEF AcceptRenewOffer, RejectRenewOffer

-----------------------------------------------------------------------------
(* The nightly jobs and failures: steps that leave the tables alone.       *)

\* Handlers that go on, or stop, while the tables grow stay sound.
LEMMA SlotsKept ==
    ASSUME IInv, Grows, \A w \in Workers : slot'[w] = slot[w] \/ slot'[w].at = "idle"
    PROVE  SlotInv'
<1> SUFFICES ASSUME NEW v \in Workers, slot'[v].at # "idle" PROVE Sound(slot[v])'
  BY DEF SlotInv
<1>1. slot'[v] = slot[v] /\ slot[v] \in Slot BY DEF IInv, TypeOK
<1>2. Sound(slot[v]) BY <1>1 DEF IInv, SlotInv
<1>3. QED BY <1>1, <1>2, SoundGrows

\* A step of a job or a failure that touches no table.
LEMMA JobStep ==
    ASSUME IInv, UNCHANGED tables, slot' \in [Workers -> Slot], SlotInv',
           daily' \in [phase : {"idle", "finalize", "expire"}, todo : SUBSET Contracts],
           expiring' \in SUBSET Contracts,
           due' \in SUBSET {"daily", "offers"}, faults' \in 0..MaxFaults, JobInv'
    PROVE  IInv'
<1>1. TypeOK' BY DEF IInv, TypeOK, tables
<1>2. QED BY <1>1, TablesKept DEF IInv

\* A job or a failure that leaves the handlers alone, or stops some.
LEMMA JobOnlyStep ==
    ASSUME IInv, UNCHANGED tables, slot' \in [Workers -> Slot],
           \A w \in Workers : slot'[w] = slot[w] \/ slot'[w].at = "idle",
           daily' \in [phase : {"idle", "finalize", "expire"}, todo : SUBSET Contracts],
           expiring' \in SUBSET Contracts,
           due' \in SUBSET {"daily", "offers"}, faults' \in 0..MaxFaults, JobInv'
    PROVE  IInv'
BY TablesKept, SlotsKept, JobStep

\* The nightly contract job loads a contract of its list.
LEMMA DailyLoads ==
    ASSUME IInv, NEW c \in Contracts,
           AutoFinalizeTermination(c) \/ AutoExpireAndCreateRenewRequest(c)
    PROVE  IInv'
<1> Cron \in Workers BY DEF Workers
<1>1. /\ c \in daily.todo /\ daily' = [daily EXCEPT !.todo = @ \ {c}]
      /\ UNCHANGED <<expiring, due, faults>>
  BY DEF AutoFinalizeTermination, AutoExpireAndCreateRenewRequest
<1>2. "active" \in reached[c] /\ (daily.phase = "expire" => ends[c] = 0)
  BY <1>1 DEF IInv, JobInv
<1>3. Exists(c) /\ Earned(c, "terminated") BY <1>2, LoadedFacts DEF Earned
<1>4. /\ daily \in [phase : {"idle", "finalize", "expire"}, todo : SUBSET Contracts]
      /\ daily' \in [phase : {"idle", "finalize", "expire"}, todo : SUBSET Contracts]
      /\ daily'.phase = daily.phase /\ daily'.todo \subseteq daily.todo
  BY <1>1 DEF IInv, TypeOK
<1>5. ASSUME NEW op \in {"finalize", "expire", "expireAndOffer"}, NEW e \in Row,
             Load(Cron, op, c, e), e.status = "terminated", e.number = row[c].number,
             op = "expireAndOffer" => ends[c] = 0
      PROVE  IInv'
  <2> DEFINE s == [at |-> "loaded", op |-> op, contract |-> c, entity |-> e, dirty |-> {}]
  <2>1. Sound(s) BY <1>2, <1>3, <1>5, LoadedFacts DEF Sound, Carries
  <2>2. op \in SaveOps \cup OtherOps BY DEF SaveOps
  <2>3. slot' \in [Workers -> Slot] /\ SlotInv' /\ UNCHANGED tables
    BY <1>5, <2>1, <2>2, LoadStep
  <2>4. JobInv' BY <1>1, <1>4, <2>3 DEF IInv, JobInv, tables
  <2>5. QED BY <1>1, <1>4, <2>3, <2>4, JobStep DEF IInv, TypeOK
<1>6. row[c] \in Row BY LoadedFacts
<1>7. CASE AutoFinalizeTermination(c)
  <2>1. [row[c] EXCEPT !.status = "terminated"] \in Row BY <1>6, EditType DEF Status
  <2>2. PICK e \in Row : e = [row[c] EXCEPT !.status = "terminated"] BY <2>1
  <2>3. e.status = "terminated" /\ e.number = row[c].number BY <1>6, <2>2 DEF Row
  <2>4. QED BY <1>5, <1>7, <2>2, <2>3 DEF AutoFinalizeTermination
<1>8. CASE AutoExpireAndCreateRenewRequest(c)
  <2>1. 0 \in 0..NoticeDays BY DaysAssumption
  <2>2. [row[c] EXCEPT !.status = "terminated", !.effective = 0] \in Row
    BY <1>6, <2>1, EditType DEF Status
  <2>3. PICK e \in Row : e = [row[c] EXCEPT !.status = "terminated", !.effective = 0]
    BY <2>2
  <2>4. e.status = "terminated" /\ e.number = row[c].number BY <1>6, <2>3 DEF Row
  <2>5. PICK op \in {"expire", "expireAndOffer"} : Load(Cron, op, c, e)
    BY <1>8, <2>3 DEF AutoExpireAndCreateRenewRequest
  <2>6. ends[c] = 0 BY <1>2, <1>8 DEF AutoExpireAndCreateRenewRequest
  <2>7. QED BY <1>5, <2>4, <2>5, <2>6
<1>9. QED BY <1>7, <1>8

\* The nightly contract job lists the contracts it is about to end, or is done.
LEMMA DailyLists ==
    ASSUME IInv, StartDaily \/ StartExpirations \/ FinishDaily
    PROVE  IInv'
<1>1. UNCHANGED tables /\ UNCHANGED <<slot, expiring, faults>>
  BY DEF StartDaily, StartExpirations, FinishDaily
<1>2. \A c \in Contracts : row[c].status \in {"active", "pending_termination"} =>
          "active" \in reached[c]
  BY LoadedFacts DEF Exists, Earned
<1>3. due' \in SUBSET {"daily", "offers"}
  BY DEF IInv, TypeOK, StartDaily, StartExpirations, FinishDaily
<1>4. /\ daily' \in [phase : {"idle", "finalize", "expire"}, todo : SUBSET Contracts]
      /\ \A c \in daily'.todo : /\ "active" \in reached[c]
                                /\ daily'.phase = "expire" => ends[c] = 0
  BY <1>2 DEF StartDaily, StartExpirations, FinishDaily, NoticesServed, LeasesRunOut
<1>5. JobInv' BY <1>1, <1>4 DEF IInv, JobInv, tables
<1>6. UNCHANGED slot /\ slot' \in [Workers -> Slot] BY <1>1 DEF IInv, TypeOK
<1>7. expiring' \in SUBSET Contracts /\ faults' \in 0..MaxFaults
  BY <1>1 DEF IInv, TypeOK
<1>8. QED BY <1>1, <1>3, <1>4, <1>5, <1>6, <1>7, JobOnlyStep

\* The nightly offer job lists the offers it is about to expire, or gives up.
LEMMA OfferLists ==
    ASSUME IInv, StartExpiredOffers \/ AbandonExpiredOffers
    PROVE  IInv'
<1>1. UNCHANGED tables /\ UNCHANGED <<slot, daily>>
  BY DEF StartExpiredOffers, AbandonExpiredOffers
<1>2. due' \in SUBSET {"daily", "offers"} /\ faults' \in 0..MaxFaults
  <2>1. due \in SUBSET {"daily", "offers"} /\ faults \in 0..MaxFaults
    BY DEF IInv, TypeOK
  <2>2. due' \subseteq due BY DEF StartExpiredOffers, AbandonExpiredOffers
  <2>3. faults' = faults \/ (faults < MaxFaults /\ faults' = faults + 1)
    BY DEF StartExpiredOffers, AbandonExpiredOffers
  <2>4. faults' \in 0..MaxFaults BY <2>1, <2>3, DaysAssumption
  <2>5. QED BY <2>1, <2>2, <2>4
<1>3. /\ expiring' \in SUBSET Contracts
      /\ \A c \in expiring' : offer[c] # "none"
  BY DEF StartExpiredOffers, AbandonExpiredOffers, OffersTooOld
<1>4. JobInv' BY <1>1, <1>3 DEF IInv, JobInv, tables
<1>5. UNCHANGED slot /\ slot' \in [Workers -> Slot] BY <1>1 DEF IInv, TypeOK
<1>6. daily' \in [phase : {"idle", "finalize", "expire"}, todo : SUBSET Contracts]
  BY <1>1 DEF IInv, TypeOK
<1>7. QED BY <1>1, <1>2, <1>3, <1>4, <1>5, <1>6, JobOnlyStep

\* A handler that throws, an item of the nightly job that fails, and a restart.
LEMMA Failures ==
    ASSUME IInv,
           (\E r \in Requests : RequestFails(r)) \/ DailyItemFails \/ Crash
    PROVE  IInv'
<1>1. UNCHANGED tables BY DEF RequestFails, DailyItemFails, Crash
<1>2. /\ slot' \in [Workers -> Slot]
      /\ \A w \in Workers : slot'[w] = slot[w] \/ slot'[w].at = "idle"
  BY IdleType DEF IInv, TypeOK, RequestFails, DailyItemFails, Crash, Done, Workers
<1>3. /\ faults' \in 0..MaxFaults /\ due' \in SUBSET {"daily", "offers"}
      /\ expiring' \in SUBSET expiring
  <2>1. due \in SUBSET {"daily", "offers"} /\ faults \in 0..MaxFaults
    BY DEF IInv, TypeOK
  <2>2. due' \subseteq due /\ expiring' \subseteq expiring
    BY DEF RequestFails, DailyItemFails, Crash, jobs
  <2>3. faults' = faults \/ (faults < MaxFaults /\ faults' = faults + 1)
    BY DEF RequestFails, DailyItemFails, Crash, jobs
  <2>4. faults' \in 0..MaxFaults BY <2>1, <2>3, DaysAssumption
  <2>5. QED BY <2>1, <2>2, <2>4
<1>4. daily' = daily \/ daily' = [phase |-> "idle", todo |-> {}]
  BY DEF RequestFails, DailyItemFails, Crash, jobs
<1>5. daily' \in [phase : {"idle", "finalize", "expire"}, todo : SUBSET Contracts]
  BY <1>4 DEF IInv, TypeOK
<1>6. JobInv' BY <1>1, <1>3, <1>4 DEF IInv, JobInv, tables
<1>7. expiring' \in SUBSET Contracts BY <1>3 DEF IInv, TypeOK
<1>8. QED BY <1>1, <1>2, <1>3, <1>5, <1>6, <1>7, JobOnlyStep

\* The SELECT of a save: the entity keeps what the UPDATE will write, and is as sound.
LEMMA SelectStep ==
    ASSUME IInv, NEW w \in Workers, SaveSelect(w)
    PROVE  IInv'
<1> DEFINE s == slot[w]
           c == s.contract
           d == Differing(s.entity, row[c])
           e == Written(s.entity, NoRow, d)
           t == [at |-> "selected", op |-> s.op, contract |-> c, entity |-> e, dirty |-> d]
<1>1. /\ s.at = "loaded" /\ s.op \in SaveOps /\ s \in Slot /\ Sound(s)
      /\ UNCHANGED tables /\ UNCHANGED jobs
  BY DEF SaveSelect, IInv, TypeOK, SlotInv
<1>2. /\ s.entity \in Row /\ c \in Contracts /\ Exists(c)
      /\ c \in Contracts \cup {NoContract} /\ s.op \in SaveOps \cup OtherOps \cup {"none"}
  BY <1>1 DEF Slot, Sound
<1>3. /\ d \subseteq Columns
      /\ "status" \notin d => s.entity.status = row[c].status
      /\ "number" \notin d => s.entity.number = row[c].number
  BY DifferingType
<1>4. /\ e \in Row
      /\ "status" \in d => e.status = s.entity.status
      /\ "number" \in d => e.number = s.entity.number
  BY <1>2, IdleType, WrittenType
<1>5. slot' = [slot EXCEPT ![w] = t] /\ slot \in [Workers -> Slot]
  BY DEF SaveSelect, IInv, TypeOK
<1> HIDE DEF d, e
<1>6. t \in Slot BY <1>2, <1>3, <1>4 DEF Slot
<1> HIDE DEF t
<1>7. /\ slot' \in [Workers -> Slot] /\ slot'[w] = t
      /\ \A v \in Workers \ {w} : slot'[v] = slot[v]
  BY <1>5, <1>6
<1>8. Sound(t)
  <2>1. /\ t.at = "selected" /\ t.op = s.op /\ t.contract = c
        /\ t.entity = e /\ t.dirty = d
    BY DEF t
  <2>2. t.op \notin {"directActivate", "acceptOffer", "rejectOffer"}
    BY <1>1, <2>1 DEF SaveOps
  <2>3. Carries(t, "status") => "status" \in d /\ Earned(c, e.status)
    BY <1>1, <1>4, <2>1 DEF Sound, Carries
  <2>4. ASSUME Carries(t, "number"), e.number
        PROVE  /\ "pending_signature" \in reached[c]
               /\ "active" \in reached[c] \/ (Carries(t, "status") /\ e.status = "active")
    <3>1. "number" \in d BY <2>1, <2>4 DEF Carries
    <3>2. s.entity.number BY <1>4, <2>4, <3>1
    <3>3. /\ "pending_signature" \in reached[c]
          /\ "active" \in reached[c] \/ s.entity.status = "active"
      BY <1>1, <3>2 DEF Sound, Carries
    <3>4. row[c].status \in reached[c] BY <1>2, LoadedFacts
    <3>5. CASE "status" \in d BY <1>4, <2>1, <3>3, <3>5 DEF Carries
    <3>6. CASE "status" \notin d BY <1>3, <3>3, <3>4, <3>6
    <3>7. QED BY <3>5, <3>6
  <2>5. ASSUME t.op = "expireAndOffer"
        PROVE  /\ ends[c] = 0 /\ "active" \in reached[c]
               /\ \/ "terminated" \in reached[c]
                  \/ Carries(t, "status") /\ e.status = "terminated"
    <3>1. /\ ends[c] = 0 /\ "active" \in reached[c]
          /\ "terminated" \in reached[c] \/ s.entity.status = "terminated"
      BY <1>1, <2>1, <2>5 DEF Sound
    <3>2. row[c].status \in reached[c] BY <1>2, LoadedFacts
    <3>3. CASE "status" \in d BY <1>4, <2>1, <3>1, <3>3 DEF Carries
    <3>4. CASE "status" \notin d BY <1>3, <3>1, <3>2, <3>4
    <3>5. QED BY <3>3, <3>4
  <2>6. t.op = "review" => "pending_signature" \in reached[c] /\ "active" \in reached[c]
    BY <1>1, <2>1 DEF Sound
  <2>7. QED BY <1>1, <1>2, <2>1, <2>2, <2>3, <2>4, <2>5, <2>6 DEF Sound
<1>9. Sound(slot[w])'
  BY <1>1, <1>7, <1>8 DEF Sound, tables, Exists, Earned, Carries
<1>10. SlotInv' BY <1>1, <1>7, <1>9, TablesKept, SlotStep
<1>11. QED BY <1>1, <1>7, <1>10, TablesAndJobsKept

-----------------------------------------------------------------------------
(* Commits.                                                                *)

\* Committing a row that its contract has earned: the tables only grow and keep what is
\* said of rows and histories.
LEMMA PutStep ==
    ASSUME IInv, NEW c \in Contracts, NEW r \in Row, Put(c, r), Exists(c),
           Earned(c, r.status), UNCHANGED lease, UNCHANGED ends,
           \A o \in Contracts : offer[o] # "none" => offer'[o] # "none",
           r.number \/ c \in reviewed' =>
               "pending_signature" \in reached'[c] /\ "active" \in reached'[c],
           \A o \in Contracts \ {c} : o \in reviewed' => o \in reviewed
    PROVE  /\ Grows /\ row' \in [Contracts -> Row]
           /\ reached' \in [Contracts -> SUBSET Status]
           /\ RowInv' /\ StagesReachedInOrder' /\ NumberedWasSigned'
           /\ RenewalFollowsFullTerm'
<1>1. /\ row \in [Contracts -> Row] /\ reached \in [Contracts -> SUBSET Status]
      /\ lease \in [Contracts -> Lease]
  BY DEF IInv, TypeOK
<1>2. r.status \in Status /\ r.status # "none" BY DEF Row, Earned
<1>3. /\ row'[c] = r /\ reached'[c] = reached[c] \cup {r.status}
      /\ \A o \in Contracts \ {c} : row'[o] = row[o] /\ reached'[o] = reached[o]
      /\ row' \in [Contracts -> Row] /\ reached' \in [Contracts -> SUBSET Status]
  BY <1>1, <1>2 DEF Put
<1>4. Grows BY <1>2, <1>3 DEF Grows, Exists
<1>5. RowInv' BY <1>2, <1>3 DEF IInv, RowInv
<1>6. StagesReachedInOrder'
  <2> SUFFICES ASSUME NEW o \in Contracts, NEW s \in reached'[o] PROVE Earned(o, s)'
    BY DEF StagesReachedInOrder
  <2>1. s \in Status BY <1>3
  <2>2. s \in reached[o] \/ (o = c /\ s = r.status) BY <1>3
  <2>3. Earned(o, s) BY <2>2 DEF IInv, StagesReachedInOrder
  <2>4. Exists(o) BY <2>2, LoadedFacts
  <2>5. QED BY <1>4, <2>1, <2>3, <2>4, EarnedGrows
<1>7. NumberedWasSigned' BY <1>3 DEF IInv, NumberedWasSigned
<1>8. RenewalFollowsFullTerm'
  <2> SUFFICES ASSUME NEW n \in Contracts, lease[n].renewalOf # NoContract
               PROVE  LET o == lease[n].renewalOf
                      IN  /\ ends[o] = 0 /\ offer'[o] # "none"
                          /\ {"active", "terminated"} \subseteq reached'[o]
    BY DEF RenewalFollowsFullTerm
  <2> DEFINE o == lease[n].renewalOf
  <2>1. o \in Contracts BY <1>1 DEF Lease
  <2>2. /\ ends[o] = 0 /\ offer[o] # "none"
        /\ {"active", "terminated"} \subseteq reached[o]
    BY DEF IInv, RenewalFollowsFullTerm
  <2>3. reached[o] \subseteq reached'[o] BY <1>3, <2>1
  <2>4. QED BY <2>1, <2>2, <2>3
<1>9. QED BY <1>3, <1>4, <1>5, <1>6, <1>7, <1>8

\* What the jobs' lists rely on stays true while the tables grow.
LEMMA ListsGrow ==
    ASSUME IInv, Grows, UNCHANGED <<daily, expiring>>
    PROVE  JobInv'
<1>1. /\ daily.todo \subseteq Contracts /\ expiring \subseteq Contracts
  BY DEF IInv, TypeOK
<1>2. \A c \in Contracts : "active" \in reached[c] =>
          Exists(c) /\ "active" \in reached'[c]
  BY LoadedFacts DEF Grows, Status
<1>3. \A c \in Contracts : offer[c] # "none" => Exists(c)
  BY LoadedFacts DEF IInv, OfferInv
<1>4. QED BY <1>1, <1>2, <1>3 DEF IInv, JobInv, Grows

\* A worker is done: the others' handlers stay sound while the tables grow.
LEMMA DoneStep ==
    ASSUME IInv, Grows, NEW w \in Workers, Done(w)
    PROVE  slot' \in [Workers -> Slot] /\ SlotInv'
<1>1. slot \in [Workers -> Slot] BY DEF IInv, TypeOK
<1>2. \A v \in Workers : slot'[v] = slot[v] \/ slot'[v].at = "idle"
  BY <1>1, IdleType DEF Done
<1>3. QED BY <1>1, <1>2, IdleType, SlotsKept DEF Done

\* The UPDATE of a save writes what the handler has earned, wherever the row is now.
LEMMA CommitStep ==
    ASSUME IInv, NEW w \in Workers, SaveCommit(w)
    PROVE  IInv'
<1> DEFINE s == slot[w]
           c == s.contract
           r == Written(s.entity, row[c], s.dirty)
<1>1. s.at = "selected" /\ s \in Slot /\ Sound(s)
  BY DEF SaveCommit, IInv, TypeOK, SlotInv
<1>2. c \in Contracts /\ Exists(c) /\ s.entity \in Row /\ row[c] \in Row
  BY <1>1, LoadedFacts DEF Sound, Slot
<1>3. /\ r \in Row
      /\ r.status = IF "status" \in s.dirty THEN s.entity.status ELSE row[c].status
      /\ r.number = IF "number" \in s.dirty THEN s.entity.number ELSE row[c].number
  BY <1>2, WrittenType
<1>4. /\ Put(c, r) /\ Done(w) /\ UNCHANGED <<lease, ends>> /\ UNCHANGED jobs
      /\ isRented' = [isRented EXCEPT ![lease[c].property] = RentedAfter(s.op, @)]
      /\ reviewed' = IF s.op = "review" THEN reviewed \cup {c} ELSE reviewed
      /\ \/ UNCHANGED <<offer, offerLeft>>
         \/ /\ s.op = "expireAndOffer"
            /\ offer' = [offer EXCEPT ![c] = "pending"]
            /\ offerLeft' = [offerLeft EXCEPT ![c] = OfferDays]
  BY DEF SaveCommit
<1> HIDE DEF r
<1>5. TypeOK => /\ offer \in [Contracts -> OfferStatus]
                /\ reached \in [Contracts -> SUBSET Status]
  BY DEF TypeOK
<1>6. \A o \in Contracts : offer[o] # "none" => offer'[o] # "none"
  BY <1>4, <1>5 DEF IInv
<1>7. reached'[c] = reached[c] \cup {r.status}
  BY <1>2, <1>4, <1>5 DEF Put, IInv
<1>8. s.op \in SaveOps BY <1>1 DEF Sound
<1>9. r.status \in reached'[c] /\ Earned(c, r.status)
  <2>1. CASE "status" \in s.dirty BY <1>1, <1>3, <1>7, <1>8, <2>1 DEF Sound, Carries
  <2>2. CASE "status" \notin s.dirty BY <1>2, <1>3, <1>7, <2>2, LoadedFacts
  <2>3. QED BY <2>1, <2>2
<1>10. r.number => "pending_signature" \in reached'[c] /\ "active" \in reached'[c]
  <2> SUFFICES ASSUME r.number PROVE "pending_signature" \in reached'[c]
                                     /\ "active" \in reached'[c]
    OBVIOUS
  <2>1. CASE "number" \in s.dirty
    <3>1. /\ "pending_signature" \in reached[c]
          /\ \/ "active" \in reached[c]
             \/ "status" \in s.dirty /\ s.entity.status = "active"
      BY <1>1, <1>3, <1>8, <2>1 DEF Sound, Carries
    <3>2. QED BY <1>3, <1>7, <3>1
  <2>2. CASE "number" \notin s.dirty BY <1>2, <1>3, <1>7, <2>2, LoadedFacts
  <2>3. QED BY <2>1, <2>2
<1>11. c \in reviewed' => "pending_signature" \in reached'[c] /\ "active" \in reached'[c]
  <2>1. s.op = "review" \/ c \in reviewed =>
            "pending_signature" \in reached[c] /\ "active" \in reached[c]
    BY <1>1, <1>2 DEF Sound, IInv, NumberedWasSigned
  <2>2. QED BY <1>4, <1>7, <2>1
<1>12. /\ Grows /\ row' \in [Contracts -> Row] /\ reached' \in [Contracts -> SUBSET Status]
       /\ RowInv' /\ StagesReachedInOrder' /\ NumberedWasSigned'
       /\ RenewalFollowsFullTerm'
  BY <1>2, <1>3, <1>4, <1>6, <1>9, <1>10, <1>11, PutStep
<1>13. slot' \in [Workers -> Slot] /\ SlotInv' /\ JobInv'
  BY <1>4, <1>12, DoneStep, ListsGrow DEF jobs
<1>14. TypeOK'
  <2>1. isRented' \in [Properties -> BOOLEAN]
    BY <1>4 DEF IInv, TypeOK, RentedAfter
  <2>2. offer' \in [Contracts -> OfferStatus] /\ offerLeft' \in [Contracts -> 0..OfferDays]
    BY <1>4, DaysAssumption DEF IInv, TypeOK, OfferStatus
  <2>3. reviewed' \in SUBSET Contracts BY <1>2, <1>4 DEF IInv, TypeOK
  <2>4. QED BY <1>4, <1>12, <1>13, <2>1, <2>2, <2>3 DEF IInv, TypeOK, jobs
<1>15. OfferInv'
  <2> SUFFICES ASSUME NEW o \in Contracts, offer'[o] # "none"
               PROVE  /\ ends[o] = 0
                      /\ "active" \in reached'[o] /\ "terminated" \in reached'[o]
    BY <1>4 DEF OfferInv
  <2>1. CASE offer[o] # "none"
    BY <1>12, <2>1, LoadedFacts DEF IInv, OfferInv, Grows, Status
  <2>2. CASE offer[o] = "none"
    <3>1. o = c /\ s.op = "expireAndOffer" BY <1>4, <1>5, <2>2 DEF IInv
    <3>2. /\ ends[c] = 0 /\ "active" \in reached[c]
          /\ \/ "terminated" \in reached[c]
             \/ "status" \in s.dirty /\ s.entity.status = "terminated"
      BY <1>1, <3>1 DEF Sound, Carries
    <3>3. QED BY <1>3, <1>7, <3>1, <3>2
  <2>3. QED BY <2>1, <2>2
<1>16. QED BY <1>12, <1>13, <1>14, <1>15 DEF IInv

\* adminCreate's own UPDATE: one column, of a contract meant to be activated directly.
LEMMA DirectStep ==
    ASSUME IInv, NEW r \in Workers, DirectActivate(r)
    PROVE  IInv'
<1> DEFINE s == slot[r]
           c == s.contract
           x == [row[c] EXCEPT !.status = "active"]
<1>1. s.at = "loaded" /\ s.op = "directActivate" /\ Sound(s)
  BY DEF DirectActivate, IInv, SlotInv
<1>2. c \in Contracts /\ Exists(c) /\ lease[c].direct BY <1>1 DEF Sound
<1>3. row[c] \in Row BY <1>2, LoadedFacts
<1>4. x \in Row /\ x.status = "active" /\ x.number = row[c].number
  <2>1. x \in Row BY <1>3, EditType DEF Status
  <2>2. QED BY <1>3, <2>1 DEF Row
<1>5. /\ Put(c, x) /\ Done(r) /\ UNCHANGED jobs
      /\ UNCHANGED <<lease, ends, offer, offerLeft, isRented, reviewed>>
  BY DEF DirectActivate
<1> HIDE DEF x
<1>6. Earned(c, x.status) BY <1>2, <1>4 DEF Earned
<1>7. reached'[c] = reached[c] \cup {x.status} BY <1>2, <1>5 DEF Put, IInv, TypeOK
<1>8. x.number \/ c \in reviewed' =>
          "pending_signature" \in reached'[c] /\ "active" \in reached'[c]
  BY <1>2, <1>4, <1>5, <1>7 DEF IInv, NumberedWasSigned
<1>9. /\ Grows /\ row' \in [Contracts -> Row] /\ reached' \in [Contracts -> SUBSET Status]
      /\ RowInv' /\ StagesReachedInOrder' /\ NumberedWasSigned'
      /\ RenewalFollowsFullTerm'
  BY <1>2, <1>4, <1>5, <1>6, <1>8, PutStep
<1>10. slot' \in [Workers -> Slot] /\ SlotInv' /\ JobInv'
  BY <1>5, <1>9, DoneStep, ListsGrow DEF jobs
<1>11. TypeOK' BY <1>5, <1>9, <1>10 DEF IInv, TypeOK, jobs
<1>12. OfferInv'
  BY <1>5, <1>9, LoadedFacts DEF IInv, OfferInv, Grows, Status
<1>13. QED BY <1>9, <1>10, <1>11, <1>12 DEF IInv

\* A contract row is inserted: nothing that is on record of another contract changes.
LEMMA InsertStep ==
    ASSUME IInv, NEW c \in Contracts, NEW st \in Status, NEW l \in Lease,
           NEW days \in 0..MaxTerm, Insert(c, st, l, days),
           \/ st = "pending_landlord" /\ l.renewalOf = NoContract
           \/ st = "pending_signature" /\ l.renewalOf \in Contracts
              /\ offer[l.renewalOf] # "none",
           \A o \in Contracts : offer'[o] # "none" <=> offer[o] # "none",
           UNCHANGED reviewed
    PROVE  /\ Grows /\ Exists(c)' /\ lease'[c] = l
           /\ row' \in [Contracts -> Row] /\ lease' \in [Contracts -> Lease]
           /\ ends' \in [Contracts -> 0..MaxTerm]
           /\ reached' \in [Contracts -> SUBSET Status]
           /\ RowInv' /\ StagesReachedInOrder' /\ NumberedWasSigned' /\ OfferInv'
           /\ RenewalFollowsFullTerm'
<1>1. /\ row \in [Contracts -> Row] /\ reached \in [Contracts -> SUBSET Status]
      /\ lease \in [Contracts -> Lease] /\ ends \in [Contracts -> 0..MaxTerm]
  BY DEF IInv, TypeOK
<1>2. NewRow(st) \in Row /\ NewRow(st).status = st /\ NewRow(st).number = FALSE
  BY NewRowType
<1>3. /\ ~Exists(c) /\ reached[c] = {} /\ offer[c] = "none"
  BY DEF Insert, IInv, RowInv, OfferInv, Exists
<1>4. /\ row'[c] = NewRow(st) /\ reached'[c] = {st} /\ lease'[c] = l /\ ends'[c] = days
      /\ \A o \in Contracts \ {c} : /\ row'[o] = row[o] /\ reached'[o] = reached[o]
                                    /\ lease'[o] = lease[o] /\ ends'[o] = ends[o]
  BY <1>1, <1>2, <1>3 DEF Insert, Put
<1>5. /\ row' \in [Contracts -> Row] /\ lease' \in [Contracts -> Lease]
      /\ ends' \in [Contracts -> 0..MaxTerm]
      /\ reached' \in [Contracts -> SUBSET Status]
  BY <1>1, <1>2 DEF Insert, Put
<1>6. Grows BY <1>3, <1>4 DEF Grows, Exists
<1>7. RowInv' BY <1>2, <1>4 DEF IInv, RowInv
<1>8. StagesReachedInOrder'
  <2> SUFFICES ASSUME NEW o \in Contracts, NEW s \in reached'[o] PROVE Earned(o, s)'
    BY DEF StagesReachedInOrder
  <2>1. CASE o = c
    <3>1. s = st /\ lease'[o] = l BY <1>4, <2>1
    <3>2. st = "pending_signature" => l.renewalOf # NoContract BY NullsAssumption
    <3>3. QED BY <3>1, <3>2 DEF Earned
  <2>2. CASE o # c
    <3>1. s \in reached[o] /\ s \in Status BY <1>4, <1>5, <2>2
    <3>2. Earned(o, s) /\ Exists(o) BY <3>1, LoadedFacts DEF IInv, StagesReachedInOrder
    <3>3. QED BY <1>6, <3>1, <3>2, EarnedGrows
  <2>3. QED BY <2>1, <2>2
<1>9. NumberedWasSigned' BY <1>2, <1>3, <1>4 DEF IInv, NumberedWasSigned
<1>10. OfferInv' BY <1>3, <1>4 DEF IInv, OfferInv
<1>11. RenewalFollowsFullTerm'
  <2> SUFFICES ASSUME NEW n \in Contracts, lease'[n].renewalOf # NoContract
               PROVE  LET o == lease'[n].renewalOf
                      IN  /\ ends'[o] = 0 /\ offer'[o] # "none"
                          /\ {"active", "terminated"} \subseteq reached'[o]
    BY DEF RenewalFollowsFullTerm
  <2> DEFINE o == lease'[n].renewalOf
  <2>1. o \in Contracts BY <1>5 DEF Lease
  <2>2. offer[o] # "none"
    BY <1>4 DEF IInv, RenewalFollowsFullTerm
  <2>3. offer'[o] # "none" BY <2>1, <2>2
  <2>4. QED BY <1>10, <2>1, <2>3 DEF OfferInv
<1>12. Exists(c)' BY <1>2, <1>4 DEF Exists
<1>13. QED BY <1>4, <1>5, <1>6, <1>7, <1>8, <1>9, <1>10, <1>11, <1>12

\* create and adminCreate.
LEMMA CreateStep ==
    ASSUME IInv, NEW r \in Requests, NEW c \in Contracts, NEW p \in Properties,
           Create(r, c, p) \/ AdminCreate(r, c, p)
    PROVE  IInv'
<1> r \in Workers BY DEF Workers
<1>1. /\ UNCHANGED <<offer, offerLeft, isRented, reviewed>> /\ UNCHANGED jobs
  BY DEF Create, AdminCreate
<1>2. ASSUME NEW b \in BOOLEAN, NEW days \in 1..MaxTerm,
             Insert(c, "pending_landlord",
                    [property |-> p, renewalOf |-> NoContract, direct |-> b], days),
             slot' \in [Workers -> Slot],
             \/ UNCHANGED slot
             \/ /\ \A v \in Workers \ {r} : slot'[v] = slot[v]
                /\ slot'[r] = [at |-> "loaded", op |-> "directActivate", contract |-> c,
                               entity |-> NoRow, dirty |-> {}]
                /\ b
      PROVE  IInv'
  <2> DEFINE l == [property |-> p, renewalOf |-> NoContract, direct |-> b]
  <2>1. l \in Lease /\ "pending_landlord" \in Status /\ days \in 0..MaxTerm
    BY DaysAssumption DEF Lease, Status
  <2>2. l.renewalOf = NoContract /\ l.direct = b OBVIOUS
  <2> HIDE DEF l
  <2>3. Insert(c, "pending_landlord", l, days) BY <1>2 DEF l
  <2>4. /\ Grows /\ Exists(c)' /\ lease'[c] = l
        /\ row' \in [Contracts -> Row] /\ lease' \in [Contracts -> Lease]
        /\ ends' \in [Contracts -> 0..MaxTerm]
        /\ reached' \in [Contracts -> SUBSET Status]
        /\ RowInv' /\ StagesReachedInOrder' /\ NumberedWasSigned' /\ OfferInv'
        /\ RenewalFollowsFullTerm'
    BY <1>1, <2>1, <2>2, <2>3, InsertStep
  <2>5. JobInv' BY <1>1, <2>4, ListsGrow DEF jobs
  <2>6. TypeOK' BY <1>1, <1>2, <2>4 DEF IInv, TypeOK, jobs
  <2>7. SlotInv'
    <3>1. CASE UNCHANGED slot BY <2>4, <3>1, SlotsKept
    <3>2. CASE /\ \A v \in Workers \ {r} : slot'[v] = slot[v]
               /\ slot'[r] = [at |-> "loaded", op |-> "directActivate", contract |-> c,
                              entity |-> NoRow, dirty |-> {}]
               /\ b
      <4>1. lease'[c].direct BY <2>2, <2>4, <3>2, Zenon
      <4>2. /\ slot'[r].contract = c /\ slot'[r].op = "directActivate"
            /\ slot'[r].at = "loaded"
        BY <3>2
      <4>3. Sound(slot[r])' BY <2>4, <4>1, <4>2 DEF Sound, SaveOps
      <4>4. QED BY <2>4, <3>2, <4>3, SlotStep
    <3>3. QED BY <1>2, <3>1, <3>2
  <2>8. QED BY <2>4, <2>5, <2>6, <2>7 DEF IInv
<1>3. slot \in [Workers -> Slot] BY DEF IInv, TypeOK
<1>4. CASE Create(r, c, p)
  <2>1. PICK days \in 1..MaxTerm :
            Insert(c, "pending_landlord",
                   [property |-> p, renewalOf |-> NoContract, direct |-> FALSE], days)
    BY <1>4 DEF Create
  <2>2. UNCHANGED slot BY <1>4 DEF Create
  <2>3. QED BY <1>2, <1>3, <2>1, <2>2
<1>5. CASE AdminCreate(r, c, p)
  <2> DEFINE s == [at |-> "loaded", op |-> "directActivate", contract |-> c,
                   entity |-> NoRow, dirty |-> {}]
  <2>1. s \in Slot BY IdleType DEF Slot, OtherOps
  <2>2. slot' = [slot EXCEPT ![r] = s] BY <1>5 DEF AdminCreate
  <2>3. /\ slot' \in [Workers -> Slot] /\ slot'[r] = s
        /\ \A v \in Workers \ {r} : slot'[v] = slot[v]
    BY <1>3, <2>1, <2>2
  <2>4. PICK days \in 1..MaxTerm :
            Insert(c, "pending_landlord",
                   [property |-> p, renewalOf |-> NoContract, direct |-> TRUE], days)
    BY <1>5 DEF AdminCreate
  <2>5. QED BY <1>2, <2>3, <2>4
<1>6. QED BY <1>4, <1>5

\* acceptRenewOffer's transaction: a renewal of a lease whose offer is on record.
LEMMA AcceptOfferStep ==
    ASSUME IInv, NEW r \in Workers, AcceptOfferCommit(r)
    PROVE  IInv'
<1> DEFINE c == slot[r].contract
           l == [property |-> lease[c].property, renewalOf |-> c, direct |-> FALSE]
<1>1. slot[r].at = "loaded" /\ slot[r].op = "acceptOffer" /\ Sound(slot[r])
  BY DEF AcceptOfferCommit, IInv, SlotInv
<1>2. c \in Contracts /\ offer[c] # "none" BY <1>1 DEF Sound
<1>3. /\ offer' = [offer EXCEPT ![c] = "accepted"] /\ Done(r)
      /\ isRented' = [isRented EXCEPT ![lease[c].property] = TRUE]
      /\ UNCHANGED <<offerLeft, reviewed>> /\ UNCHANGED jobs
  BY DEF AcceptOfferCommit
<1>4. l \in Lease /\ l.renewalOf = c BY <1>2 DEF Lease, IInv, TypeOK
<1>5. PICK n \in Contracts, days \in 0..MaxTerm : Insert(n, "pending_signature", l, days)
  BY DEF AcceptOfferCommit
<1> HIDE DEF l
<1>6. \A o \in Contracts : offer'[o] # "none" <=> offer[o] # "none"
  BY <1>2, <1>3 DEF IInv, TypeOK
<1>7. "pending_signature" \in Status BY DEF Status
<1>8. /\ Grows
      /\ row' \in [Contracts -> Row] /\ lease' \in [Contracts -> Lease]
      /\ ends' \in [Contracts -> 0..MaxTerm]
      /\ reached' \in [Contracts -> SUBSET Status]
      /\ RowInv' /\ StagesReachedInOrder' /\ NumberedWasSigned' /\ OfferInv'
      /\ RenewalFollowsFullTerm'
  BY <1>2, <1>3, <1>4, <1>5, <1>6, <1>7, InsertStep
<1>9. slot' \in [Workers -> Slot] /\ SlotInv' /\ JobInv'
  BY <1>3, <1>8, DoneStep, ListsGrow DEF jobs
<1>10. /\ offer' \in [Contracts -> OfferStatus] /\ isRented' \in [Properties -> BOOLEAN]
  BY <1>3 DEF IInv, TypeOK, OfferStatus
<1>11. TypeOK' BY <1>3, <1>8, <1>9, <1>10 DEF IInv, TypeOK, jobs
<1>12. QED BY <1>8, <1>9, <1>11 DEF IInv

\* An offer on record gets another status: nothing else of the tables changes.
LEMMA OfferWritten ==
    ASSUME IInv, NEW c \in Contracts, NEW o \in OfferStatus, offer[c] # "none",
           o # "none", offer' = [offer EXCEPT ![c] = o],
           UNCHANGED <<row, reached, lease, ends, reviewed>>
    PROVE  /\ Grows /\ offer' \in [Contracts -> OfferStatus]
           /\ RowInv' /\ StagesReachedInOrder' /\ NumberedWasSigned' /\ OfferInv'
           /\ RenewalFollowsFullTerm'
<1>1. /\ offer \in [Contracts -> OfferStatus] /\ offer' \in [Contracts -> OfferStatus]
      /\ \A x \in Contracts : offer'[x] # "none" <=> offer[x] # "none"
  BY DEF IInv, TypeOK
<1>2. Grows BY <1>1 DEF Grows, Exists
<1>3. RowInv' /\ StagesReachedInOrder' /\ NumberedWasSigned' /\ OfferInv'
  BY <1>1 DEF IInv, RowInv, StagesReachedInOrder, Earned, NumberedWasSigned, OfferInv
<1>4. \A n \in Contracts : lease[n].renewalOf \in Contracts \cup {NoContract}
  BY DEF IInv, TypeOK, Lease
<1>5. RenewalFollowsFullTerm' BY <1>1, <1>4 DEF IInv, RenewalFollowsFullTerm
<1>6. QED BY <1>1, <1>2, <1>3, <1>5

\* rejectRenewOffer's UPDATE.
LEMMA RejectOfferStep ==
    ASSUME IInv, NEW r \in Workers, RejectOfferCommit(r)
    PROVE  IInv'
<1> DEFINE c == slot[r].contract
<1>1. slot[r].at = "loaded" /\ slot[r].op = "rejectOffer" /\ Sound(slot[r])
  BY DEF RejectOfferCommit, IInv, SlotInv
<1>2. c \in Contracts /\ offer[c] # "none" BY <1>1 DEF Sound
<1>3. /\ offer' = [offer EXCEPT ![c] = "rejected"] /\ Done(r)
      /\ UNCHANGED <<row, reached, lease, ends, reviewed>>
      /\ UNCHANGED <<offerLeft, isRented>> /\ UNCHANGED jobs
  BY DEF RejectOfferCommit
<1>4. /\ Grows /\ offer' \in [Contracts -> OfferStatus]
      /\ RowInv' /\ StagesReachedInOrder' /\ NumberedWasSigned' /\ OfferInv'
      /\ RenewalFollowsFullTerm'
  BY <1>2, <1>3, OfferWritten DEF OfferStatus
<1>5. slot' \in [Workers -> Slot] /\ SlotInv' /\ JobInv'
  BY <1>3, <1>4, DoneStep, ListsGrow DEF jobs
<1>6. TypeOK' BY <1>3, <1>4, <1>5 DEF IInv, TypeOK, jobs
<1>7. QED BY <1>4, <1>5, <1>6 DEF IInv

\* The nightly offer job saves one offer of its list.
LEMMA ExpireOfferStep ==
    ASSUME IInv, NEW c \in Contracts, ExpireOffer(c)
    PROVE  IInv'
<1>1. /\ offer' = [offer EXCEPT ![c] = "expired"] /\ expiring' = expiring \ {c}
      /\ UNCHANGED <<row, reached, lease, ends, reviewed>>
      /\ UNCHANGED <<offerLeft, isRented, slot, daily, due, faults>>
      /\ offer[c] # "none"
  BY DEF ExpireOffer, IInv, JobInv
<1>2. /\ Grows /\ offer' \in [Contracts -> OfferStatus]
      /\ RowInv' /\ StagesReachedInOrder' /\ NumberedWasSigned' /\ OfferInv'
      /\ RenewalFollowsFullTerm'
  BY <1>1, OfferWritten DEF OfferStatus
<1>3. SlotInv' BY <1>1, <1>2, SlotsKept
<1>4. JobInv' BY <1>1 DEF IInv, JobInv, TypeOK
<1>5. TypeOK' BY <1>1, <1>2 DEF IInv, TypeOK
<1>6. QED BY <1>2, <1>3, <1>4, <1>5 DEF IInv

\* Midnight brings every date a day nearer and starts the jobs.
LEMMA MidnightStep ==
    ASSUME IInv, Midnight
    PROVE  IInv'
<1>1. /\ row \in [Contracts -> Row] /\ ends \in [Contracts -> 0..MaxTerm]
      /\ offerLeft \in [Contracts -> 0..OfferDays]
  BY DEF IInv, TypeOK
<1>2. /\ ends' = [c \in Contracts |-> Sooner(ends[c])]
      /\ offerLeft' = [c \in Contracts |-> Sooner(offerLeft[c])]
      /\ row' = [c \in Contracts |-> [row[c] EXCEPT !.effective = Sooner(@)]]
      /\ UNCHANGED <<lease, offer, isRented, reviewed, reached>>
      /\ UNCHANGED <<slot, daily, expiring, faults>>
      /\ due' \in SUBSET {"daily", "offers"}
  BY DEF Midnight
<1>3. ASSUME NEW c \in Contracts
      PROVE  /\ row'[c] \in Row
             /\ row'[c].status = row[c].status /\ row'[c].number = row[c].number
  <2>1. row[c] \in Row /\ row[c].effective \in 0..NoticeDays \cup {NoDate}
    BY <1>1 DEF Row
  <2>2. Sooner(row[c].effective) \in 0..NoticeDays \cup {NoDate}
    BY <2>1, SoonerType, DaysAssumption
  <2>3. row'[c] = [row[c] EXCEPT !.effective = Sooner(row[c].effective)] BY <1>2
  <2>4. ASSUME NEW d \in 0..NoticeDays \cup {NoDate}
        PROVE  /\ [row[c] EXCEPT !.effective = d] \in Row
               /\ [row[c] EXCEPT !.effective = d].status = row[c].status
               /\ [row[c] EXCEPT !.effective = d].number = row[c].number
    BY <2>1 DEF Row
  <2>5. QED BY <2>2, <2>3, <2>4
<1>4. /\ ends' \in [Contracts -> 0..MaxTerm]
      /\ offerLeft' \in [Contracts -> 0..OfferDays]
      /\ \A c \in Contracts : ends[c] = 0 => ends'[c] = 0
  <2>1. \A c \in Contracts : /\ Sooner(ends[c]) \in 0..MaxTerm
                             /\ Sooner(offerLeft[c]) \in 0..OfferDays
                             /\ ends[c] = 0 => Sooner(ends[c]) = 0
    BY <1>1, SoonerType, DaysAssumption
  <2>2. QED BY <1>2, <2>1
<1>5. row' \in [Contracts -> Row]
  <2>1. row' = [c \in Contracts |-> row'[c]] BY <1>2
  <2>2. QED BY <1>3, <2>1
<1>6. Grows BY <1>2, <1>3, <1>4 DEF Grows, Exists
<1>7. TypeOK' BY <1>2, <1>4, <1>5 DEF IInv, TypeOK
<1>8. RowInv' /\ OfferInv' BY <1>2, <1>3, <1>4 DEF IInv, RowInv, OfferInv
<1>9. StagesReachedInOrder' BY <1>2 DEF IInv, StagesReachedInOrder, Earned
<1>10. NumberedWasSigned' BY <1>2, <1>3 DEF IInv, NumberedWasSigned
<1>11. RenewalFollowsFullTerm'
  <2>1. \A n \in Contracts : lease[n].renewalOf \in Contracts \cup {NoContract}
    BY DEF IInv, TypeOK, Lease
  <2>2. QED BY <1>2, <1>4, <2>1 DEF IInv, RenewalFollowsFullTerm
<1>12. SlotInv' /\ JobInv' BY <1>2, <1>6, SlotsKept, ListsGrow
<1>13. QED BY <1>7, <1>8, <1>9, <1>10, <1>11, <1>12 DEF IInv

-----------------------------------------------------------------------------
(* The theorems.                                                           *)

\* Every step of the service keeps the invariant.
LEMMA NextIInv == IInv /\ [Next]_vars => IInv'
<1> SUFFICES ASSUME IInv, [Next]_vars PROVE IInv' OBVIOUS
<1>1. CASE \E r \in Requests : Request(r)
  <2>1. PICK r \in Requests : Request(r) BY <1>1
  <2>2. CASE \E c \in Originals, p \in Properties : Create(r, c, p) \/ AdminCreate(r, c, p)
    BY <2>2, CreateStep, OriginalsAssumption
  <2>3. CASE \E c \in Contracts :
               \/ LandlordUpdateTerms(r, c) \/ AcceptContract(r, c) \/ CancelContract(r, c)
               \/ ActivateAndUploadPdf(r, c) \/ TerminateContract(r, c) \/ CreateReview(r, c)
               \/ AcceptRenewOffer(r, c) \/ RejectRenewOffer(r, c)
    BY <2>3, RequestLoads
  <2>4. QED BY <2>1, <2>2, <2>3 DEF Request
<1>2. CASE \E w \in Workers : Finish(w)
  BY <1>2, SelectStep, CommitStep, DirectStep, AcceptOfferStep, RejectOfferStep DEF Finish
<1>3. CASE (\E r \in Requests : RequestFails(r)) \/ DailyItemFails \/ Crash
  BY <1>3, Failures
<1>4. CASE DailyJob BY <1>4, DailyLists, DailyLoads DEF DailyJob
<1>5. CASE OfferJob \/ AbandonExpiredOffers
  BY <1>5, OfferLists, ExpireOfferStep DEF OfferJob
<1>6. CASE Midnight BY <1>6, MidnightStep
<1>7. CASE UNCHANGED vars
  <2>1. UNCHANGED tables /\ UNCHANGED slot /\ UNCHANGED <<daily, expiring, due, faults>>
    BY <1>7 DEF vars, tables
  <2>2. TypeOK' BY <2>1 DEF IInv, TypeOK, tables
  <2>3. SlotInv' /\ JobInv' BY <2>1, TablesKept, SlotsKept, ListsGrow
  <2>4. QED BY <2>1, <2>2, <2>3, TablesKept DEF IInv
<1>8. QED BY <1>1, <1>2, <1>3, <1>4, <1>5, <1>6, <1>7 DEF Next

\* IInv holds in every reachable state.
THEOREM Invariance == Spec => []IInv
<1>1. QED BY InitIInv, NextIInv, PTL DEF Spec

\* Every table, handler and job of the contract service keeps its type: rows have known
\* statuses, countdowns stay in range, and handlers in flight are about real contracts.
THEOREM TypeCorrect == Spec => []TypeOK
<1>1. IInv => TypeOK BY DEF IInv
<1>2. QED BY <1>1, Invariance, PTL

\* However the handlers of contracts.service.ts overlap, whatever fails, and however
\* stale the rows they save: no contract carries a status it has not earned.
THEOREM StagesInOrder == Spec => []StagesReachedInOrder
<1>1. IInv => StagesReachedInOrder BY DEF IInv
<1>2. QED BY <1>1, Invariance, PTL

\* A contract that has a number or a review was signed by both parties and then active.
THEOREM NumberedSigned == Spec => []NumberedWasSigned
<1>1. IInv => NumberedWasSigned BY DEF IInv
<1>2. QED BY <1>1, Invariance, PTL

\* A renewal continues a lease that ran its full term and was ended by the nightly job.
THEOREM RenewalAfterFullTerm == Spec => []RenewalFollowsFullTerm
<1>1. IInv => RenewalFollowsFullTerm BY DEF IInv
<1>2. QED BY <1>1, Invariance, PTL

=============================================================================
