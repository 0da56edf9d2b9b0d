----------------------------- MODULE WorkOrders -----------------------------
(***************************************************************************)
(* Work orders and the average rating of the provider who does them        *)
(* (maintenance.service.ts, and the overdue job of                         *)
(* maintenance_background_service.ts).                                     *)
(*                                                                         *)
(* Handlers load an order, change it in memory and save it, as in          *)
(* ContractLifecycle.  Rows are only ever deleted by setting deleted_at,   *)
(* a column that save compares and writes like any other.                  *)
(*                                                                         *)
(* The averageRating of a provider is a function of the ratings it is      *)
(* computed from, and stands for them here.  Due dates are data: which     *)
(* orders are late on a night is any set.  Who may set which status is     *)
(* left out, because what a tenant may do the staff may do as well.        *)
(***************************************************************************)
EXTENDS Integers, FiniteSets

CONSTANTS
    Orders,       \* identities of work orders
    NoOrder,
    Sets,         \* statuses users set by hand
    MaxRating,    \* ratings are 1..MaxRating, and 0 is null
    Requests,     \* requests that can be in flight at once
    MaxFailures   \* bound: requests that fail between two of their statements

Statuses == {"scheduled", "pending_provider_confirmation", "in_progress",
             "completed", "closed", "overdue", "cancelled"}

ASSUME NoOrderAssumption  == NoOrder \notin Orders
ASSUME StatusesAssumption == Sets \subseteq Statuses
ASSUME BoundsAssumption   == MaxRating \in Nat \ {0} /\ MaxFailures \in Nat

VARIABLES
    order,     \* the work_orders table
    averaged,  \* the ratings behind service_providers.averageRating
    slot,      \* the handler each request has in flight
    failures,  \* requests that have failed
    skewed,    \* history: something but a rating changed what the average should be, and
               \* no undisturbed computation has followed
    torn,      \* history: orders updated by a save after they had changed since its SELECT
    final      \* history: orders deleted while no handler had them loaded

vars == <<order, averaged, slot, failures, skewed, torn, final>>

Row == [state : {"none", "live", "deleted"}, status : Statuses, dated : BOOLEAN,
        rating : 0..MaxRating, provider : BOOLEAN]

NoRow == [state |-> "none", status |-> "scheduled", dated |-> FALSE, rating |-> 0, provider |-> FALSE]

Columns == {"state", "status", "dated", "rating", "provider"}

RatingsOf == [Orders -> 0..MaxRating]

\* fresh: what the handler read last has not changed since (history).
Slot == [at : {"idle", "loaded", "selected", "rated", "averaged"},
         op : {"none", "update", "status", "rate", "delete", "provider"},
         of : Orders \cup {NoOrder}, entity : Row, dirty : SUBSET Columns,
         ratings : RatingsOf, fresh : BOOLEAN]

Unrated == [w \in Orders |-> 0]

Handler(at, op, w, entity, dirty, ratings) ==
    [at |-> at, op |-> op, of |-> w, entity |-> entity, dirty |-> dirty,
     ratings |-> ratings, fresh |-> TRUE]

Idle == Handler("idle", "none", NoOrder, NoRow, {}, Unrated)

\* What AVG(w.tenant_rating) ranges over: ratings of orders that have the provider.
Counted(rows) ==
    [w \in Orders |-> IF rows[w].state = "live" /\ rows[w].provider THEN rows[w].rating ELSE 0]

Init ==
    /\ order    = [w \in Orders |-> NoRow]
    /\ averaged = Unrated
    /\ slot     = [r \in Requests |-> Idle]
    /\ failures = 0
    /\ skewed   = FALSE
    /\ torn     = {}
    /\ final    = {}

-----------------------------------------------------------------------------
(* Handlers up to their save.                                              *)

\* createWorkOrder inserts the order, with the provider or without.
CreateWorkOrder(w, provider) ==
    /\ order[w].state = "none"
    /\ order' = [order EXCEPT ![w] = [state |-> "live", status |-> "scheduled", dated |-> FALSE,
                                      rating |-> 0, provider |-> provider]]
    /\ UNCHANGED <<averaged, slot, failures, skewed, torn, final>>

\* Mutant of Found: deleted orders are found as well, and recovered.
MutRecovered(w) ==
    IF order[w].state = "none" THEN {} ELSE {[order[w] EXCEPT !.state = "live"]}

\* findOne: not a deleted order.
Found(w) == IF order[w].state = "live" THEN {order[w]} ELSE {}

Load(r, op, w, entity) ==
    /\ slot[r] = Idle
    /\ slot' = [slot EXCEPT ![r] = Handler("loaded", op, w, entity, {}, Unrated)]
    /\ UNCHANGED <<order, averaged, failures, skewed, torn, final>>

\* A new providerId only counts if there is no provider yet: provider is loaded with the
\* order, and save takes the column from it.
UpdateWorkOrder(r, w, assign) ==
    \E row \in Found(w) : Load(r, "update", w, [row EXCEPT !.provider = @ \/ assign])

\* Mutant of WithStatus: the completion has no date.
MutUndated(row, status, assign) == [row EXCEPT !.status = status, !.provider = @ \/ assign]

WithStatus(row, status, assign) ==
    [row EXCEPT !.status = status, !.provider = @ \/ assign, !.dated = @ \/ status = "completed"]

UpdateWorkOrderStatus(r, w, status, assign) ==
    \E row \in Found(w) : Load(r, "status", w, WithStatus(row, status, assign))

\* Mutant of Rated: an off-by-one on the scale.
MutOneMore(row, n) == [row EXCEPT !.rating = n + 1, !.status = "closed"]

Rated(row, n) == [row EXCEPT !.rating = n, !.status = "closed"]

\* Only a completed order is rated.
RateWorkOrder(r, w, n) ==
    \E row \in Found(w) : row.status = "completed" /\ Load(r, "rate", w, Rated(row, n))

DeleteWorkOrder(r, w) == \E row \in Found(w) : Load(r, "delete", w, row)

\* updateProvider loads the provider, its averageRating included.
UpdateProvider(r) ==
    /\ slot[r] = Idle
    /\ slot' = [slot EXCEPT ![r] = Handler("loaded", "provider", NoOrder, NoRow, {}, averaged)]
    /\ UNCHANGED <<order, averaged, failures, skewed, torn, final>>

-----------------------------------------------------------------------------
(* Saving and deleting.                                                    *)

Completes(s) == s.op = "status" /\ s.entity.status = "completed"

\* The columns save finds changed; completedDate = new Date() always is.
Differing(s, row) ==
    {c \in Columns : \/ c = "state"    /\ s.entity.state # row.state
                     \/ c = "status"   /\ s.entity.status # row.status
                     \/ c = "dated"    /\ (s.entity.dated # row.dated \/ Completes(s))
                     \/ c = "rating"   /\ s.entity.rating # row.rating
                     \/ c = "provider" /\ s.entity.provider # row.provider}

SaveSelect(r) ==
    LET s == slot[r]
    IN  /\ s.at = "loaded" /\ s.op \in {"update", "status", "rate"}
        /\ slot' = [slot EXCEPT ![r] =
                        Handler("selected", s.op, s.of, s.entity, Differing(s, order[s.of]), Unrated)]
        /\ UNCHANGED <<order, averaged, failures, skewed, torn, final>>

Written(s, row) ==
    [state    |-> IF "state"    \in s.dirty THEN s.entity.state    ELSE row.state,
     status   |-> IF "status"   \in s.dirty THEN s.entity.status   ELSE row.status,
     dated    |-> IF "dated"    \in s.dirty THEN s.entity.dated    ELSE row.dated,
     rating   |-> IF "rating"   \in s.dirty THEN s.entity.rating   ELSE row.rating,
     provider |-> IF "provider" \in s.dirty THEN s.entity.provider ELSE row.provider]

\* Handlers that read an order or the ratings before the tables became rows.
Overtaken(s, rows) ==
    \/ s.at = "selected" /\ s.of # NoOrder /\ rows[s.of] # order[s.of]
    \/ s.at = "averaged" /\ Counted(rows) # Counted(order)

Noted(s, rows) == [s EXCEPT !.fresh = @ /\ ~Overtaken(s, rows)]

\* Handler r goes on as s; what the others have read may be out of date.
Continue(r, s, rows) ==
    slot' = [q \in Requests |-> IF q = r THEN s ELSE Noted(slot[q], rows)]

\* Mutant of NeedsAverage: the average is not computed again.
MutNeverAverages(s) == FALSE

\* rateWorkOrder goes on to recalcProviderRating if the saved order has a provider.
NeedsAverage(s) == s.op = "rate" /\ s.entity.provider

\* The UPDATE of save.
SaveCommit(r) ==
    LET s    == slot[r]
        rows == [order EXCEPT ![s.of] = Written(s, @)]
    IN  /\ s.at = "selected" /\ s.op # "provider"
        /\ order' = rows
        /\ Continue(r, IF NeedsAverage(s) THEN Handler("rated", s.op, s.of, NoRow, {}, Unrated)
                                          ELSE Idle, rows)
        /\ skewed' = (skewed \/ ((s.op # "rate" \/ ~s.entity.provider) /\ Counted(rows) # Counted(order)))
        /\ torn' = IF s.fresh THEN torn ELSE torn \cup {s.of}
        /\ UNCHANGED <<averaged, failures, final>>

\* A handler that will save the order has it loaded.
Loaded(w) == \E r \in Requests : slot[r].of = w /\ slot[r].at \in {"loaded", "selected"}
                                 /\ slot[r].op # "delete"

\* deleteWorkOrder: softDelete.
SoftDelete(r) ==
    LET w    == slot[r].of
        rows == [order EXCEPT ![w] = [@ EXCEPT !.state = "deleted"]]
    IN  /\ slot[r].at = "loaded" /\ slot[r].op = "delete"
        /\ order' = rows
        /\ Continue(r, Idle, rows)
        /\ skewed' = (skewed \/ Counted(rows) # Counted(order))
        /\ final' = IF Loaded(w) THEN final ELSE final \cup {w}
        /\ UNCHANGED <<averaged, failures, torn>>

\* The save of updateProvider reads the provider again.  averageRating is written if it
\* has changed meanwhile, back to what it was.
SelectProvider(r) ==
    LET s == slot[r]
    IN  /\ s.at = "loaded" /\ s.op = "provider"
        /\ slot' = [slot EXCEPT ![r] = Handler("selected", s.op, NoOrder, NoRow,
                        IF s.ratings # averaged THEN {"rating"} ELSE {}, s.ratings)]
        /\ UNCHANGED <<order, averaged, failures, skewed, torn, final>>

CommitProvider(r) ==
    LET s == slot[r]
    IN  /\ s.at = "selected" /\ s.op = "provider"
        /\ averaged' = IF s.dirty = {} THEN averaged ELSE s.ratings
        /\ skewed' = (skewed \/ s.dirty # {})
        /\ slot' = [slot EXCEPT ![r] = Idle]
        /\ UNCHANGED <<order, failures, torn, final>>

-----------------------------------------------------------------------------
(* The average, the overdue job, failures.                                 *)

\* recalcProviderRating: the SELECT of the average ...
SelectAverage(r) ==
    /\ slot[r].at = "rated"
    /\ slot' = [slot EXCEPT ![r] = Handler("averaged", "rate", slot[r].of, NoRow, {}, Counted(order))]
    /\ UNCHANGED <<order, averaged, failures, skewed, torn, final>>

\* ... and the UPDATE of the provider.
UpdateAverage(r) ==
    /\ slot[r].at = "averaged"
    /\ averaged' = slot[r].ratings
    /\ skewed' = ~slot[r].fresh
    /\ slot' = [slot EXCEPT ![r] = Idle]
    /\ UNCHANGED <<order, failures, torn, final>>

\* markOverdueWorkOrders: one UPDATE, of deleted orders too.
MarkOverdue(late) ==
    LET active == {w \in late : order[w].state # "none" /\ order[w].status \in {"scheduled", "in_progress"}}
        rows   == [w \in Orders |-> IF w \in active THEN [order[w] EXCEPT !.status = "overdue"]
                                                    ELSE order[w]]
    IN  /\ active # {}
        /\ order' = rows
        /\ slot' = [q \in Requests |-> Noted(slot[q], rows)]
        /\ UNCHANGED <<averaged, failures, skewed, torn, final>>

\* An error or a restart between two statements: a rating may stay out of the average.
Fail(r) ==
    /\ slot[r] # Idle
    /\ failures < MaxFailures /\ failures' = failures + 1
    /\ skewed' = (skewed \/ slot[r].at \in {"rated", "averaged"})
    /\ slot' = [slot EXCEPT ![r] = Idle]
    /\ UNCHANGED <<order, averaged, torn, final>>

Next ==
    \/ \E w \in Orders, provider \in BOOLEAN : CreateWorkOrder(w, provider)
    \/ \E r \in Requests, w \in Orders :
           \/ \E assign \in BOOLEAN : \/ UpdateWorkOrder(r, w, assign)
                                      \/ \E status \in Sets : UpdateWorkOrderStatus(r, w, status, assign)
           \/ \E n \in 1..MaxRating : RateWorkOrder(r, w, n)
           \/ DeleteWorkOrder(r, w)
    \/ \E r \in Requests :
           \/ UpdateProvider(r)
           \/ SaveSelect(r) \/ SaveCommit(r) \/ SoftDelete(r)
           \/ SelectProvider(r) \/ CommitProvider(r)
           \/ SelectAverage(r) \/ UpdateAverage(r) \/ Fail(r)
    \/ \E late \in SUBSET Orders : MarkOverdue(late)

Spec == Init /\ [][Next]_vars

-----------------------------------------------------------------------------
(* Correctness.                                                            *)

\* The type invariant.
TypeOK ==
    /\ order \in [Orders -> Row]
    /\ averaged \in RatingsOf
    /\ slot \in [Requests -> Slot]
    /\ failures \in 0..MaxFailures
    /\ skewed \in BOOLEAN
    /\ torn \in SUBSET Orders
    /\ final \in SUBSET Orders

\* A rating that was saved is still to be averaged.
Averaging == \E r \in Requests : slot[r].at \in {"rated", "averaged"}

\* The provider's average is that of the ratings there are, except after one of these,
\* until a rating is averaged undisturbed: an average that was computed before another
\* change was written after it, its handler failed, an update of the provider wrote an old
\* one back, or a rating came or went by another way than rating, that is by deleting or
\* restoring an order, assigning a provider, or a save that puts an old entity back
\* (rateWorkOrder, recalcProviderRating, updateProvider, deleteWorkOrder).
AverageExplained == skewed \/ Averaging \/ averaged = Counted(order)

\* An order that is completed or has been rated has a completion date, however handlers
\* overlap, unless a save wrote to it after it had changed since the save's SELECT
\* (updateWorkOrderStatus, rateWorkOrder).
CompletedIsDated ==
    \A w \in Orders \ torn :
        order[w].status = "completed" \/ order[w].rating # 0 => order[w].dated

\* A deleted work order does not come back, unless a handler had loaded it before it was
\* deleted and saves it afterwards, deleted_at included (deleteWorkOrder).
DeletionIsFinal == \A w \in final : order[w].state = "deleted"

=============================================================================
