-------------------------- MODULE WorkOrders_proofs --------------------------
(***************************************************************************)
(* Proofs about WorkOrders, for every number of orders, ratings, requests  *)
(* and failures.                                                           *)
(*                                                                         *)
(* The properties are about rows, and what can break them is what handlers *)
(* hold: Sound says what is right about it.  While nothing has changed     *)
(* since its SELECT, a save will leave exactly its entity behind, and an   *)
(* average is that of the rows there are.                                  *)
(***************************************************************************)
EXTENDS WorkOrders, TLAPS

Dated(row) == row.status = "completed" \/ row.rating # 0 => row.dated

\* The handler will save, or delete, a work order.
Holds(s) == s.at \in {"loaded", "selected"} /\ s.op # "provider"

\* What is right about a handler in flight if the orders are rows, those of t being torn.
Sound(s, rows, t) ==
    /\ s.at # "idle"
    /\ Holds(s) => /\ s.of \in Orders /\ rows[s.of].state # "none"
                   /\ s.entity.state = "live"
                   /\ s.of \notin t => Dated(s.entity)
    /\ s.at = "selected" /\ s.op # "provider" =>
           s.op \in {"update", "status", "rate"} /\ (s.fresh => Written(s, rows[s.of]) = s.entity)
    /\ s.at = "averaged" /\ s.fresh => s.ratings = Counted(rows)

SlotInv  == \A r \in Requests : slot[r] # Idle => Sound(slot[r], order, torn)
FinalInv == \A w \in final : order[w].state = "deleted" /\ ~Loaded(w)
IInv     == TypeOK /\ SlotInv /\ FinalInv /\ CompletedIsDated /\ AverageExplained

-----------------------------------------------------------------------------
(* Types.                                                                  *)

\* The row of no order is well typed.
LEMMA NoRowTyped == NoRow \in Row
  BY BoundsAssumption DEF NoRow, Row, Statuses

\* No rating is well typed.
LEMMA UnratedTyped == Unrated \in RatingsOf
  BY BoundsAssumption DEF Unrated, RatingsOf

\* A handler at work is well typed.
LEMMA HandlerTyped ==
    ASSUME NEW at \in {"idle", "loaded", "selected", "rated", "averaged"},
           NEW op \in {"none", "update", "status", "rate", "delete", "provider"},
           NEW w \in Orders \cup {NoOrder}, NEW entity \in Row, NEW dirty \in SUBSET Columns,
           NEW ratings \in RatingsOf
    PROVE  Handler(at, op, w, entity, dirty, ratings) \in Slot
  BY DEF Handler, Slot

\* A worker at rest is well typed.
LEMMA IdleTyped == Idle \in Slot
  BY HandlerTyped, NoRowTyped, UnratedTyped DEF Idle

\* What AVG and COUNT return is well typed.
LEMMA CountedTyped ==
    ASSUME NEW rows \in [Orders -> Row] PROVE Counted(rows) \in RatingsOf
  BY BoundsAssumption DEF Counted, RatingsOf, Row

\* A save writes a row.
LEMMA WrittenTyped ==
    ASSUME NEW s \in Slot, NEW row \in Row PROVE Written(s, row) \in Row
  BY DEF Written, Slot, Row

\* A write by another handler changes only what is noted of this one.
LEMMA NotedTyped ==
    ASSUME NEW s \in Slot, NEW rows
    PROVE  /\ Noted(s, rows) \in Slot
           /\ Noted(s, rows) = [at |-> s.at, op |-> s.op, of |-> s.of, entity |-> s.entity,
                                dirty |-> s.dirty, ratings |-> s.ratings,
                                fresh |-> s.fresh /\ ~Overtaken(s, rows)]
<1>2. (s.fresh /\ ~Overtaken(s, rows)) \in BOOLEAN
  BY DEF Slot
<1> DEFINE b == s.fresh /\ ~Overtaken(s, rows)
<1>3. b \in BOOLEAN /\ Noted(s, rows) = [s EXCEPT !.fresh = b]
  BY <1>2 DEF Noted
<1> HIDE DEF b
<1>4. /\ [s EXCEPT !.fresh = b] \in Slot
      /\ [s EXCEPT !.fresh = b] = [at |-> s.at, op |-> s.op, of |-> s.of, entity |-> s.entity,
                                   dirty |-> s.dirty, ratings |-> s.ratings, fresh |-> b]
  BY <1>3 DEF Slot
<1> QED  BY <1>3, <1>4 DEF b

\* An idle request notices nothing.
LEMMA IdleNoted == ASSUME NEW rows PROVE Noted(Idle, rows) = Idle
<1>1. ~Overtaken(Idle, rows) /\ Idle.fresh
  BY DEF Overtaken, Idle, Handler
<1>3. (Idle.fresh /\ ~Overtaken(Idle, rows)) = TRUE
  BY <1>1
<1> QED  BY <1>3, IdleTyped, NotedTyped DEF Idle, Handler

-----------------------------------------------------------------------------
(* What a handler knows stays right.                                       *)

\* Others that change the rows: what is out of date is noted.
LEMMA SoundNoted ==
    ASSUME TypeOK, NEW s \in Slot, NEW rows \in [Orders -> Row], NEW t, torn \subseteq t,
           \A w \in Orders : order[w].state # "none" => rows[w].state # "none",
           Sound(s, order, torn)
    PROVE  Sound(Noted(s, rows), rows, t)
<1> DEFINE n == Noted(s, rows)
<1>1. /\ n.at = s.at /\ n.op = s.op /\ n.of = s.of /\ n.entity = s.entity
      /\ n.dirty = s.dirty /\ n.ratings = s.ratings
      /\ n.fresh = (s.fresh /\ ~Overtaken(s, rows))
  BY NotedTyped
<1>2. Holds(n) <=> Holds(s)
  BY <1>1 DEF Holds
<1>3. n.fresh => s.fresh /\ ~Overtaken(s, rows)
  BY <1>1
<1> HIDE DEF n
<1>4. Holds(n) => /\ n.of \in Orders /\ rows[n.of].state # "none"
                  /\ n.entity.state = "live"
                  /\ n.of \notin t => Dated(n.entity)
  BY <1>1, <1>2 DEF Sound, Dated
<1>5. ASSUME n.at = "selected", n.op # "provider"
      PROVE  n.op \in {"update", "status", "rate"} /\ (n.fresh => Written(n, rows[n.of]) = n.entity)
  <2>1. s.of \in Orders /\ s.of # NoOrder /\ s.op \in {"update", "status", "rate"}
    BY <1>1, <1>5, NoOrderAssumption DEF Sound, Holds
  <2>2. n.fresh => rows[s.of] = order[s.of] /\ s.fresh
    BY <1>1, <1>3, <1>5, <2>1 DEF Overtaken
  <2>3. Written(n, rows[n.of]) = Written(s, rows[s.of])
    BY <1>1 DEF Written
  <2> QED  BY <1>1, <1>5, <2>1, <2>2, <2>3 DEF Sound
<1>6. n.at = "averaged" /\ n.fresh => n.ratings = Counted(rows)
  BY <1>1, <1>3 DEF Sound, Overtaken
<1>7. n.at # "idle"
  BY <1>1 DEF Sound
<1>8. Sound(n, rows, t)
  BY <1>4, <1>5, <1>6, <1>7 DEF Sound
<1> QED  BY <1>8 DEF n

\* The handlers after a step that makes the orders rows, r having become new.
LEMMA ContinueKeeps ==
    ASSUME TypeOK, SlotInv, NEW r \in Requests, NEW rows \in [Orders -> Row], order' = rows,
           NEW new \in Slot, Continue(r, new, rows),
           torn \subseteq torn',
           \A w \in Orders : order[w].state # "none" => rows[w].state # "none",
           new # Idle => Sound(new, rows, torn')
    PROVE  /\ slot' \in [Requests -> Slot] /\ SlotInv'
           /\ slot'[r] = new
           /\ \A q \in Requests \ {r} : /\ slot'[q].at = slot[q].at /\ slot'[q].op = slot[q].op
                                        /\ slot'[q].of = slot[q].of
<1>1. slot' = [q \in Requests |-> IF q = r THEN new ELSE Noted(slot[q], rows)]
  BY DEF Continue
<1>2. \A q \in Requests : slot[q] \in Slot
  BY DEF TypeOK
<1>3. \A q \in Requests : Noted(slot[q], rows) \in Slot
  BY <1>2, NotedTyped
<1>4. slot' \in [Requests -> Slot]
  BY <1>1, <1>3
<1>5. SlotInv'
  <2> SUFFICES ASSUME NEW q \in Requests, slot'[q] # Idle
               PROVE  Sound(slot'[q], rows, torn')
    BY DEF SlotInv
  <2>1. CASE q = r
    BY <1>1, <2>1
  <2>2. CASE q # r
    <3>1. slot'[q] = Noted(slot[q], rows)
      BY <1>1, <2>2
    <3>2. slot[q] # Idle
      BY <3>1, IdleNoted
    <3>3. Sound(slot[q], order, torn)
      BY <3>2 DEF SlotInv
    <3> QED  BY <1>2, <3>1, <3>3, SoundNoted
  <2> QED  BY <2>1, <2>2
<1>6. ASSUME NEW q \in Requests \ {r}
      PROVE  slot'[q].at = slot[q].at /\ slot'[q].op = slot[q].op /\ slot'[q].of = slot[q].of
  <2>1. slot'[q] = Noted(slot[q], rows) /\ slot[q] \in Slot
    BY <1>1, <1>2
  <2> QED  BY <2>1, NotedTyped
<1> QED  BY <1>1, <1>4, <1>5, <1>6

-----------------------------------------------------------------------------
(* One step of each kind.                                                  *)

\* Before any order is made.
LEMMA InitIInv == Init => IInv
<1> SUFFICES ASSUME Init PROVE IInv
  OBVIOUS
<1>1. TypeOK
  <2>1. 0 \in 0..MaxFailures
    BY BoundsAssumption
  <2> QED  BY <2>1, IdleTyped, NoRowTyped, UnratedTyped DEF Init, TypeOK
<1>2. SlotInv /\ FinalInv
  BY DEF Init, SlotInv, FinalInv
<1>3. CompletedIsDated
  BY DEF Init, CompletedIsDated, NoRow
<1>4. Counted(order) = Unrated
  BY DEF Init, Counted, NoRow, Unrated
<1>5. AverageExplained
  BY <1>4 DEF Init, AverageExplained
<1> QED  BY <1>1, <1>2, <1>3, <1>5 DEF IInv

\* A handler that goes on without writing a row: what it knows then is all there is to see.
LEMMA QuietStep ==
    ASSUME IInv, NEW r \in Requests, NEW new \in Slot,
           slot' = [slot EXCEPT ![r] = new],
           UNCHANGED <<order, torn, final>>,
           new # Idle => Sound(new, order, torn),
           new.at \in {"loaded", "selected"} /\ new.op # "delete" => new.of \notin final,
           averaged' \in RatingsOf, failures' \in 0..MaxFailures, skewed' \in BOOLEAN,
           AverageExplained'
    PROVE  IInv'
<1>0. TypeOK /\ SlotInv /\ FinalInv /\ CompletedIsDated
  BY DEF IInv
<1>1. TypeOK'
  BY <1>0 DEF TypeOK
<1>2. SlotInv'
  <2> SUFFICES ASSUME NEW q \in Requests, slot'[q] # Idle PROVE Sound(slot'[q], order, torn)
    BY DEF SlotInv
  <2>1. CASE q = r
    BY <2>1, <1>0 DEF TypeOK
  <2>2. CASE q # r
    BY <2>2, <1>0 DEF TypeOK, SlotInv
  <2> QED  BY <2>1, <2>2
<1>3. FinalInv'
  <2> SUFFICES ASSUME NEW w \in final, Loaded(w)' PROVE FALSE
    BY <1>0 DEF FinalInv
  <2>1. PICK q \in Requests : /\ slot'[q].of = w /\ slot'[q].at \in {"loaded", "selected"}
                              /\ slot'[q].op # "delete"
    BY DEF Loaded
  <2>2. w \in Orders /\ order[w].state = "deleted" /\ ~Loaded(w)
    BY <1>0 DEF TypeOK, FinalInv
  <2>3. q = r
    BY <1>0, <2>1, <2>2 DEF TypeOK, Loaded
  <2>4. slot'[q] = new
    BY <1>0, <2>3 DEF TypeOK
  <2> QED  BY <2>1, <2>4
<1>4. CompletedIsDated'
  BY <1>0 DEF CompletedIsDated
<1> QED  BY <1>1, <1>2, <1>3, <1>4 DEF IInv

\* The averages do not change and nobody begins or ends averaging.
LEMMA SameAverage ==
    ASSUME IInv, NEW r \in Requests, NEW new \in Slot,
           slot' = [slot EXCEPT ![r] = new],
           slot[r].at \notin {"rated", "averaged"} \/ new.at \in {"rated", "averaged"},
           UNCHANGED <<order, averaged, skewed>>
    PROVE  AverageExplained'
<1>1. AverageExplained /\ slot \in [Requests -> Slot]
  BY DEF IInv, TypeOK
<1>2. Averaging => Averaging'
  <2> SUFFICES ASSUME NEW q \in Requests, slot[q].at \in {"rated", "averaged"}
               PROVE  slot'[q].at \in {"rated", "averaged"}
    BY DEF Averaging
  <2> QED  BY <1>1
<1> QED  BY <1>1, <1>2 DEF AverageExplained

\* A handler that loads a live order.
LEMMA LoadKeeps ==
    ASSUME IInv, NEW r \in Requests, NEW op \in {"update", "status", "rate", "delete"},
           NEW w \in Orders, NEW entity \in Row, Load(r, op, w, entity),
           order[w].state = "live", entity.state = "live",
           w \notin torn => Dated(entity)
    PROVE  IInv'
<1> DEFINE new == Handler("loaded", op, w, entity, {}, Unrated)
<1>0. TypeOK /\ FinalInv
  BY DEF IInv
<1>1. new \in Slot
  BY HandlerTyped, UnratedTyped
<1>2. /\ new.at = "loaded" /\ new.op = op /\ new.of = w /\ new.entity = entity
      /\ slot' = [slot EXCEPT ![r] = new] /\ slot[r] = Idle
      /\ UNCHANGED <<order, averaged, failures, skewed, torn, final>>
  BY DEF Handler, Load
<1> HIDE DEF new
<1>3. Sound(new, order, torn)
  BY <1>2 DEF Sound, Holds
<1>4. w \notin final
  BY <1>0 DEF FinalInv
<1>5. AverageExplained'
  <2>1. slot[r].at = "idle"
    BY <1>2 DEF Idle, Handler
  <2> QED  BY <1>1, <1>2, <2>1, SameAverage
<1> QED  BY <1>0, <1>1, <1>2, <1>3, <1>4, <1>5, QuietStep DEF TypeOK

\* The requests that load an order.
LEMMA HandlersKeep ==
    ASSUME IInv, NEW r \in Requests, NEW w \in Orders,
           \/ \E assign \in BOOLEAN : \/ UpdateWorkOrder(r, w, assign)
                                      \/ \E status \in Sets : UpdateWorkOrderStatus(r, w, status, assign)
           \/ \E n \in 1..MaxRating : RateWorkOrder(r, w, n)
           \/ DeleteWorkOrder(r, w)
    PROVE  IInv'
<1>0. TypeOK /\ order[w] \in Row
  BY DEF IInv, TypeOK
<1>1. \A row \in Found(w) : row = order[w] /\ order[w].state = "live"
  BY DEF Found
<1>2. w \notin torn => Dated(order[w])
  BY DEF IInv, CompletedIsDated, Dated
<1> DEFINE row == order[w]
<1>3. ASSUME NEW assign \in BOOLEAN, UpdateWorkOrder(r, w, assign) PROVE IInv'
  <2> DEFINE e == [row EXCEPT !.provider = @ \/ assign]
  <2>1. e \in Row /\ e.state = row.state /\ (Dated(row) => Dated(e))
    <3>1. (row.provider \/ assign) \in BOOLEAN
      OBVIOUS
    <3> QED  BY <1>0, <3>1 DEF Row, Dated
  <2>2. Load(r, "update", w, e) /\ row.state = "live"
    BY <1>1, <1>3 DEF UpdateWorkOrder
  <2> QED  BY <1>2, <2>1, <2>2, LoadKeeps
<1>4. ASSUME NEW assign \in BOOLEAN, NEW status \in Sets, UpdateWorkOrderStatus(r, w, status, assign)
      PROVE IInv'
  <2> DEFINE e == WithStatus(row, status, assign)
  <2>1. e \in Row /\ e.state = row.state /\ (Dated(row) => Dated(e))
    <3> DEFINE provider == row.provider \/ assign
               dated == row.dated \/ status = "completed"
    <3>1. provider \in BOOLEAN /\ dated \in BOOLEAN /\ status \in Statuses
      BY StatusesAssumption
    <3>2. e = [row EXCEPT !.status = status, !.provider = provider, !.dated = dated]
      BY DEF WithStatus
    <3> HIDE DEF provider, dated
    <3>3. e = [state |-> row.state, status |-> status, dated |-> dated,
               rating |-> row.rating, provider |-> provider]
      BY <1>0, <3>2 DEF Row
    <3> HIDE DEF e
    <3>4. e \in Row
      BY <1>0, <3>1, <3>3 DEF Row
    <3>5. e.state = row.state /\ e.status = status /\ e.rating = row.rating /\ e.dated = dated
      BY <3>3
    <3>6. Dated(row) => Dated(e)
      BY <3>5 DEF Dated, dated
    <3> QED  BY <3>4, <3>5, <3>6
  <2>2. Load(r, "status", w, e) /\ row.state = "live"
    BY <1>1, <1>4 DEF UpdateWorkOrderStatus
  <2> QED  BY <1>2, <2>1, <2>2, LoadKeeps
<1>5. ASSUME NEW n \in 1..MaxRating, RateWorkOrder(r, w, n) PROVE IInv'
  <2> DEFINE e == Rated(row, n)
  <2>1. Load(r, "rate", w, e) /\ row.state = "live" /\ row.status = "completed"
    BY <1>1, <1>5 DEF RateWorkOrder
  <2>2. e \in Row /\ e.state = row.state
    <3>1. n \in 0..MaxRating
      BY BoundsAssumption
    <3> QED  BY <1>0, <3>1 DEF Rated, Row, Statuses
  <2>3. Dated(row) => Dated(e)
    BY <1>0, <2>1 DEF Rated, Row, Dated
  <2> QED  BY <1>2, <2>1, <2>2, <2>3, LoadKeeps
<1>6. ASSUME DeleteWorkOrder(r, w) PROVE IInv'
  BY <1>0, <1>1, <1>2, <1>6, LoadKeeps DEF DeleteWorkOrder
<1> QED  BY <1>3, <1>4, <1>5, <1>6

\* A save that has just read the row will leave its entity behind.
LEMMA SelectWrites ==
    ASSUME NEW s \in Slot, NEW row \in Row, s.dirty = Differing(s, row)
    PROVE  Written(s, row) = s.entity
<1>1. /\ "state"    \in s.dirty \/ row.state    = s.entity.state
      /\ "status"   \in s.dirty \/ row.status   = s.entity.status
      /\ "dated"    \in s.dirty \/ row.dated    = s.entity.dated
      /\ "rating"   \in s.dirty \/ row.rating   = s.entity.rating
      /\ "provider" \in s.dirty \/ row.provider = s.entity.provider
  BY DEF Differing, Columns
<1>2. s.entity = [state |-> s.entity.state, status |-> s.entity.status, dated |-> s.entity.dated,
                  rating |-> s.entity.rating, provider |-> s.entity.provider]
  BY DEF Slot, Row
<1> QED  BY <1>1, <1>2 DEF Written

\* The SELECT of save.
LEMMA SelectKeeps ==
    ASSUME IInv, NEW r \in Requests, SaveSelect(r) PROVE IInv'
<1> DEFINE s == slot[r]
           dirty == Differing(s, order[s.of])
           new == Handler("selected", s.op, s.of, s.entity, dirty, Unrated)
<1>0. TypeOK /\ SlotInv /\ FinalInv
  BY DEF IInv
<1>1. /\ s \in Slot /\ s.at = "loaded" /\ s.op \in {"update", "status", "rate"}
      /\ slot' = [slot EXCEPT ![r] = new]
      /\ UNCHANGED <<order, averaged, failures, skewed, torn, final>>
  BY <1>0 DEF SaveSelect, TypeOK
<1>2. s # Idle /\ Holds(s) /\ Sound(s, order, torn)
  BY <1>0, <1>1 DEF SlotInv, Idle, Handler, Holds
<1>3. s.of \in Orders /\ order[s.of] \in Row /\ s.entity \in Row
  BY <1>0, <1>1, <1>2 DEF Sound, TypeOK, Slot
<1>4. dirty \in SUBSET Columns
  BY DEF Differing
<1>5. new \in Slot
  BY <1>1, <1>3, <1>4, HandlerTyped, UnratedTyped
<1>6. /\ new.at = "selected" /\ new.op = s.op /\ new.of = s.of /\ new.entity = s.entity
      /\ new.dirty = dirty
  BY DEF Handler
<1>7. dirty = Differing(new, order[s.of])
  BY <1>6 DEF Differing, Completes
<1> HIDE DEF new, dirty
<1>8. Written(new, order[new.of]) = new.entity
  BY <1>3, <1>5, <1>6, <1>7, SelectWrites
<1>9. Sound(new, order, torn)
  BY <1>1, <1>2, <1>6, <1>8 DEF Sound, Holds
<1>10. new.of \notin final
  BY <1>0, <1>1, <1>6 DEF FinalInv, Loaded
<1>11. AverageExplained'
  BY <1>1, <1>5, SameAverage
<1> QED  BY <1>0, <1>1, <1>5, <1>9, <1>10, <1>11, QuietStep DEF TypeOK

\* Updates of the provider, and the average.
LEMMA ProviderKeeps ==
    ASSUME IInv, NEW r \in Requests,
           UpdateProvider(r) \/ SelectProvider(r) \/ CommitProvider(r)
    PROVE  IInv'
<1>0. TypeOK /\ SlotInv /\ FinalInv /\ slot[r] \in Slot
  BY DEF IInv, TypeOK
<1>1. ASSUME NEW at \in {"loaded", "selected"}, NEW dirty \in SUBSET Columns,
             NEW ratings \in RatingsOf, slot[r].at \in {"idle", "loaded"},
             slot' = [slot EXCEPT ![r] = Handler(at, "provider", NoOrder, NoRow, dirty, ratings)],
             UNCHANGED <<order, averaged, failures, skewed, torn, final>>
      PROVE  IInv'
  <2> DEFINE new == Handler(at, "provider", NoOrder, NoRow, dirty, ratings)
  <2>1. new \in Slot
    BY <1>1, HandlerTyped, NoRowTyped
  <2>2. new.at = at /\ new.op = "provider" /\ new.of = NoOrder
    BY DEF Handler
  <2> HIDE DEF new
  <2>3. Sound(new, order, torn)
    BY <1>1, <2>2 DEF Sound, Holds
  <2>4. new.of \notin final
    BY <1>0, <2>2, NoOrderAssumption DEF TypeOK
  <2>5. slot' = [slot EXCEPT ![r] = new]
    BY <1>1 DEF new
  <2>6. AverageExplained'
    BY <1>1, <2>1, <2>5, SameAverage
  <2> QED  BY <1>0, <1>1, <2>1, <2>3, <2>4, <2>5, <2>6, QuietStep DEF TypeOK
<1>2. CASE UpdateProvider(r)
  <2>1. slot[r].at = "idle" /\ averaged \in RatingsOf
    BY <1>0, <1>2 DEF UpdateProvider, Idle, Handler, TypeOK
  <2> QED  BY <1>1, <1>2, <2>1 DEF UpdateProvider
<1>3. CASE SelectProvider(r)
  <2> DEFINE dirty == IF slot[r].ratings # averaged THEN {"rating"} ELSE {}
  <2>1. slot[r].at = "loaded" /\ slot[r].op = "provider" /\ slot[r].ratings \in RatingsOf
        /\ dirty \in SUBSET Columns
    BY <1>0, <1>3 DEF SelectProvider, Slot, Columns
  <2>2. slot' = [slot EXCEPT ![r] = Handler("selected", "provider", NoOrder, NoRow, dirty, slot[r].ratings)]
        /\ UNCHANGED <<order, averaged, failures, skewed, torn, final>>
    BY <1>3, <2>1 DEF SelectProvider
  <2> HIDE DEF dirty
  <2> QED  BY <1>1, <2>1, <2>2
<1>4. CASE CommitProvider(r)
  <2>1. /\ slot' = [slot EXCEPT ![r] = Idle] /\ slot[r].at = "selected"
        /\ UNCHANGED <<order, failures, torn, final>>
    BY <1>4 DEF CommitProvider
  <2>2. averaged' \in RatingsOf /\ Idle.at = "idle"
    BY <1>0, <1>4 DEF CommitProvider, TypeOK, Slot, Idle, Handler
  <2>3. skewed' \in BOOLEAN
    BY <1>4 DEF CommitProvider
  <2>4. AverageExplained'
    <3>1. CASE slot[r].dirty = {}
      <4>1. UNCHANGED averaged /\ (skewed' <=> skewed)
        BY <1>4, <3>1 DEF CommitProvider
      <4>2. UNCHANGED skewed
        BY <1>0, <2>3, <4>1 DEF TypeOK
      <4> QED  BY <2>1, <4>1, <4>2, IdleTyped, SameAverage
    <3>2. CASE slot[r].dirty # {}
      BY <1>4, <3>2 DEF CommitProvider, AverageExplained
    <3> QED  BY <3>1, <3>2
  <2> QED  BY <1>0, <2>1, <2>2, <2>3, <2>4, IdleTyped, QuietStep DEF TypeOK
<1> QED  BY <1>2, <1>3, <1>4

\* The average of a provider is read, then written.
LEMMA AverageKeeps ==
    ASSUME IInv, NEW r \in Requests, SelectAverage(r) \/ UpdateAverage(r) PROVE IInv'
<1>0. TypeOK /\ SlotInv /\ slot[r] \in Slot
  BY DEF IInv, TypeOK
<1>1. CASE SelectAverage(r)
  <2> DEFINE new == Handler("averaged", "rate", slot[r].of, NoRow, {}, Counted(order))
  <2>1. Counted(order) \in RatingsOf
    BY <1>0, CountedTyped DEF TypeOK
  <2>2. new \in Slot
    BY <1>0, <2>1, HandlerTyped, NoRowTyped DEF Slot
  <2>3. new.at = "averaged" /\ new.ratings = Counted(order)
    BY DEF Handler
  <2>4. slot' = [slot EXCEPT ![r] = new] /\ UNCHANGED <<order, averaged, failures, skewed, torn, final>>
    BY <1>1 DEF SelectAverage
  <2> HIDE DEF new
  <2>5. Sound(new, order, torn)
    BY <2>3 DEF Sound, Holds
  <2>6. AverageExplained'
    BY <2>2, <2>3, <2>4, SameAverage
  <2> QED  BY <1>0, <2>2, <2>3, <2>4, <2>5, <2>6, QuietStep DEF TypeOK
<1>2. CASE UpdateAverage(r)
  <2>1. /\ slot' = [slot EXCEPT ![r] = Idle] /\ slot[r].at = "averaged"
        /\ averaged' = slot[r].ratings /\ skewed' = ~slot[r].fresh
        /\ UNCHANGED <<order, failures, torn, final>>
    BY <1>2 DEF UpdateAverage
  <2>2. averaged' \in RatingsOf /\ Idle.at = "idle"
    BY <1>0, <2>1 DEF Slot, Idle, Handler
  <2>3. skewed' \in BOOLEAN
    BY <2>1
  <2>4. Sound(slot[r], order, torn)
    BY <1>0, <2>1, <2>2 DEF SlotInv
  <2>5. skewed' \/ averaged' = Counted(order)
    BY <2>1, <2>4 DEF Sound
  <2>6. AverageExplained'
    BY <2>1, <2>5 DEF AverageExplained, Counted
  <2> QED  BY <1>0, <2>1, <2>2, <2>3, <2>6, IdleTyped, QuietStep DEF TypeOK
<1> QED  BY <1>1, <1>2

\* A handler fails half-way.
LEMMA FailKeeps ==
    ASSUME IInv, NEW r \in Requests, Fail(r) PROVE IInv'
<1>0. TypeOK
  BY DEF IInv
<1>1. /\ slot' = [slot EXCEPT ![r] = Idle] /\ UNCHANGED <<order, averaged, torn, final>>
      /\ failures < MaxFailures /\ failures' = failures + 1
      /\ skewed' = (skewed \/ slot[r].at \in {"rated", "averaged"})
  BY DEF Fail
<1>2. failures' \in 0..MaxFailures
  BY <1>0, <1>1, BoundsAssumption DEF TypeOK
<1>3. skewed' \in BOOLEAN /\ Idle.at = "idle"
  BY <1>1 DEF Idle, Handler
<1>4. AverageExplained'
  <2>1. CASE slot[r].at \in {"rated", "averaged"}
    BY <1>1, <2>1 DEF AverageExplained
  <2>2. CASE slot[r].at \notin {"rated", "averaged"}
    <3>1. UNCHANGED skewed
      BY <1>0, <1>1, <2>2 DEF TypeOK
    <3> QED  BY <1>1, <2>2, <3>1, IdleTyped, SameAverage
  <2> QED  BY <2>1, <2>2
<1> QED  BY <1>0, <1>1, <1>2, <1>3, <1>4, IdleTyped, QuietStep DEF TypeOK

-----------------------------------------------------------------------------
(* Steps that write rows.                                                  *)

\* The UPDATE of save.
LEMMA SaveKeeps ==
    ASSUME IInv, NEW r \in Requests, SaveCommit(r) PROVE IInv'
<1> DEFINE s    == slot[r]
           w    == s.of
           rows == [order EXCEPT ![s.of] = Written(s, order[s.of])]
           new  == IF NeedsAverage(s) THEN Handler("rated", s.op, s.of, NoRow, {}, Unrated) ELSE Idle
<1>0. TypeOK /\ SlotInv /\ FinalInv /\ CompletedIsDated /\ AverageExplained
  BY DEF IInv
<1>1. /\ s \in Slot /\ s.at = "selected" /\ s.op # "provider"
      /\ order' = rows /\ Continue(r, new, rows)
      /\ skewed' = (skewed \/ ((s.op # "rate" \/ ~s.entity.provider) /\ Counted(rows) # Counted(order)))
      /\ torn' = IF s.fresh THEN torn ELSE torn \cup {s.of}
      /\ UNCHANGED <<averaged, failures, final>>
  BY <1>0 DEF SaveCommit, TypeOK
<1>2. s # Idle /\ Holds(s) /\ Sound(s, order, torn)
  BY <1>0, <1>1 DEF SlotInv, Idle, Handler, Holds
<1>3. /\ w \in Orders /\ order[w].state # "none" /\ s.entity.state = "live"
      /\ s.op \in {"update", "status", "rate"}
      /\ w \notin torn => Dated(s.entity)
      /\ s.fresh => Written(s, order[w]) = s.entity
  BY <1>1, <1>2 DEF Sound
<1>4. order[w] \in Row /\ Written(s, order[w]) \in Row /\ rows \in [Orders -> Row]
      /\ rows[w] = Written(s, order[w]) /\ \A v \in Orders \ {w} : rows[v] = order[v]
  BY <1>0, <1>1, <1>3, WrittenTyped DEF TypeOK
<1>5. rows[w].state # "none"
  BY <1>3, <1>4 DEF Written
<1>6. new \in Slot /\ (new # Idle => Sound(new, rows, torn'))
  <2>1. CASE NeedsAverage(s)
    <3>1. new = Handler("rated", s.op, s.of, NoRow, {}, Unrated)
      BY <2>1
    <3>2. new \in Slot
      BY <1>3, <3>1, HandlerTyped, NoRowTyped, UnratedTyped
    <3>3. new.at = "rated"
      BY <3>1 DEF Handler
    <3> QED  BY <3>2, <3>3 DEF Sound, Holds
  <2>2. CASE ~NeedsAverage(s)
    BY <2>2, IdleTyped
  <2> QED  BY <2>1, <2>2
<1> HIDE DEF new, rows
<1>7. torn \subseteq torn' /\ torn' \in SUBSET Orders
  BY <1>0, <1>1, <1>3 DEF TypeOK
<1>8. \A v \in Orders : order[v].state # "none" => rows[v].state # "none"
  BY <1>4, <1>5
<1>9. /\ slot' \in [Requests -> Slot] /\ SlotInv' /\ slot'[r] = new
      /\ \A q \in Requests \ {r} : /\ slot'[q].at = slot[q].at /\ slot'[q].op = slot[q].op
                                   /\ slot'[q].of = slot[q].of
  BY <1>0, <1>1, <1>4, <1>6, <1>7, <1>8, ContinueKeeps
<1>10. TypeOK'
  BY <1>0, <1>1, <1>4, <1>7, <1>9 DEF TypeOK
<1>11. FinalInv'
  <2> SUFFICES ASSUME NEW v \in final PROVE order'[v].state = "deleted" /\ ~Loaded(v)'
    BY <1>1 DEF FinalInv
  <2>1. order[v].state = "deleted" /\ ~Loaded(v) /\ v \in Orders
    BY <1>0 DEF FinalInv, TypeOK
  <2>2. v # w
    BY <1>1, <1>3, <2>1 DEF Loaded
  <2>3. new.at \notin {"loaded", "selected"}
    BY DEF new, Handler, Idle
  <2> QED  BY <1>1, <1>4, <1>9, <2>1, <2>2, <2>3 DEF Loaded
<1>12. CompletedIsDated'
  <2> SUFFICES ASSUME NEW v \in Orders \ torn' PROVE Dated(rows[v])
    BY <1>1 DEF CompletedIsDated, Dated
  <2>1. CASE v = w
    BY <1>1, <1>3, <1>4, <2>1
  <2>2. CASE v # w
    BY <1>0, <1>4, <1>7, <2>2 DEF CompletedIsDated, Dated
  <2> QED  BY <2>1, <2>2
<1>13. AverageExplained'
  <2>1. CASE Counted(rows) = Counted(order)
    <3>1. Averaging => Averaging'
      <4> SUFFICES ASSUME NEW q \in Requests, slot[q].at \in {"rated", "averaged"}
                   PROVE  slot'[q].at \in {"rated", "averaged"}
        BY DEF Averaging
      <4> QED  BY <1>1, <1>9
    <3> QED  BY <1>0, <1>1, <2>1, <3>1 DEF AverageExplained
  <2>2. CASE Counted(rows) # Counted(order)
    <3>1. CASE s.op = "rate" /\ s.entity.provider
      <4>1. slot'[r].at = "rated"
        BY <1>9, <3>1 DEF new, NeedsAverage, Handler
      <4> QED  BY <4>1 DEF AverageExplained, Averaging
    <3>2. CASE ~(s.op = "rate" /\ s.entity.provider)
      BY <1>1, <2>2, <3>2 DEF AverageExplained
    <3> QED  BY <3>1, <3>2
  <2> QED  BY <2>1, <2>2
<1> QED  BY <1>9, <1>10, <1>11, <1>12, <1>13 DEF IInv

\* The order is soft-deleted.
LEMMA DeleteKeeps ==
    ASSUME IInv, NEW r \in Requests, SoftDelete(r) PROVE IInv'
<1> DEFINE s    == slot[r]
           w    == s.of
           rows == [order EXCEPT ![w] = [order[w] EXCEPT !.state = "deleted"]]
<1>0. TypeOK /\ SlotInv /\ FinalInv /\ CompletedIsDated /\ AverageExplained
  BY DEF IInv
<1>1. /\ s \in Slot /\ s.at = "loaded" /\ s.op = "delete"
      /\ order' = rows /\ Continue(r, Idle, rows)
      /\ skewed' = (skewed \/ Counted(rows) # Counted(order))
      /\ final' = IF Loaded(w) THEN final ELSE final \cup {w}
      /\ UNCHANGED <<averaged, failures, torn>>
  BY <1>0 DEF SoftDelete, TypeOK
<1>2. s # Idle /\ Holds(s) /\ Sound(s, order, torn)
  BY <1>0, <1>1 DEF SlotInv, Idle, Handler, Holds
<1>3. w \in Orders /\ order[w] \in Row
  BY <1>0, <1>2 DEF Sound, TypeOK
<1>4. /\ rows \in [Orders -> Row] /\ rows[w].state = "deleted"
      /\ Dated(order[w]) => Dated(rows[w])
      /\ \A v \in Orders \ {w} : rows[v] = order[v]
  <2>1. [order[w] EXCEPT !.state = "deleted"] \in Row
    BY <1>3 DEF Row
  <2> QED  BY <1>0, <1>3, <2>1 DEF TypeOK, Row, Dated
<1> HIDE DEF rows
<1>5. \A v \in Orders : order[v].state # "none" => rows[v].state # "none"
  BY <1>4
<1>6. /\ slot' \in [Requests -> Slot] /\ SlotInv' /\ slot'[r] = Idle
      /\ \A q \in Requests \ {r} : /\ slot'[q].at = slot[q].at /\ slot'[q].op = slot[q].op
                                   /\ slot'[q].of = slot[q].of
  BY <1>0, <1>1, <1>4, <1>5, IdleTyped, ContinueKeeps
<1>7. skewed' \in BOOLEAN /\ final' \in SUBSET Orders
  BY <1>0, <1>1, <1>3 DEF TypeOK
<1>8. TypeOK'
  BY <1>0, <1>1, <1>4, <1>6, <1>7 DEF TypeOK
<1>9. FinalInv'
  <2> SUFFICES ASSUME NEW v \in final' PROVE order'[v].state = "deleted" /\ ~Loaded(v)'
    BY DEF FinalInv
  <2>1. ~Loaded(v) /\ (v = w \/ order[v].state = "deleted") /\ v \in Orders
    BY <1>0, <1>1, <1>3 DEF FinalInv, TypeOK
  <2>2. order'[v].state = "deleted"
    BY <1>1, <1>4, <2>1
  <2>3. Idle.at = "idle"
    BY DEF Idle, Handler
  <2> QED  BY <1>6, <2>1, <2>2, <2>3 DEF Loaded
<1>10. CompletedIsDated'
  <2> SUFFICES ASSUME NEW v \in Orders \ torn PROVE Dated(rows[v])
    BY <1>1 DEF CompletedIsDated, Dated
  <2>1. Dated(order[v])
    BY <1>0 DEF CompletedIsDated, Dated
  <2> QED  BY <1>4, <2>1
<1>11. AverageExplained'
  <2>1. Averaging => Averaging'
    <3> SUFFICES ASSUME NEW q \in Requests, slot[q].at \in {"rated", "averaged"}
                 PROVE  slot'[q].at \in {"rated", "averaged"}
      BY DEF Averaging
    <3> QED  BY <1>1, <1>6
  <2> QED  BY <1>0, <1>1, <2>1 DEF AverageExplained
<1> QED  BY <1>6, <1>8, <1>9, <1>10, <1>11 DEF IInv

\* The nightly job marks what is overdue.
LEMMA OverdueKeeps ==
    ASSUME IInv, NEW late \in SUBSET Orders, MarkOverdue(late) PROVE IInv'
<1> DEFINE active == {w \in late : order[w].state # "none" /\ order[w].status \in {"scheduled", "in_progress"}}
           rows   == [w \in Orders |-> IF w \in active THEN [order[w] EXCEPT !.status = "overdue"]
                                                        ELSE order[w]]
<1>0. TypeOK /\ SlotInv /\ FinalInv /\ CompletedIsDated /\ AverageExplained
  BY DEF IInv
<1>1. /\ order' = rows /\ slot' = [q \in Requests |-> Noted(slot[q], rows)]
      /\ UNCHANGED <<averaged, failures, skewed, torn, final>>
  BY DEF MarkOverdue
<1>2. \A w \in Orders : order[w] \in Row
  BY <1>0 DEF TypeOK
<1>3. \A w \in Orders : /\ rows[w] \in Row
                        /\ rows[w].state = order[w].state /\ rows[w].rating = order[w].rating
                        /\ rows[w].provider = order[w].provider
                        /\ Dated(order[w]) => Dated(rows[w])
  BY <1>2 DEF Row, Dated, Statuses
<1>4. rows \in [Orders -> Row]
  BY <1>3
<1> HIDE DEF rows
<1>5. Counted(rows) = Counted(order)
  BY <1>3 DEF Counted
<1>6. \A q \in Requests : slot[q] \in Slot
  BY <1>0 DEF TypeOK
<1>7. \A q \in Requests : /\ slot'[q] \in Slot /\ slot'[q].at = slot[q].at
                          /\ slot'[q].op = slot[q].op /\ slot'[q].of = slot[q].of
  BY <1>1, <1>6, NotedTyped
<1>8. TypeOK'
  <2>1. slot' \in [Requests -> Slot]
    BY <1>1, <1>7
  <2> QED  BY <1>0, <1>1, <1>4, <2>1 DEF TypeOK
<1>9. SlotInv'
  <2> SUFFICES ASSUME NEW q \in Requests, slot'[q] # Idle PROVE Sound(slot'[q], rows, torn)
    BY <1>1 DEF SlotInv
  <2>1. slot'[q] = Noted(slot[q], rows) /\ slot[q] # Idle
    BY <1>1, IdleNoted
  <2>2. Sound(slot[q], order, torn)
    BY <1>0, <2>1 DEF SlotInv
  <2>3. \A w \in Orders : order[w].state # "none" => rows[w].state # "none"
    BY <1>3
  <2> QED  BY <1>0, <1>4, <1>6, <2>1, <2>2, <2>3, SoundNoted
<1>10. FinalInv'
  <2> SUFFICES ASSUME NEW w \in final PROVE order'[w].state = "deleted" /\ ~Loaded(w)'
    BY <1>1 DEF FinalInv
  <2>1. w \in Orders /\ order[w].state = "deleted" /\ ~Loaded(w)
    BY <1>0 DEF FinalInv, TypeOK
  <2> QED  BY <1>1, <1>3, <1>7, <2>1 DEF Loaded
<1>11. CompletedIsDated'
  BY <1>0, <1>1, <1>3 DEF CompletedIsDated, Dated
<1>12. AverageExplained'
  BY <1>0, <1>1, <1>5, <1>7 DEF AverageExplained, Averaging
<1> QED  BY <1>8, <1>9, <1>10, <1>11, <1>12 DEF IInv

\* An order is made.
LEMMA CreateKeeps ==
    ASSUME IInv, NEW w \in Orders, NEW provider \in BOOLEAN, CreateWorkOrder(w, provider)
    PROVE  IInv'
<1> DEFINE new == [state |-> "live", status |-> "scheduled", dated |-> FALSE,
                   rating |-> 0, provider |-> provider]
<1>0. TypeOK /\ SlotInv /\ FinalInv /\ CompletedIsDated /\ AverageExplained
  BY DEF IInv
<1>1. /\ order[w].state = "none" /\ order' = [order EXCEPT ![w] = new]
      /\ UNCHANGED <<averaged, slot, failures, skewed, torn, final>>
  BY DEF CreateWorkOrder
<1>2. new \in Row /\ Dated(new) /\ new.state = "live" /\ new.rating = 0
  BY BoundsAssumption DEF Row, Statuses, Dated
<1> HIDE DEF new
<1>3. /\ order' \in [Orders -> Row] /\ order'[w] = new
      /\ \A v \in Orders \ {w} : order'[v] = order[v]
  BY <1>0, <1>1, <1>2 DEF TypeOK
<1>4. TypeOK'
  BY <1>0, <1>1, <1>3 DEF TypeOK
<1>5. Counted(order') = Counted(order)
  BY <1>1, <1>2, <1>3 DEF Counted
<1>6. SlotInv'
  <2> SUFFICES ASSUME NEW q \in Requests, slot[q] # Idle PROVE Sound(slot[q], order', torn)
    BY <1>1 DEF SlotInv
  <2>1. Sound(slot[q], order, torn)
    BY <1>0 DEF SlotInv
  <2>2. Holds(slot[q]) => slot[q].of \in Orders /\ order'[slot[q].of] = order[slot[q].of]
    BY <1>1, <1>3, <2>1 DEF Sound
  <2> QED  BY <1>5, <2>1, <2>2 DEF Sound, Holds
<1>7. FinalInv'
  BY <1>0, <1>1, <1>3 DEF FinalInv, Loaded, TypeOK
<1>8. CompletedIsDated'
  BY <1>0, <1>1, <1>2, <1>3 DEF CompletedIsDated, Dated
<1>9. AverageExplained'
  BY <1>0, <1>1, <1>5 DEF AverageExplained, Averaging
<1> QED  BY <1>4, <1>6, <1>7, <1>8, <1>9 DEF IInv

-----------------------------------------------------------------------------
\* Every step of the work orders.
LEMMA NextIInv == IInv /\ [Next]_vars => IInv'
<1> SUFFICES ASSUME IInv, [Next]_vars PROVE IInv'
  OBVIOUS
<1>1. CASE UNCHANGED vars
  BY <1>1 DEF IInv, vars, TypeOK, SlotInv, FinalInv, Loaded, CompletedIsDated, AverageExplained,
             Averaging
<1>2. ASSUME NEW w \in Orders, NEW provider \in BOOLEAN, CreateWorkOrder(w, provider) PROVE IInv'
  BY <1>2, CreateKeeps
<1>3. ASSUME NEW r \in Requests, NEW w \in Orders,
             \/ \E assign \in BOOLEAN : \/ UpdateWorkOrder(r, w, assign)
                                        \/ \E status \in Sets : UpdateWorkOrderStatus(r, w, status, assign)
             \/ \E n \in 1..MaxRating : RateWorkOrder(r, w, n)
             \/ DeleteWorkOrder(r, w)
      PROVE  IInv'
  BY <1>3, HandlersKeep
<1>4. ASSUME NEW r \in Requests,
             \/ UpdateProvider(r)
             \/ SaveSelect(r) \/ SaveCommit(r) \/ SoftDelete(r)
             \/ SelectProvider(r) \/ CommitProvider(r)
             \/ SelectAverage(r) \/ UpdateAverage(r) \/ Fail(r)
      PROVE  IInv'
  BY <1>4, SelectKeeps, SaveKeeps, DeleteKeeps, ProviderKeeps, AverageKeeps, FailKeeps
<1>5. ASSUME NEW late \in SUBSET Orders, MarkOverdue(late) PROVE IInv'
  BY <1>5, OverdueKeeps
<1> QED  BY <1>1, <1>2, <1>3, <1>4, <1>5 DEF Next

\* The invariant, in every state the work orders reach.
LEMMA Invariance == Spec => []IInv
  BY InitIInv, NextIInv, PTL DEF Spec

\* Orders, handlers, averages and the histories keep their types.
THEOREM TypeCorrect == Spec => []TypeOK
<1>1. IInv => TypeOK
  BY DEF IInv
<1> QED  BY <1>1, Invariance, PTL

\* The provider's average is explained, for any number of orders, ratings and requests
\* (recalcProviderRating).
THEOREM AverageIsExplained == Spec => []AverageExplained
<1>1. IInv => AverageExplained
  BY DEF IInv
<1> QED  BY <1>1, Invariance, PTL

\* Completed and rated orders have a completion date (updateWorkOrderStatus, rateWorkOrder).
THEOREM CompletedAreDated == Spec => []CompletedIsDated
<1>1. IInv => CompletedIsDated
  BY DEF IInv
<1> QED  BY <1>1, Invariance, PTL

\* Deleted orders stay deleted (deleteWorkOrder).
THEOREM FinalDeletion == Spec => []DeletionIsFinal
<1>1. IInv => DeletionIsFinal
  BY DEF IInv, FinalInv, DeletionIsFinal
<1> QED  BY <1>1, Invariance, PTL

=============================================================================
