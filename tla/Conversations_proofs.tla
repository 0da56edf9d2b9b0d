----------------------- MODULE Conversations_proofs ------------------------
(***************************************************************************)
(* Proofs about the three parts that MCConversations puts side by side,    *)
(* for every number of messages, articles, pictures, rows, requests and    *)
(* failures.                                                               *)
(*                                                                         *)
(* Conversations: a count changes when a handler comes to its UPDATE, long *)
(* after the row it stands for was inserted.  SendInv says what a send in  *)
(* flight knows of its message: it was inserted, it is its sender's, it is *)
(* not counted, and no other handler will count it.                        *)
(*                                                                         *)
(* Content: a picture belongs to one article: it is in its row, or a       *)
(* handler that has loaded that article will write or has unlinked it      *)
(* (OwnInv); hence what happens to one article explains nothing of         *)
(* another.  Of a handler whose row has not changed since, the picture it  *)
(* will write is the row's and it unlinks none, or is a new one that       *)
(* nobody has unlinked (NewInv).                                           *)
(*                                                                         *)
(* Paging: PagesExplained is about the end of a walk.  On the way there,   *)
(* with cursors, the rows beyond the cursor have not been shown and the    *)
(* others have (CursorInv): a new cursor is below the one before it, since *)
(* a row never changes its time, and unless the page is muddled the rows   *)
(* not below it precede its row.  With numbers, a row that was missed has  *)
(* as many rows above it as the pages so far have room for, and of one     *)
(* that was shown there are no more from it upwards (NumberInv).           *)
(***************************************************************************)
EXTENDS MCConversations, FiniteSetTheorems, WellFoundedInduction, TLAPS

-----------------------------------------------------------------------------
(* Conversations.                                                          *)

Sending(r) == slot[r].op = "send"

SendInv ==
    \A r \in Requests : Sending(r) =>
        /\ slot[r].message \in 1..sent
        /\ slot[r].message \notin counted
        /\ sender[slot[r].message] = slot[r].user
        /\ \A q \in Requests \ {r} : Sending(q) => slot[q].message # slot[r].message

\* What has been counted has been inserted, and nothing is sent before the conversation
\* exists.
CountedInv == counted \subseteq 1..sent /\ (~exists => sent = 0)

IInv == TypeOK /\ SendInv /\ CountedInv /\ UnreadCountExplained /\ LastMessageIsNewest

\* The messages a participant's count stands for.
InCount(u) == Pending(u) \cap counted

-----------------------------------------------------------------------------
\* Sets of messages are finite, so they can be counted.
LEMMA MessagesFinite ==
    ASSUME NEW S \in SUBSET Messages
    PROVE  IsFiniteSet(S) /\ Cardinality(S) \in Nat
<1>1. MaxMessages \in Int /\ 1 \in Int
  BY BoundsAssumption
<1>2. IsFiniteSet(Messages)
  BY <1>1, FS_Interval DEF Messages
<1>3. IsFiniteSet(S)
  BY <1>2, FS_Subset
<1> QED  BY <1>3, FS_CardinalityType

\* Each participant's other is the other one.
LEMMA OtherParticipant ==
    ASSUME NEW u \in Participants
    PROVE  Other(u) \in Participants /\ Other(u) # u /\ Other(Other(u)) = u
  BY ParticipantsAssumption DEF Participants, Other

\* Before there is a conversation.
LEMMA InitIInv == Init => IInv
<1> SUFFICES ASSUME Init PROVE IInv
  OBVIOUS
<1>1. TypeOK
  <2>1. Idle \in Slot /\ One \in Participants
    BY BoundsAssumption DEF Idle, Slot, Participants
  <2>2. slot \in [Requests -> Slot] /\ sender \in [Messages -> Participants]
    BY <2>1 DEF Init
  <2>3. sent \in 0..MaxMessages /\ last \in 0..MaxMessages /\ failures \in 0..MaxFailures
    BY BoundsAssumption DEF Init
  <2>4. unread \in [Participants -> Nat] /\ seen \in [Participants -> SUBSET Messages]
    BY DEF Init
  <2>5. exists \in BOOLEAN /\ overtaken \in BOOLEAN
    BY DEF Init
  <2>6. counted \in SUBSET Messages /\ miscounted \in SUBSET Participants
    BY DEF Init
  <2> QED  BY <2>2, <2>3, <2>4, <2>5, <2>6 DEF TypeOK
<1>2. SendInv
  BY DEF Init, SendInv, Sending, Idle
<1>3. CountedInv
  BY DEF Init, CountedInv
<1>4. ASSUME NEW u \in Participants PROVE unread[u] = Cardinality(InCount(u))
  <2>1. InCount(u) = {} /\ unread[u] = 0
    BY DEF Init, InCount
  <2> QED  BY <2>1, FS_EmptySet
<1>5. UnreadCountExplained
  BY <1>4 DEF UnreadCountExplained, InCount
<1>6. LastMessageIsNewest
  BY DEF Init, LastMessageIsNewest
<1> QED  BY <1>1, <1>2, <1>3, <1>5, <1>6 DEF IInv

-----------------------------------------------------------------------------
(* What starting and ending a handler does to the other handlers.          *)

\* A slot is freed: nothing new is sent or counted, and every reader but its own goes on.
LEMMA DoneStep ==
    ASSUME TypeOK, SendInv, NEW r \in Requests, Done(r), UNCHANGED <<sent, sender>>,
           counted' \subseteq counted
                \cup (IF Sending(r) THEN {slot[r].message} ELSE {})
    PROVE  /\ slot' \in [Requests -> Slot]
           /\ SendInv'
           /\ \A u \in Participants :
                  Reading(u) /\ ~(slot[r].op = "read" /\ slot[r].user = u) => Reading(u)'
<1>1. Idle \in Slot /\ Idle.op = "none"
  BY BoundsAssumption DEF Idle, Slot, Participants
<1>2. \A q \in Requests : slot'[q] = IF q = r THEN Idle ELSE slot[q]
  BY DEF Done, TypeOK
<1>3. slot' \in [Requests -> Slot]
  BY <1>1 DEF Done, TypeOK
<1>4. SendInv'
  <2> SUFFICES ASSUME NEW q \in Requests, Sending(q)'
               PROVE  /\ slot'[q].message \in 1..sent'
                      /\ slot'[q].message \notin counted'
                      /\ sender'[slot'[q].message] = slot'[q].user
                      /\ \A p \in Requests \ {q} :
                             Sending(p)' => slot'[p].message # slot'[q].message
    BY DEF SendInv
  <2>1. q # r /\ slot'[q] = slot[q] /\ Sending(q)
    BY <1>1, <1>2 DEF Sending
  <2>2. slot[q].message \notin counted'
    BY <2>1 DEF SendInv
  <2>3. \A p \in Requests \ {q} : Sending(p)' => slot'[p].message # slot'[q].message
    BY <1>1, <1>2, <2>1 DEF SendInv, Sending
  <2> QED  BY <2>1, <2>2, <2>3 DEF SendInv
<1>5. \A u \in Participants :
          Reading(u) /\ ~(slot[r].op = "read" /\ slot[r].user = u) => Reading(u)'
  BY <1>2 DEF Reading
<1> QED  BY <1>3, <1>4, <1>5

\* A handler that does not send starts: the sends in flight are as they were.
LEMMA StartStep ==
    ASSUME TypeOK, SendInv, NEW r \in Requests, NEW u \in Participants,
           NEW op \in {"create", "read"}, Start(r, op, u, 0),
           UNCHANGED <<sent, sender, counted>>
    PROVE  /\ slot' \in [Requests -> Slot]
           /\ SendInv'
           /\ \A v \in Participants : Reading(v) => Reading(v)'
           /\ op = "read" => Reading(u)'
<1> DEFINE s == [op |-> op, user |-> u, message |-> 0]
<1>1. s \in Slot /\ s.op = op /\ s.user = u
  BY BoundsAssumption DEF Slot
<1>2. slot' = [slot EXCEPT ![r] = s] /\ slot[r].op = "none"
  BY DEF Start, Idle
<1> HIDE DEF s
<1>3. \A q \in Requests : slot'[q] = IF q = r THEN s ELSE slot[q]
  BY <1>2 DEF TypeOK
<1>4. slot' \in [Requests -> Slot]
  BY <1>1, <1>2 DEF TypeOK
<1>5. \A q \in Requests : Sending(q)' <=> Sending(q)
  BY <1>1, <1>2, <1>3 DEF Sending
<1>6. \A q \in Requests : Sending(q) => slot'[q] = slot[q]
  BY <1>2, <1>3 DEF Sending
<1>7. SendInv'
  BY <1>5, <1>6 DEF SendInv
<1>8. \A v \in Participants : Reading(v) => Reading(v)'
  BY <1>2, <1>3 DEF Reading
<1>9. op = "read" => Reading(u)'
  BY <1>1, <1>3 DEF Reading
<1> QED  BY <1>4, <1>7, <1>8, <1>9

-----------------------------------------------------------------------------
(* One lemma for each action.                                              *)

\* getOrCreateConversation finds no row.
LEMMA CreateStep ==
    ASSUME IInv, NEW r \in Requests, NEW u \in Participants, GetOrCreateConversation(r, u)
    PROVE  IInv'
<1>1. /\ slot' \in [Requests -> Slot] /\ SendInv'
      /\ \A v \in Participants : Reading(v) => Reading(v)'
  BY StartStep DEF IInv, GetOrCreateConversation
<1>2. TypeOK' /\ CountedInv' /\ LastMessageIsNewest'
  BY <1>1 DEF IInv, TypeOK, CountedInv, LastMessageIsNewest, GetOrCreateConversation
<1>3. \A v \in Participants : Pending(v)' = Pending(v)
  BY DEF Pending, GetOrCreateConversation
<1>4. UnreadCountExplained'
  BY <1>1, <1>3 DEF IInv, UnreadCountExplained, GetOrCreateConversation
<1> QED  BY <1>1, <1>2, <1>4 DEF IInv

\* Inserting the row sets counts and pointer to 0; there is no message yet.
LEMMA InsertStep ==
    ASSUME IInv, NEW r \in Requests, InsertConversation(r) PROVE IInv'
<1>1. /\ slot' \in [Requests -> Slot] /\ SendInv'
      /\ \A v \in Participants : Reading(v) => Reading(v)'
  BY DoneStep DEF IInv, InsertConversation, Sending
<1>2. \A v \in Participants : Pending(v)' = Pending(v)
  BY DEF Pending, InsertConversation
<1>3. CountedInv'
  BY DEF IInv, CountedInv, InsertConversation
<1>4. CASE exists
  <2>1. UNCHANGED <<last, unread, exists>>
    BY <1>4 DEF InsertConversation, IInv, TypeOK
  <2>2. TypeOK' /\ LastMessageIsNewest'
    BY <1>1, <2>1 DEF IInv, TypeOK, LastMessageIsNewest, InsertConversation
  <2>3. UnreadCountExplained'
    BY <1>1, <1>2, <2>1 DEF IInv, UnreadCountExplained, InsertConversation
  <2> QED  BY <1>1, <1>3, <2>2, <2>3 DEF IInv
<1>5. CASE ~exists
  <2>1. last' = 0 /\ unread' = [u \in Participants |-> 0]
    BY <1>5 DEF InsertConversation
  <2>2. exists' \in BOOLEAN
    BY DEF InsertConversation
  <2>3. TypeOK'
    BY <1>1, <2>1, <2>2, BoundsAssumption DEF IInv, TypeOK, InsertConversation
  <2>4. counted = {} /\ counted' = {}
    BY <1>5 DEF IInv, CountedInv, InsertConversation
  <2>5. LastMessageIsNewest'
    BY <2>1, <2>4 DEF LastMessageIsNewest
  <2>6. ASSUME NEW v \in Participants PROVE unread'[v] = Cardinality(Pending(v)' \cap counted')
    BY <2>1, <2>4, FS_EmptySet
  <2>7. UnreadCountExplained'
    BY <2>6 DEF UnreadCountExplained
  <2> QED  BY <1>1, <1>3, <2>3, <2>5, <2>7 DEF IInv
<1> QED  BY <1>4, <1>5

\* A new message is pending and not counted.
LEMMA SendStep ==
    ASSUME IInv, NEW r \in Requests, NEW u \in Participants, SendMessage(r, u) PROVE IInv'
<1> DEFINE m == sent + 1
           s == [op |-> "send", user |-> u, message |-> m]
<1>1. m \in Messages /\ m \notin 1..sent /\ 1..sent \subseteq 1..m /\ m \in 1..m
  BY BoundsAssumption DEF IInv, TypeOK, SendMessage, Messages
<1>2. s \in Slot /\ s.op = "send" /\ s.user = u /\ s.message = m
  BY <1>1, BoundsAssumption DEF Slot, Messages
<1>3. slot[r].op = "none" /\ slot' = [slot EXCEPT ![r] = s]
  BY DEF SendMessage, Start, Idle
<1>4. sent' = m /\ sender' = [sender EXCEPT ![m] = u]
  BY DEF SendMessage
<1>5. m \in 0..MaxMessages
  BY <1>1, BoundsAssumption DEF Messages
<1> HIDE DEF m, s
<1>6. \A q \in Requests : slot'[q] = IF q = r THEN s ELSE slot[q]
  BY <1>3 DEF IInv, TypeOK
<1>7. TypeOK'
  BY <1>1, <1>2, <1>3, <1>4, <1>5 DEF IInv, TypeOK, SendMessage
<1>8. CountedInv'
  BY <1>1, <1>4 DEF IInv, CountedInv, SendMessage
<1>9. LastMessageIsNewest'
  BY DEF IInv, LastMessageIsNewest, SendMessage
<1>10. SendInv'
  <2> SUFFICES ASSUME NEW q \in Requests, Sending(q)'
               PROVE  /\ slot'[q].message \in 1..sent'
                      /\ slot'[q].message \notin counted'
                      /\ sender'[slot'[q].message] = slot'[q].user
                      /\ \A p \in Requests \ {q} :
                             Sending(p)' => slot'[p].message # slot'[q].message
    BY DEF SendInv
  <2>1. counted' = counted /\ counted \subseteq 1..sent
    BY DEF SendMessage, IInv, CountedInv
  <2>2. \A p \in Requests \ {r} :
            Sending(p)' => /\ Sending(p) /\ slot'[p] = slot[p]
                           /\ slot[p].message \in 1..sent
    BY <1>6 DEF Sending, IInv, SendInv
  <2>3. CASE q = r
    <3>1. slot'[q].message = m /\ slot'[q].user = u
      BY <1>2, <1>6, <2>3
    <3>2. sender'[m] = u
      BY <1>1, <1>4 DEF IInv, TypeOK
    <3> QED  BY <1>1, <1>4, <2>1, <2>2, <2>3, <3>1, <3>2
  <2>4. CASE q # r
    <3>1. slot'[q] = slot[q] /\ Sending(q) /\ slot[q].message \in 1..sent
      BY <2>2, <2>4
    <3>2. sender'[slot[q].message] = sender[slot[q].message]
      BY <1>1, <1>4, <3>1 DEF IInv, TypeOK
    <3>3. \A p \in Requests \ {q} : Sending(p)' => slot'[p].message # slot[q].message
      BY <1>1, <1>2, <1>6, <2>2, <3>1 DEF IInv, SendInv
    <3> QED  BY <1>1, <1>4, <2>1, <3>1, <3>2, <3>3 DEF IInv, SendInv
  <2> QED  BY <2>3, <2>4
<1>11. ASSUME NEW v \in Participants PROVE Pending(v)' \cap counted' = Pending(v) \cap counted
  <2>1. \A k \in 1..sent : sender'[k] = sender[k]
    BY <1>1, <1>4 DEF IInv, TypeOK
  <2>2. seen' = seen /\ counted' = counted /\ counted \subseteq 1..sent
    BY DEF SendMessage, IInv, CountedInv
  <2> QED  BY <1>1, <1>4, <2>1, <2>2 DEF Pending
<1>12. \A v \in Participants : Reading(v) => Reading(v)'
  BY <1>3, <1>6 DEF Reading
<1>13. UnreadCountExplained'
  BY <1>11, <1>12 DEF IInv, UnreadCountExplained, SendMessage
<1> QED  BY <1>7, <1>8, <1>9, <1>10, <1>13 DEF IInv

\* One message more is counted; it stands in its receiver's count, and in no other.
LEMMA CountStep ==
    ASSUME IInv, NEW r \in Requests, CountMessage(r) PROVE IInv'
<1> DEFINE m == slot[r].message
           u == Other(slot[r].user)
<1>1. slot[r] \in Slot /\ slot[r].op = "send" /\ Sending(r)
  BY DEF IInv, TypeOK, CountMessage, Sending
<1>2. slot[r].user \in Participants /\ u \in Participants /\ u # slot[r].user
      /\ Other(u) = slot[r].user
  BY <1>1, OtherParticipant DEF Slot
<1>3. m \in 1..sent /\ m \notin counted /\ sender[m] = slot[r].user
  BY <1>1 DEF IInv, SendInv
<1>4. m \in Messages /\ m \in 0..MaxMessages
  BY <1>3, BoundsAssumption DEF IInv, TypeOK, Messages
<1>5. /\ last' = m /\ unread' = [unread EXCEPT ![u] = @ + 1]
      /\ counted' = counted \cup {m} /\ overtaken' = (\E k \in counted : k > m)
      /\ miscounted' = IF m \in seen[u] THEN miscounted \cup {u} ELSE miscounted
      /\ UNCHANGED <<exists, sender, sent, failures, seen>> /\ Done(r)
  BY DEF CountMessage
<1>6. counted' \subseteq counted \cup (IF Sending(r) THEN {m} ELSE {})
  BY <1>1, <1>5
<1>7. /\ slot' \in [Requests -> Slot] /\ SendInv'
      /\ \A v \in Participants : Reading(v) => Reading(v)'
  BY <1>1, <1>5, <1>6, DoneStep DEF IInv
<1> HIDE DEF m, u
<1>8. TypeOK'
  <2>1. overtaken' \in BOOLEAN
    BY Zenon, <1>5
  <2>2. unread' \in [Participants -> Nat]
    BY <1>2, <1>5 DEF IInv, TypeOK
  <2> QED  BY <1>2, <1>4, <1>5, <1>7, <2>1, <2>2 DEF IInv, TypeOK
<1>9. CountedInv'
  BY <1>3, <1>5 DEF IInv, CountedInv
<1>10. LastMessageIsNewest'
  <2>1. CASE \E k \in counted : k > m
    BY <1>5, <2>1 DEF LastMessageIsNewest
  <2>2. CASE ~\E k \in counted : k > m
    <3>1. \A k \in counted' : k \in Int /\ k <= m
      BY <1>4, <1>5, <2>2, BoundsAssumption DEF IInv, TypeOK, Messages
    <3> QED  BY <1>5, <3>1 DEF LastMessageIsNewest
  <2> QED  BY <2>1, <2>2
<1>11. ASSUME NEW v \in Participants, ~Reading(v)', v \notin miscounted'
       PROVE  unread'[v] = Cardinality(Pending(v)' \cap counted')
  <2>1. ~Reading(v) /\ v \notin miscounted
    BY <1>5, <1>7, <1>11
  <2>2. unread[v] = Cardinality(Pending(v) \cap counted)
    BY <2>1 DEF IInv, UnreadCountExplained
  <2>3. Pending(v)' = Pending(v)
    BY <1>5 DEF Pending
  <2>4. CASE v = u
    <3>1. m \notin seen[u]
      BY <1>5, <1>11, <2>4
    <3>2. m \in Pending(v) /\ m \notin Pending(v) \cap counted
      BY <1>2, <1>3, <2>4, <3>1 DEF Pending
    <3>3. Pending(v)' \cap counted' = (Pending(v) \cap counted) \cup {m}
      BY <1>5, <2>3, <3>2
    <3>4. Pending(v) \cap counted \in SUBSET Messages
      BY DEF IInv, TypeOK
    <3>5. IsFiniteSet(Pending(v) \cap counted)
      BY <3>4, MessagesFinite
    <3>6. Cardinality((Pending(v) \cap counted) \cup {m}) = Cardinality(Pending(v) \cap counted) + 1
      BY <3>2, <3>5, FS_AddElement
    <3>7. unread'[v] = unread[v] + 1
      BY <1>2, <1>5, <2>4 DEF IInv, TypeOK
    <3> QED  BY <2>2, <3>3, <3>6, <3>7
  <2>5. CASE v # u
    <3>1. v = slot[r].user
      BY <1>2, <2>5 DEF Participants
    <3>2. m \notin Pending(v)
      BY <1>2, <1>3, <3>1, OtherParticipant DEF Pending
    <3>3. Pending(v)' \cap counted' = Pending(v) \cap counted
      BY <1>5, <2>3, <3>2
    <3>4. unread'[v] = unread[v]
      BY <1>5, <2>5 DEF IInv, TypeOK
    <3> QED  BY <2>2, <3>3, <3>4
  <2> QED  BY <2>4, <2>5
<1>12. UnreadCountExplained'
  BY <1>11 DEF UnreadCountExplained
<1> QED  BY <1>7, <1>8, <1>9, <1>10, <1>12 DEF IInv

\* Reading leaves nothing pending; the count is 0 already or will be reset.
LEMMA ReadStep ==
    ASSUME IInv, NEW r \in Requests, NEW u \in Participants, MarkAsRead(r, u) PROVE IInv'
<1>1. seen' = [seen EXCEPT ![u] = 1..sent] /\ 1..sent \subseteq Messages
  BY BoundsAssumption DEF MarkAsRead, IInv, TypeOK, Messages
<1>2. UNCHANGED <<exists, sender, sent, last, unread, failures, counted, overtaken>>
  BY DEF MarkAsRead
<1>3. Pending(u)' = {}
  BY <1>1, <1>2 DEF Pending, IInv, TypeOK
<1>4. \A v \in Participants \ {u} : Pending(v)' = Pending(v)
  BY <1>1, <1>2 DEF Pending, IInv, TypeOK
<1>5. CountedInv' /\ LastMessageIsNewest'
  BY <1>2 DEF IInv, CountedInv, LastMessageIsNewest
<1>6. CASE unread[u] = 0
  <2>1. slot' = slot /\ miscounted' = miscounted \ {u}
    BY <1>6 DEF MarkAsRead
  <2>2. TypeOK' /\ SendInv'
    BY <1>1, <1>2, <2>1 DEF IInv, TypeOK, SendInv, Sending
  <2>3. unread'[u] = Cardinality(Pending(u)' \cap counted')
    <3>1. Pending(u)' \cap counted' = {}
      BY <1>3
    <3> QED  BY <1>2, <1>6, <3>1, FS_EmptySet
  <2>4. \A v \in Participants : Reading(v)' <=> Reading(v)
    BY <2>1 DEF Reading
  <2>5. UnreadCountExplained'
    BY <1>2, <1>4, <2>1, <2>3, <2>4 DEF IInv, UnreadCountExplained
  <2> QED  BY <1>5, <2>2, <2>5 DEF IInv
<1>7. CASE unread[u] # 0
  <2>1. Start(r, "read", u, 0) /\ miscounted' = miscounted
    BY <1>7 DEF MarkAsRead
  <2>2. /\ slot' \in [Requests -> Slot] /\ SendInv'
        /\ \A v \in Participants : Reading(v) => Reading(v)'
        /\ Reading(u)'
    BY <1>2, <2>1, StartStep DEF IInv
  <2>3. TypeOK'
    BY <1>1, <1>2, <2>1, <2>2 DEF IInv, TypeOK
  <2>4. UnreadCountExplained'
    BY <1>2, <1>4, <2>1, <2>2 DEF IInv, UnreadCountExplained
  <2> QED  BY <1>5, <2>2, <2>3, <2>4 DEF IInv
<1> QED  BY <1>6, <1>7

\* The count of who has read becomes 0.
LEMMA ResetStep ==
    ASSUME IInv, NEW r \in Requests, ResetUnread(r) PROVE IInv'
<1>0. PICK u \in Participants : u = slot[r].user
  BY DEF IInv, TypeOK, Slot
<1>1. slot[r].op = "read" /\ ~Sending(r)
  BY DEF ResetUnread, Sending
<1>2. /\ unread' = [unread EXCEPT ![u] = 0]
      /\ miscounted' = IF Pending(u) \cap counted = {} THEN miscounted \ {u}
                                                       ELSE miscounted \cup {u}
      /\ UNCHANGED <<exists, sender, sent, last, failures, counted, seen, overtaken>>
      /\ Done(r)
  BY <1>0 DEF ResetUnread
<1>3. /\ slot' \in [Requests -> Slot] /\ SendInv'
      /\ \A v \in Participants \ {u} : Reading(v) => Reading(v)'
  BY <1>0, <1>1, <1>2, DoneStep DEF IInv
<1>4. TypeOK' /\ CountedInv' /\ LastMessageIsNewest'
  BY <1>0, <1>2, <1>3 DEF IInv, TypeOK, CountedInv, LastMessageIsNewest
<1>5. \A v \in Participants : Pending(v)' = Pending(v)
  BY <1>2 DEF Pending
<1>6. CASE Pending(u) \cap counted = {}
  <2>1. unread'[u] = Cardinality(Pending(u)' \cap counted')
    <3>1. Pending(u)' \cap counted' = {} /\ unread'[u] = 0
      BY <1>1, <1>2, <1>5, <1>6 DEF IInv, TypeOK
    <3> QED  BY <3>1, FS_EmptySet
  <2>2. \A v \in Participants \ {u} :
            unread'[v] = unread[v] /\ (v \in miscounted => v \in miscounted')
    BY <1>2, <1>6 DEF IInv, TypeOK
  <2>3. UnreadCountExplained'
    BY <1>2, <1>3, <1>5, <2>1, <2>2 DEF IInv, UnreadCountExplained
  <2> QED  BY <1>3, <1>4, <2>3 DEF IInv
<1>7. CASE Pending(u) \cap counted # {}
  <2>1. miscounted' = miscounted \cup {u}
    BY <1>2, <1>7
  <2>2. \A v \in Participants \ {u} : unread'[v] = unread[v]
    BY <1>2 DEF IInv, TypeOK
  <2>3. UnreadCountExplained'
    BY <1>2, <1>3, <1>5, <2>1, <2>2 DEF IInv, UnreadCountExplained
  <2> QED  BY <1>3, <1>4, <2>3 DEF IInv
<1> QED  BY <1>6, <1>7

\* A handler ends before its next statement.
LEMMA FailStep ==
    ASSUME IInv, NEW r \in Requests, Fail(r) PROVE IInv'
<1>1. slot[r] \in Slot /\ slot[r].user \in Participants
  BY DEF IInv, TypeOK, Slot
<1>2. UNCHANGED <<exists, sender, sent, last, unread, counted, seen, overtaken>> /\ Done(r)
  BY DEF Fail
<1>3. /\ slot' \in [Requests -> Slot] /\ SendInv'
      /\ \A v \in Participants :
             Reading(v) /\ ~(slot[r].op = "read" /\ slot[r].user = v) => Reading(v)'
  BY <1>2, DoneStep DEF IInv
<1>4. miscounted' = IF slot[r].op = "read" THEN miscounted \cup {slot[r].user} ELSE miscounted
  BY DEF Fail
<1>5. failures' \in 0..MaxFailures
  BY BoundsAssumption DEF IInv, TypeOK, Fail
<1>6. TypeOK' /\ CountedInv' /\ LastMessageIsNewest'
  BY <1>1, <1>2, <1>3, <1>4, <1>5 DEF IInv, TypeOK, CountedInv, LastMessageIsNewest
<1>7. \A v \in Participants : Pending(v)' = Pending(v)
  BY <1>2 DEF Pending
<1>8. UnreadCountExplained'
  BY <1>2, <1>3, <1>4, <1>7 DEF IInv, UnreadCountExplained
<1> QED  BY <1>3, <1>6, <1>8 DEF IInv

-----------------------------------------------------------------------------
\* Every step of the conversation.
LEMMA NextIInv == IInv /\ [Next]_vars => IInv'
<1> SUFFICES ASSUME IInv, [Next]_vars PROVE IInv'
  OBVIOUS
<1>1. ASSUME NEW r \in Requests, NEW u \in Participants,
             GetOrCreateConversation(r, u) \/ SendMessage(r, u) \/ MarkAsRead(r, u)
      PROVE  IInv'
  BY <1>1, CreateStep, SendStep, ReadStep
<1>2. ASSUME NEW r \in Requests,
             InsertConversation(r) \/ CountMessage(r) \/ ResetUnread(r) \/ Fail(r)
      PROVE  IInv'
  BY <1>2, InsertStep, CountStep, ResetStep, FailStep
<1>3. CASE UNCHANGED vars
  <2>1. \A v \in Participants : Pending(v)' = Pending(v) /\ (Reading(v)' <=> Reading(v))
    BY <1>3 DEF vars, Pending, Reading
  <2>2. TypeOK' /\ SendInv' /\ CountedInv' /\ LastMessageIsNewest'
    BY <1>3 DEF vars, IInv, TypeOK, SendInv, Sending, CountedInv, LastMessageIsNewest
  <2>3. UnreadCountExplained'
    BY <1>3, <2>1 DEF vars, IInv, UnreadCountExplained
  <2> QED  BY <2>2, <2>3 DEF IInv
<1> QED  BY <1>1, <1>2, <1>3 DEF Next

\* The inductive invariant holds of every behaviour.
THEOREM Invariance == Spec => []IInv
<1> QED  BY InitIInv, NextIInv, PTL DEF Spec

\* A participant's unread count is explained by the messages sent since they last read,
\* for any number of messages, of overlapping handlers and of failures.
THEOREM UnreadIsExplained == Spec => []UnreadCountExplained
<1>1. IInv => UnreadCountExplained
  BY DEF IInv
<1> QED  BY <1>1, Invariance, PTL

\* The last message is the newest that has been counted, unless updates came in another
\* order than the messages.
THEOREM LastIsNewest == Spec => []LastMessageIsNewest
<1>1. IInv => LastMessageIsNewest
  BY DEF IInv
<1> QED  BY <1>1, Invariance, PTL

-----------------------------------------------------------------------------
(* Content.                                                                *)

\* A handler that has loaded article b.
Works(r, b) ==
    job[r].at \in {"updating", "unlinked", "selected", "removing", "deleting"} /\ job[r].id = b

\* Article b has the picture, or a handler at work on it will write it or unlinks it.
Uses(b, pic) ==
    \/ article[b].picture = pic
    \/ \E r \in Editors : Works(r, b) /\ (job[r].entity.picture = pic \/ pic \in job[r].unlink)

\* No two articles use the same picture, and none one that was not uploaded.
OwnInv ==
    \A pic \in Pictures : \A b \in Articles :
        Uses(b, pic) => pic <= named /\ \A c \in Articles : Uses(c, pic) => c = b

\* The picture of an article that is being created is on disk and is nobody else's.
CreateInv ==
    \A r \in Editors :
        job[r].at = "creating" /\ job[r].entity.picture # NoPicture =>
            /\ job[r].entity.picture \in stored
            /\ \A b \in Articles : ~Uses(b, job[r].entity.picture)
            /\ \A q \in Editors : job[q].at = "creating" /\ job[q].entity.picture = job[r].entity.picture
                                      => q = r

\* Only who has loaded an article unlinks a picture.
IdleInv == \A r \in Editors : job[r].at \in {"idle", "creating"} => job[r].unlink = {}

\* What a handler will write whose row has not changed.
Keeps(r)  == job[r].entity.picture = article[job[r].id].picture /\ job[r].unlink = {}
Brings(r) == /\ job[r].entity.picture # article[job[r].id].picture
             /\ job[r].entity.picture \in stored
             /\ \A q \in Editors : job[r].entity.picture \notin job[q].unlink
NewInv ==
    \A r \in Editors : Saves(r, job[r].id) /\ job[r].fresh =>
        /\ Has(job[r].id) /\ ~job[r].insert
        /\ Keeps(r) \/ Brings(r)
        /\ job[r].at = "selected" =>
               ("picture" \in job[r].dirty <=> job[r].entity.picture # article[job[r].id].picture)

ContentInv == ContentTypeOK /\ OwnInv /\ CreateInv /\ IdleInv /\ NewInv /\ PicturesShown

-----------------------------------------------------------------------------
\* Before there is an article.
LEMMA InitContentInv == ContentInit => ContentInv
<1> SUFFICES ASSUME ContentInit PROVE ContentInv
  OBVIOUS
<1>1. 1 \in Articles /\ 0..MaxMishaps # {} /\ 0 \in 0..MaxMishaps /\ 0 \in 0..MaxPictures
  BY ContentAssumption DEF Articles
<1>2. NoJob \in Job
  BY <1>1 DEF NoJob, Begun, Job, Empty, Shape, NoPicture, Columns
<1>3. ContentTypeOK
  BY <1>1, <1>2 DEF ContentInit, ContentTypeOK, Row, NoPicture
<1>4. \A b \in Articles, pic \in Pictures : ~Uses(b, pic)
  BY DEF ContentInit, Uses, Works, NoJob, Begun, Pictures, NoPicture
<1>5. OwnInv /\ CreateInv /\ IdleInv /\ NewInv
  BY <1>4 DEF OwnInv, CreateInv, IdleInv, NewInv, ContentInit, NoJob, Begun, Saves
<1>6. PicturesShown
  BY DEF PicturesShown, ContentInit, Has
<1> QED  BY <1>3, <1>5, <1>6 DEF ContentInv

-----------------------------------------------------------------------------
(* Facts about one state.                                                  *)

\* What the types of articles and handlers say of their fields.
LEMMA Types ==
    ASSUME ContentTypeOK
    PROVE  /\ Pictures \subseteq Nat /\ NoPicture \notin Pictures /\ named \in Nat /\ MaxPictures \in Nat
           /\ \A a \in Articles : article[a] \in Row /\ article[a].picture \in Pictures \cup {NoPicture}
           /\ \A r \in Editors : /\ job[r] \in Job /\ job[r].id \in Articles /\ job[r].unlink \subseteq Pictures
                                 /\ job[r].entity \in Shape
                                 /\ job[r].entity.picture \in Pictures \cup {NoPicture}
           /\ \A pic \in stored : pic \in Pictures /\ pic <= named
<1>1. MaxPictures \in Nat /\ named \in Nat /\ named <= MaxPictures
  BY ContentAssumption DEF ContentTypeOK
<1>2. \A a \in Articles : article[a] \in Row /\ article[a].picture \in Pictures \cup {NoPicture}
  BY DEF ContentTypeOK, Row
<1>3. \A r \in Editors : /\ job[r] \in Job /\ job[r].id \in Articles /\ job[r].unlink \subseteq Pictures
                         /\ job[r].entity \in Shape
                         /\ job[r].entity.picture \in Pictures \cup {NoPicture}
  BY DEF ContentTypeOK, Job, Shape
<1>4. \A pic \in stored : pic \in Pictures /\ pic <= named
  BY <1>1 DEF ContentTypeOK, Pictures
<1>5. Pictures \subseteq Nat /\ NoPicture \notin Pictures
  BY DEF Pictures, NoPicture
<1> QED  BY <1>1, <1>2, <1>3, <1>4, <1>5

\* Who unlinks a picture uses it for the article it has loaded.
LEMMA Unlinkers ==
    ASSUME ContentInv, NEW r \in Editors, NEW pic \in job[r].unlink
    PROVE  pic \in Pictures /\ Works(r, job[r].id) /\ Uses(job[r].id, pic)
<1>1. job[r] \in Job /\ pic \in Pictures
  BY Types DEF ContentInv
<1>2. job[r].at \notin {"idle", "creating"}
  BY DEF ContentInv, IdleInv
<1> QED  BY <1>1, <1>2 DEF Works, Uses, Job

\* Hence an article explains nothing of another one.
LEMMA OneOwner ==
    ASSUME ContentInv, NEW b \in Articles, NEW c \in Articles, NEW pic \in Pictures, Uses(b, pic), Uses(c, pic)
    PROVE  b = c /\ pic <= named
  BY DEF ContentInv, OwnInv

\* A picture is still nobody else's when nobody has come to use it.
LEMMA OwnStays ==
    ASSUME ContentInv, named' = named, \A b \in Articles, pic \in Pictures : Uses(b, pic)' => Uses(b, pic)
    PROVE  OwnInv'
  BY DEF ContentInv, OwnInv, Pictures, Articles

\* A handler that is done uses nothing.
LEMMA DoneUsesLess ==
    ASSUME ContentInv, NEW r \in Editors, article' = article, job' = [job EXCEPT ![r] = NoJob]
    PROVE  \A b \in Articles, pic \in Pictures : Uses(b, pic)' => Uses(b, pic)
<1> SUFFICES ASSUME NEW b \in Articles, NEW pic \in Pictures, Uses(b, pic)' PROVE Uses(b, pic)
  OBVIOUS
<1>1. job' = [q \in Editors |-> IF q = r THEN NoJob ELSE job[q]]
  BY DEF ContentInv, ContentTypeOK
<1>2. ~Works(r, b)'
  BY <1>1 DEF Works, NoJob, Begun
<1> QED  BY <1>1, <1>2 DEF Uses, Works

-----------------------------------------------------------------------------
(* The steps.                                                              *)

\* An idle handler.
LEMMA NoJobIsJob == NoJob \in Job /\ NoJob.unlink = {} /\ NoJob.at = "idle"
<1>1. 1 \in Articles
  BY ContentAssumption DEF Articles
<1> QED  BY <1>1 DEF NoJob, Begun, Job, Empty, Shape, NoPicture, Columns

\* An error: what was unlinked is on record as missing.
LEMMA ThrowKeeps ==
    ASSUME ContentInv, NEW r \in Editors, Throw(r), mishaps' \in 0..MaxMishaps
    PROVE  ContentInv'
<1>1. /\ job' = [q \in Editors |-> IF q = r THEN NoJob ELSE job[q]]
      /\ missing' = missing \cup (job[r].unlink \ stored)
      /\ kind' = kind /\ article' = article /\ stored' = stored /\ named' = named
  BY DEF Throw, ContentInv, ContentTypeOK
<1>2. \A b \in Articles, pic \in Pictures : Uses(b, pic)' => Uses(b, pic)
  BY <1>1, DoneUsesLess DEF Throw
<1>3. OwnInv'
  BY <1>1, <1>2, OwnStays
<1>4. ContentTypeOK'
  <2>1. \A pic \in job[r].unlink : pic \in 1..named
    BY Unlinkers, OneOwner, Types DEF ContentInv, Pictures
  <2> QED  BY <1>1, <2>1, NoJobIsJob DEF ContentInv, ContentTypeOK
<1>5. CreateInv'
  <2> SUFFICES ASSUME NEW q \in Editors, job'[q].at = "creating", job'[q].entity.picture # NoPicture
               PROVE  /\ job'[q].entity.picture \in stored'
                      /\ \A b \in Articles : ~Uses(b, job[q].entity.picture)'
                      /\ \A p \in Editors : job'[p].at = "creating" /\ job'[p].entity.picture = job'[q].entity.picture
                                                => p = q
    BY <1>1, NoJobIsJob DEF CreateInv
  <2>1. q # r /\ job'[q] = job[q] /\ job[q].entity.picture \in Pictures
    BY <1>1, NoJobIsJob, Types DEF ContentInv
  <2> QED  BY <1>1, <1>2, <2>1, NoJobIsJob DEF ContentInv, CreateInv
<1>6. IdleInv'
  BY <1>1, NoJobIsJob DEF ContentInv, IdleInv
<1>7. NewInv'
  <2> SUFFICES ASSUME NEW q \in Editors, Saves(q, job[q].id)', job'[q].fresh
               PROVE  /\ Has(job[q].id)' /\ ~job'[q].insert
                      /\ Keeps(q)' \/ Brings(q)'
                      /\ job'[q].at = "selected" =>
                             ("picture" \in job'[q].dirty <=> job'[q].entity.picture # article'[job'[q].id].picture)
    BY DEF NewInv
  <2>1. q # r /\ job'[q] = job[q]
    BY <1>1, NoJobIsJob DEF Saves
  <2>2. Saves(q, job[q].id) /\ job[q].fresh
    BY <2>1 DEF Saves
  <2>3. Brings(q) => Brings(q)'
    BY <1>1, <2>1, NoJobIsJob DEF Brings
  <2> QED  BY <1>1, <2>1, <2>2, <2>3 DEF ContentInv, NewInv, Keeps, Has
<1>8. PicturesShown'
  <2> SUFFICES ASSUME NEW a \in Articles, Has(a), NEW pic \in File(article[a].picture), pic \notin stored, pic \notin missing'
               PROVE  \E q \in Editors : pic \in job'[q].unlink
    BY <1>1 DEF PicturesShown, Has, File
  <2>1. PICK q \in Editors : pic \in job[q].unlink
    BY <1>1 DEF ContentInv, PicturesShown
  <2>2. q # r
    BY <1>1, <2>1
  <2> QED  BY <1>1, <2>1, <2>2
<1> QED  BY <1>3, <1>4, <1>5, <1>6, <1>7, <1>8 DEF ContentInv

\* A row is written, by a handler that had it to write or creates it, and its picture is
\* accounted for without that handler.
LEMMA WriteKeeps ==
    ASSUME ContentInv, NEW r \in Editors, NEW a \in Articles, NEW s \in Row, WriteRow(r, a, s),
           kind' = kind, stored' = stored, named' = named, mishaps' = mishaps,
           missing \subseteq missing', missing' \subseteq 1..named,
           \/ s.picture = NoPicture \/ Uses(a, s.picture)
           \/ job[r].at = "creating" /\ s.picture = job[r].entity.picture,
           job[r].unlink = {} \/ job[r].id = a,
           s.state = "here" => \A pic \in File(s.picture) \ (stored \cup missing') :
                                   \E q \in Editors \ {r} : pic \in job[q].unlink
    PROVE  ContentInv'
<1>1. /\ article' = [b \in Articles |-> IF b = a THEN s ELSE article[b]]
      /\ DOMAIN job' = Editors /\ job'[r] = NoJob
      /\ \A q \in Editors \ {r} : job'[q] = IF Saves(q, a) THEN [job[q] EXCEPT !.fresh = @ /\ article[a] = s]
                                                          ELSE job[q]
  BY DEF WriteRow, ContentInv, ContentTypeOK
<1>2. \A q \in Editors \ {r} :
         /\ job'[q].at = job[q].at /\ job'[q].id = job[q].id /\ job'[q].entity = job[q].entity
         /\ job'[q].unlink = job[q].unlink /\ job'[q].insert = job[q].insert /\ job'[q].dirty = job[q].dirty
         /\ job'[q].fresh => job[q].fresh /\ (Saves(q, a) => article[a] = s)
         /\ job'[q] \in Job
  <2> SUFFICES ASSUME NEW q \in Editors \ {r}
               PROVE  /\ job'[q].at = job[q].at /\ job'[q].id = job[q].id /\ job'[q].entity = job[q].entity
                      /\ job'[q].unlink = job[q].unlink /\ job'[q].insert = job[q].insert /\ job'[q].dirty = job[q].dirty
                      /\ job'[q].fresh => job[q].fresh /\ (Saves(q, a) => article[a] = s)
                      /\ job'[q] \in Job
    OBVIOUS
  <2>1. job[q] \in Job
    BY Types DEF ContentInv
  <2>2. CASE Saves(q, a)
    <3> DEFINE same == article[a] = s
    <3>1. same \in BOOLEAN
      OBVIOUS
    <3>2. job'[q] = [job[q] EXCEPT !.fresh = @ /\ same]
      BY <1>1, <2>2
    <3> HIDE DEF same
    <3>3. /\ job'[q].at = job[q].at /\ job'[q].id = job[q].id /\ job'[q].entity = job[q].entity
          /\ job'[q].unlink = job[q].unlink /\ job'[q].insert = job[q].insert /\ job'[q].dirty = job[q].dirty
          /\ job'[q].fresh = (job[q].fresh /\ same)
          /\ job'[q] \in Job
      BY <2>1, <3>1, <3>2 DEF Job
    <3> QED  BY <3>3 DEF same
  <2>3. CASE ~Saves(q, a)
    BY <1>1, <2>1, <2>3
  <2> QED  BY <2>2, <2>3
<1> DEFINE born(pic) == job[r].at = "creating" /\ pic = job[r].entity.picture
<1>3. \A b \in Articles, pic \in Pictures : Uses(b, pic)' => Uses(b, pic) \/ (b = a /\ born(pic))
  <2> SUFFICES ASSUME NEW b \in Articles, NEW pic \in Pictures, Uses(b, pic)'
               PROVE  Uses(b, pic) \/ (b = a /\ born(pic))
    OBVIOUS
  <2>1. CASE article'[b].picture = pic
    <3>1. CASE b = a
      BY <1>1, <2>1, <3>1, Types DEF ContentInv
    <3>2. CASE b # a
      BY <1>1, <2>1, <3>2 DEF Uses
    <3> QED  BY <3>1, <3>2
  <2>2. CASE article'[b].picture # pic
    <3>1. PICK q \in Editors : Works(q, b)' /\ (job'[q].entity.picture = pic \/ pic \in job'[q].unlink)
      BY <2>2 DEF Uses
    <3>2. q # r
      BY <1>1, <3>1 DEF Works, NoJob, Begun
    <3> QED  BY <1>2, <3>1, <3>2 DEF Uses, Works
  <2> QED  BY <2>1, <2>2
<1>4. \A pic \in Pictures : born(pic) => pic <= named /\ \A b \in Articles : ~Uses(b, pic)
  BY Types DEF ContentInv, CreateInv
<1> HIDE DEF born
<1>5. OwnInv'
  <2> SUFFICES ASSUME NEW pic \in Pictures, NEW b \in Articles, NEW c \in Articles, Uses(b, pic)', Uses(c, pic)'
               PROVE  pic <= named /\ c = b
    <3>1. \A pic \in Pictures : \A b \in Articles :
              Uses(b, pic)' => pic <= named' /\ \A c \in Articles : Uses(c, pic)' => c = b
      OBVIOUS
    <3> QED  BY <3>1 DEF OwnInv, Pictures, Articles
  <2> QED  BY <1>3, <1>4, OneOwner
<1>6. ContentTypeOK'
  <2>1. job' \in [Editors -> Job]
    <3>1. \A q \in Editors : job'[q] \in Job
      BY <1>1, <1>2, NoJobIsJob
    <3>2. job' = [q \in Editors |-> job'[q]]
      BY DEF WriteRow
    <3> QED  BY <3>1, <3>2
  <2> QED  BY <1>1, <2>1 DEF ContentInv, ContentTypeOK
<1>7. CreateInv'
  <2> SUFFICES ASSUME NEW q \in Editors, job'[q].at = "creating", job'[q].entity.picture # NoPicture
               PROVE  /\ job'[q].entity.picture \in stored'
                      /\ \A b \in Articles : ~Uses(b, job[q].entity.picture)'
                      /\ \A p \in Editors : job'[p].at = "creating" /\ job'[p].entity.picture = job'[q].entity.picture
                                                => p = q
    BY <1>2, <1>1, NoJobIsJob DEF CreateInv
  <2>1. q # r /\ job'[q].entity = job[q].entity /\ job[q].at = "creating"
    BY <1>1, <1>2, NoJobIsJob
  <2>2. job[q].entity.picture \in Pictures
    BY <2>1, Types DEF ContentInv
  <2>3. /\ job[q].entity.picture \in stored
        /\ \A b \in Articles : ~Uses(b, job[q].entity.picture)
        /\ ~born(job[q].entity.picture)
        /\ \A p \in Editors : job[p].at = "creating" /\ job[p].entity.picture = job[q].entity.picture => p = q
    BY <2>1 DEF ContentInv, CreateInv, born
  <2>4. \A b \in Articles : ~Uses(b, job[q].entity.picture)'
    <3> DEFINE pic == job[q].entity.picture
    <3>1. \A b \in Articles : ~Uses(b, pic) /\ ~born(pic) /\ pic \in Pictures
      BY <2>2, <2>3
    <3>2. pic' = pic
      BY <2>1
    <3> HIDE DEF pic
    <3>3. \A b \in Articles : ~Uses(b, pic)'
      BY <1>3, <3>1, <3>2 DEF Uses
    <3> QED  BY <3>3 DEF pic
  <2> QED  BY <1>1, <1>2, <2>1, <2>3, <2>4, NoJobIsJob
<1>8. IdleInv'
  BY <1>1, <1>2, NoJobIsJob DEF ContentInv, IdleInv
<1>9. NewInv'
  <2> SUFFICES ASSUME NEW q \in Editors, Saves(q, job[q].id)', job'[q].fresh
               PROVE  /\ Has(job[q].id)' /\ ~job'[q].insert
                      /\ Keeps(q)' \/ Brings(q)'
                      /\ job'[q].at = "selected" =>
                             ("picture" \in job'[q].dirty <=> job'[q].entity.picture # article'[job'[q].id].picture)
    BY DEF NewInv
  <2>1. q # r
    BY <1>1, NoJobIsJob DEF Saves
  <2>2. Saves(q, job[q].id) /\ job[q].fresh /\ (job[q].id = a => article[a] = s) /\ job[q].id \in Articles
    BY <1>2, <2>1, Types DEF Saves, ContentInv
  <2>3. article'[job'[q].id] = article[job[q].id]
    BY <1>1, <1>2, <2>1, <2>2
  <2>4. Brings(q) => Brings(q)'
    BY <1>1, <1>2, <2>1, <2>3, NoJobIsJob DEF Brings
  <2>5. Keeps(q) => Keeps(q)'
    BY <1>2, <2>1, <2>3 DEF Keeps
  <2> QED  BY <1>2, <2>1, <2>2, <2>3, <2>4, <2>5 DEF ContentInv, NewInv, Has
<1>10. PicturesShown'
  <2> SUFFICES ASSUME NEW b \in Articles, Has(b)', NEW pic \in File(article'[b].picture),
                      pic \notin stored, pic \notin missing'
               PROVE  \E q \in Editors : pic \in job'[q].unlink
    BY DEF PicturesShown, File
  <2>1. CASE b = a
    <3>1. s.state = "here" /\ pic \in File(s.picture)
      BY <1>1, <2>1 DEF Has
    <3>2. PICK q \in Editors \ {r} : pic \in job[q].unlink
      BY <3>1
    <3> QED  BY <1>2, <3>2
  <2>2. CASE b # a
    <3>1. Has(b) /\ pic \in File(article[b].picture)
      BY <1>1, <2>2 DEF Has
    <3>2. PICK q \in Editors : pic \in job[q].unlink
      BY <3>1 DEF ContentInv, PicturesShown
    <3>3. pic \in Pictures /\ Uses(b, pic) /\ Uses(job[q].id, pic) /\ job[q].id \in Articles
      BY <3>1, <3>2, Unlinkers, Types DEF File, Uses, ContentInv
    <3>4. job[q].id = b
      BY <3>3, OneOwner
    <3>5. q # r
      BY <2>2, <3>2, <3>4
    <3> QED  BY <1>2, <3>2, <3>5
  <2> QED  BY <2>1, <2>2
<1> QED  BY <1>5, <1>6, <1>7, <1>8, <1>9, <1>10 DEF ContentInv

\* save() inserts a row.
LEMMA InsertKeeps ==
    ASSUME ContentInv, NEW r \in Editors, NEW a \in Articles, InsertArticle(r, a) PROVE ContentInv'
<1> DEFINE e == job[r].entity
           s == [state |-> "here", slug |-> e.slug, picture |-> e.picture]
<1>1. CASE Throw(r)
  BY <1>1, ThrowKeeps DEF InsertArticle, ContentInv, ContentTypeOK
<1>2. CASE WriteRow(r, a, s) /\ UNCHANGED <<kind, stored, named, missing, mishaps>>
  <2>1. job[r].at = "creating" /\ job[r].unlink = {} /\ e \in Shape
    BY Types DEF InsertArticle, ContentInv, IdleInv
  <2>2. s \in Row
    BY <2>1 DEF Shape, Row
  <2>3. \A pic \in File(s.picture) : pic \in stored
    BY <2>1 DEF ContentInv, CreateInv, File
  <2>4. missing \subseteq 1..named
    BY DEF ContentInv, ContentTypeOK
  <2>5. s.picture = job[r].entity.picture
    OBVIOUS
  <2> HIDE DEF s, e
  <2> QED  BY <1>2, <2>1, <2>2, <2>3, <2>4, <2>5, WriteKeeps
<1> QED  BY <1>1, <1>2 DEF InsertArticle

\* remove() deletes one.
LEMMA DeleteKeeps ==
    ASSUME ContentInv, NEW r \in Editors, DeleteArticle(r) PROVE ContentInv'
<1> DEFINE a == job[r].id
           s == [article[a] EXCEPT !.state = "gone"]
<1>1. a \in Articles /\ article[a] \in Row
  BY Types DEF ContentInv
<1>2. s \in Row /\ s.picture = article[a].picture /\ s.state # "here"
  BY <1>1 DEF Row
<1>3. WriteRow(r, a, s) /\ UNCHANGED <<kind, stored, named, mishaps, missing>>
  BY DEF DeleteArticle
<1>4. Uses(a, s.picture) /\ missing \subseteq 1..named
  BY <1>2 DEF Uses, ContentInv, ContentTypeOK
<1> QED  BY <1>1, <1>2, <1>3, <1>4, WriteKeeps

\* What a save leaves as the picture of the row, and who accounts for it.
LEMMA CommitKeeps ==
    ASSUME ContentInv, NEW r \in Editors, CommitArticle(r) PROVE ContentInv'
<1> DEFINE j == job[r]
           a == job[r].id
           s == Saved(job[r])
<1>1. CASE Throw(r)
  BY <1>1, ThrowKeeps DEF CommitArticle, ContentInv, ContentTypeOK
<1>2. CASE /\ WriteRow(r, a, s) /\ UNCHANGED <<kind, stored, named, mishaps>>
           /\ missing' = IF j.fresh THEN missing ELSE missing \cup (File(s.picture) \ stored)
  <2>1. /\ j.at = "selected" /\ j \in Job /\ a \in Articles /\ article[a] \in Row /\ j.entity \in Shape
        /\ Works(r, a) /\ Saves(r, a)
    BY Types DEF CommitArticle, ContentInv, Works, Saves
  <2>2. s \in Row
    BY <2>1 DEF Saved, Row, Shape
  <2>3. s.picture = j.entity.picture \/ s.picture = article[a].picture
    BY <2>1 DEF Saved, Row, Shape
  <2>4. Uses(a, s.picture)
    BY <2>1, <2>3 DEF Uses
  <2>5. s.picture \in Pictures \cup {NoPicture}
    BY <2>2 DEF Row
  <2>6. missing \subseteq missing' /\ missing' \subseteq 1..named
    <3>1. \A pic \in File(s.picture) : pic \in 1..named
      BY <2>1, <2>4, <2>5, OneOwner DEF File, Pictures
    <3> QED  BY <1>2, <3>1 DEF ContentInv, ContentTypeOK
  <2>7. ASSUME NEW pic \in File(s.picture), pic \notin stored, pic \notin missing', s.state = "here"
        PROVE  \E q \in Editors \ {r} : pic \in job[q].unlink
    <3>1. j.fresh
      BY <1>2, <2>7
    <3>2. /\ Has(a) /\ ~j.insert /\ (Keeps(r) \/ Brings(r))
          /\ ("picture" \in j.dirty <=> j.entity.picture # article[a].picture)
      BY <2>1, <3>1 DEF ContentInv, NewInv
    <3>3. s.picture = j.entity.picture
      BY <2>1, <3>2 DEF Saved
    <3>4. CASE Brings(r)
      BY <2>7, <3>3, <3>4 DEF Brings, File
    <3>5. CASE Keeps(r)
      <4>1. pic \in File(article[a].picture) /\ job[r].unlink = {}
        BY <2>7, <3>3, <3>5 DEF Keeps
      <4>2. PICK q \in Editors : pic \in job[q].unlink
        BY <1>2, <2>1, <2>6, <2>7, <3>2, <4>1 DEF ContentInv, PicturesShown
      <4> QED  BY <4>1, <4>2
    <3> QED  BY <3>2, <3>4, <3>5
  <2> HIDE DEF s, a
  <2> QED  BY <1>2, <2>1, <2>2, <2>4, <2>6, <2>7, WriteKeeps DEF a
<1> QED  BY <1>1, <1>2 DEF CommitArticle

\* A picture that comes with a request.
LEMMA UploadsAreNew ==
    ASSUME ContentInv, NEW pic \in Pictures \cup {NoPicture}, UploadPicture(pic)
    PROVE  /\ named' \in 0..MaxPictures /\ named <= named' /\ stored \subseteq stored' /\ stored' \subseteq 1..named'
           /\ missing \subseteq 1..named'
           /\ pic # NoPicture => /\ pic \in stored' /\ pic = named' /\ pic > named
                                /\ \A b \in Articles : ~Uses(b, pic)
<1>1. /\ named \in Nat /\ MaxPictures \in Nat /\ named \in 0..MaxPictures
      /\ stored \subseteq 1..named /\ missing \subseteq 1..named
  BY Types DEF ContentInv, ContentTypeOK
<1>2. CASE pic = NoPicture
  <2>1. named' = named /\ stored' = stored
    BY <1>2 DEF UploadPicture, File
  <2> QED  BY <1>1, <1>2, <2>1
<1>3. CASE pic # NoPicture
  <2>1. pic = named + 1 /\ pic \in 1..MaxPictures /\ named' = pic /\ stored' = stored \cup {pic}
    BY <1>3 DEF UploadPicture, File, Pictures
  <2>2. \A b \in Articles : Uses(b, pic) => pic <= named
    BY <1>3, <2>1, OneOwner DEF Pictures
  <2> QED  BY <1>1, <2>1, <2>2
<1> QED  BY <1>2, <1>3

\* A handler begins to create an article, and uploads its picture.
LEMMA CreateKeeps ==
    ASSUME ContentInv, NEW r \in Editors, NEW slug \in Called, NEW pic \in Pictures \cup {NoPicture},
           CreateArticle(r, slug, pic)
    PROVE  ContentInv'
<1> DEFINE j == Begun("creating", 1, [slug |-> slug, picture |-> pic], FALSE, {})
<1>1. /\ job[r].at = "idle" /\ job' = [q \in Editors |-> IF q = r THEN j ELSE job[q]]
      /\ kind' = kind /\ article' = article /\ mishaps' = mishaps /\ missing' = missing
  BY DEF CreateArticle, ContentInv, ContentTypeOK
<1>2. j \in Job /\ j.at = "creating" /\ j.entity.picture = pic /\ j.unlink = {}
  <2>1. [slug |-> slug, picture |-> pic] \in Shape
    BY DEF Called, Shape
  <2>2. 1 \in Articles
    BY ContentAssumption DEF Articles
  <2> QED  BY <2>1, <2>2 DEF Job, Begun
<1> HIDE DEF j
<1>3. /\ named' \in 0..MaxPictures /\ named <= named' /\ stored \subseteq stored' /\ stored' \subseteq 1..named'
      /\ missing \subseteq 1..named'
      /\ pic # NoPicture => /\ pic \in stored' /\ pic = named' /\ pic > named
                           /\ \A b \in Articles : ~Uses(b, pic)
  BY UploadsAreNew DEF CreateArticle
<1>4. \A b \in Articles, x \in Pictures : Uses(b, x)' <=> Uses(b, x)
  BY <1>1, <1>2 DEF Uses, Works
<1>5. ContentTypeOK'
  BY <1>1, <1>2, <1>3 DEF ContentInv, ContentTypeOK
<1>6. OwnInv'
  <2>1. \A b \in Articles, x \in Pictures : Uses(b, x) => x <= named'
    BY <1>3, OneOwner, Types DEF ContentInv, ContentTypeOK
  <2>2. \A b \in Articles, c \in Articles, x \in Pictures : Uses(b, x)' /\ Uses(c, x)' => x <= named' /\ c = b
    BY <1>4, <2>1, OneOwner
  <2> QED  BY <2>2 DEF OwnInv, Pictures, Articles
<1>7. CreateInv'
  <2> SUFFICES ASSUME NEW q \in Editors, job'[q].at = "creating", job'[q].entity.picture # NoPicture
               PROVE  /\ job'[q].entity.picture \in stored'
                      /\ \A b \in Articles : ~Uses(b, job[q].entity.picture)'
                      /\ \A p \in Editors : job'[p].at = "creating" /\ job'[p].entity.picture = job'[q].entity.picture
                                                => p = q
    BY DEF CreateInv
  <2> DEFINE x == job'[q].entity.picture
  <2>1. \A p \in Editors \ {r} : job'[p] = job[p] /\
            (job[p].at = "creating" /\ job[p].entity.picture # NoPicture
                => job[p].entity.picture \in stored /\ job[p].entity.picture <= named)
    BY <1>1, Types DEF ContentInv, CreateInv
  <2>2. x \in Pictures
    BY <1>1, <1>2, Types DEF ContentInv
  <2>3. x \in stored'
    BY <1>1, <1>2, <1>3, <2>1
  <2>4. \A b \in Articles : ~Uses(b, x)
    BY <1>1, <1>2, <1>3 DEF ContentInv, CreateInv
  <2>5. ASSUME NEW p \in Editors, job'[p].at = "creating", job'[p].entity.picture = x PROVE p = q
    <3>1. CASE p # r /\ q # r
      BY <1>1, <2>5, <3>1 DEF ContentInv, CreateInv
    <3>2. CASE p = r /\ q # r
      <4>1. x <= named /\ x = pic /\ pic # NoPicture
        BY <1>1, <1>2, <2>1, <2>5, <3>2
      <4> QED  BY <1>3, <4>1, <2>2, Types DEF ContentInv
    <3>3. CASE p # r /\ q = r
      <4>1. x <= named /\ x = pic /\ pic # NoPicture
        BY <1>1, <1>2, <2>1, <2>5, <3>3
      <4> QED  BY <1>3, <4>1, <2>2, Types DEF ContentInv
    <3> QED  BY <3>1, <3>2, <3>3
  <2>6. \A b \in Articles : ~Uses(b, job[q].entity.picture)'
    <3>1. \A b \in Articles : Uses(b, job[q].entity.picture)' <=>
              \/ article[b].picture = x
              \/ \E p \in Editors : Works(p, b)' /\ (job'[p].entity.picture = x \/ x \in job'[p].unlink)
      BY <1>1 DEF Uses
    <3>2. \A p \in Editors, b \in Articles : Works(p, b)' => p # r /\ job'[p] = job[p] /\ Works(p, b)
      BY <1>1, <1>2 DEF Works
    <3> HIDE DEF x
    <3>3. \A b \in Articles : Uses(b, job[q].entity.picture)' => Uses(b, x)
      BY <3>1, <3>2 DEF Uses
    <3> QED  BY <2>4, <3>3
  <2> QED  BY <2>3, <2>5, <2>6
<1>8. IdleInv'
  BY <1>1, <1>2 DEF ContentInv, IdleInv
<1>9. \A q \in Editors : job'[q].unlink = job[q].unlink
  BY <1>1, <1>2 DEF ContentInv, IdleInv
<1>10. NewInv'
  <2> SUFFICES ASSUME NEW q \in Editors, Saves(q, job[q].id)', job'[q].fresh
               PROVE  /\ Has(job[q].id)' /\ ~job'[q].insert
                      /\ Keeps(q)' \/ Brings(q)'
                      /\ job'[q].at = "selected" =>
                             ("picture" \in job'[q].dirty <=> job'[q].entity.picture # article'[job'[q].id].picture)
    BY DEF NewInv
  <2>1. q # r /\ job'[q] = job[q] /\ Saves(q, job[q].id)
    BY <1>1, <1>2 DEF Saves
  <2>2. Brings(q) => Brings(q)'
    BY <1>1, <1>3, <1>9, <2>1 DEF Brings
  <2> QED  BY <1>1, <2>1, <2>2 DEF ContentInv, NewInv, Keeps, Has
<1>11. PicturesShown'
  <2> SUFFICES ASSUME NEW b \in Articles, Has(b), NEW x \in File(article[b].picture), x \notin stored', x \notin missing
               PROVE  \E q \in Editors : x \in job'[q].unlink
    BY <1>1 DEF PicturesShown, File, Has
  <2> QED  BY <1>3, <1>9 DEF ContentInv, PicturesShown
<1> QED  BY <1>5, <1>6, <1>7, <1>8, <1>10, <1>11 DEF ContentInv

\* A handler loads article a: it will write the picture of the row, or a new one and unlink
\* that of the row.
LEMMA LoadKeeps ==
    ASSUME ContentInv, NEW r \in Editors, NEW a \in Articles, NEW j \in Job, NEW pic \in Pictures \cup {NoPicture},
           job[r].at = "idle", Has(a), j.id = a, j.at \in {"updating", "removing"}, ~j.insert,
           j.unlink \subseteq File(article[a].picture),
           \/ j.at = "removing" /\ j.entity.picture = NoPicture
           \/ pic = NoPicture /\ j.entity.picture = article[a].picture /\ j.unlink = {}
           \/ pic # NoPicture /\ j.entity.picture = pic,
           job' = [job EXCEPT ![r] = j],
           UNCHANGED <<kind, article, mishaps, missing>>,
           UploadPicture(pic) \/ (pic = NoPicture /\ UNCHANGED <<stored, named>>)
    PROVE  ContentInv'
<1>1. job' = [q \in Editors |-> IF q = r THEN j ELSE job[q]]
  BY DEF ContentInv, ContentTypeOK
<1>2. /\ named' \in 0..MaxPictures /\ named <= named' /\ stored \subseteq stored' /\ stored' \subseteq 1..named'
      /\ missing \subseteq 1..named'
      /\ pic # NoPicture => /\ pic \in stored' /\ pic = named' /\ pic > named
                           /\ \A b \in Articles : ~Uses(b, pic)
  <2>1. CASE UploadPicture(pic)
    BY <2>1, UploadsAreNew
  <2>2. CASE pic = NoPicture /\ UNCHANGED <<stored, named>>
    <3>1. named \in Nat
      BY Types DEF ContentInv
    <3> QED  BY <2>2, <3>1 DEF ContentInv, ContentTypeOK
  <2> QED  BY <2>1, <2>2
<1>3. \A x \in j.unlink : x \in Pictures /\ x = article[a].picture
  BY Types DEF ContentInv, File
<1>4. \A b \in Articles, x \in Pictures : Uses(b, x)' => Uses(b, x) \/ (b = a /\ x = pic)
  <2> SUFFICES ASSUME NEW b \in Articles, NEW x \in Pictures, Uses(b, x)', ~Uses(b, x)
               PROVE  b = a /\ x = pic
    OBVIOUS
  <2>1. PICK q \in Editors : Works(q, b)' /\ (job'[q].entity.picture = x \/ x \in job'[q].unlink)
    BY DEF Uses
  <2>2. q = r
    BY <1>1, <2>1 DEF Uses, Works
  <2>3. b = a /\ (j.entity.picture = x \/ x \in j.unlink)
    BY <1>1, <2>1, <2>2 DEF Works
  <2>4. x # article[a].picture /\ x # NoPicture
    BY <2>3, Types DEF Uses, ContentInv
  <2> QED  BY <1>3, <2>3, <2>4
<1>5. OwnInv'
  <2>1. \A b \in Articles, x \in Pictures : Uses(b, x) => x <= named'
    BY <1>2, OneOwner, Types DEF ContentInv, ContentTypeOK
  <2>2. pic \in Pictures => pic <= named' /\ \A b \in Articles : ~Uses(b, pic)
    BY <1>2, Types DEF ContentInv
  <2>3. \A b \in Articles, c \in Articles, x \in Pictures : Uses(b, x)' /\ Uses(c, x)' => x <= named' /\ c = b
    BY <1>4, <2>1, <2>2, OneOwner
  <2> QED  BY <2>3 DEF OwnInv, Pictures, Articles
<1>6. ContentTypeOK'
  BY <1>1, <1>2 DEF ContentInv, ContentTypeOK
<1>7. CreateInv'
  <2> SUFFICES ASSUME NEW q \in Editors, job'[q].at = "creating", job'[q].entity.picture # NoPicture
               PROVE  /\ job'[q].entity.picture \in stored'
                      /\ \A b \in Articles : ~Uses(b, job[q].entity.picture)'
                      /\ \A p \in Editors : job'[p].at = "creating" /\ job'[p].entity.picture = job'[q].entity.picture
                                                => p = q
    BY DEF CreateInv
  <2> DEFINE x == job[q].entity.picture
  <2>1. q # r /\ job'[q] = job[q]
    BY <1>1
  <2>2. /\ x \in Pictures /\ x \in stored /\ x <= named /\ \A b \in Articles : ~Uses(b, x)
        /\ \A p \in Editors : job[p].at = "creating" /\ job[p].entity.picture = x => p = q
    BY <2>1, Types DEF ContentInv, CreateInv
  <2>3. x # pic
    BY <1>2, <2>2, Types DEF ContentInv
  <2>4. x' = x
    BY <2>1
  <2>5. \A p \in Editors : job'[p].at = "creating" /\ job'[p].entity.picture = job'[q].entity.picture => p = q
    BY <1>1, <2>1, <2>2
  <2> HIDE DEF x
  <2>6. \A b \in Articles : ~Uses(b, x)'
    BY <1>4, <2>2, <2>3, <2>4 DEF Uses
  <2> QED  BY <1>2, <2>1, <2>2, <2>5, <2>6 DEF x
<1>8. IdleInv'
  BY <1>1 DEF ContentInv, IdleInv
<1>9. NewInv'
  <2> SUFFICES ASSUME NEW q \in Editors, Saves(q, job[q].id)', job'[q].fresh
               PROVE  /\ Has(job[q].id)' /\ ~job'[q].insert
                      /\ Keeps(q)' \/ Brings(q)'
                      /\ job'[q].at = "selected" =>
                             ("picture" \in job'[q].dirty <=> job'[q].entity.picture # article'[job'[q].id].picture)
    BY DEF NewInv
  <2>1. CASE q = r
    <3>1. job'[q] = j /\ j.at = "updating"
      BY <1>1, <2>1 DEF Saves
    <3>2. CASE pic = NoPicture
      BY <2>1, <3>1, <3>2 DEF Has, Keeps
    <3>3. CASE pic # NoPicture
      <4>1. j.entity.picture = pic /\ pic \in stored' /\ \A b \in Articles : ~Uses(b, pic)
        BY <1>2, <3>1, <3>3
      <4>2. pic # article[a].picture /\ pic \notin j.unlink
        BY <1>3, <4>1 DEF Uses
      <4>3. \A p \in Editors : pic \notin job[p].unlink
        BY <4>1, Unlinkers, Types DEF ContentInv
      <4>4. \A p \in Editors : pic \notin job'[p].unlink
        BY <1>1, <4>2, <4>3
      <4>5. Brings(q)'
        BY <3>1, <4>1, <4>2, <4>4 DEF Brings
      <4> QED  BY <2>1, <3>1, <4>5 DEF Has
    <3> QED  BY <3>2, <3>3
  <2>2. CASE q # r
    <3>1. job'[q] = job[q] /\ Saves(q, job[q].id) /\ job[q].id \in Articles
      BY <1>1, <2>2, Types DEF Saves, ContentInv
    <3>2. Brings(q) => job[q].entity.picture \notin j.unlink
      <4> SUFFICES ASSUME Brings(q), job[q].entity.picture \in j.unlink PROVE FALSE
        OBVIOUS
      <4>1. /\ job[q].entity.picture \in Pictures /\ Uses(a, job[q].entity.picture)
            /\ Uses(job[q].id, job[q].entity.picture)
            /\ job[q].entity.picture = article[a].picture
        BY <1>3, <3>1 DEF Uses, Saves, Works
      <4>2. job[q].id = a
        BY <3>1, <4>1, OneOwner
      <4> QED  BY <4>1, <4>2 DEF Brings
    <3>3. Brings(q) => Brings(q)'
      BY <1>1, <1>2, <3>1, <3>2 DEF Brings
    <3> QED  BY <1>1, <3>1, <3>3 DEF ContentInv, NewInv, Keeps, Has
  <2> QED  BY <2>1, <2>2
<1>10. PicturesShown'
  <2> SUFFICES ASSUME NEW b \in Articles, Has(b), NEW x \in File(article[b].picture), x \notin stored', x \notin missing
               PROVE  \E q \in Editors : x \in job'[q].unlink
    BY DEF PicturesShown, File, Has
  <2>1. PICK q \in Editors : x \in job[q].unlink
    BY <1>2 DEF ContentInv, PicturesShown
  <2>2. q # r
    BY <2>1 DEF ContentInv, IdleInv
  <2> QED  BY <1>1, <2>1, <2>2
<1> QED  BY <1>5, <1>6, <1>7, <1>8, <1>9, <1>10 DEF ContentInv

\* A handler loads an article to change it.
LEMMA UpdateKeeps ==
    ASSUME ContentInv, NEW r \in Editors, NEW a \in Articles, NEW slug \in Called,
           NEW pic \in Pictures \cup {NoPicture}, UpdateArticle(r, a, slug, pic)
    PROVE  ContentInv'
<1> DEFINE e == [slug |-> slug, picture |-> IF pic = NoPicture THEN article[a].picture ELSE pic]
           asks == kind.updateAsks /\ slug # article[a].slug
           unlink == IF pic = NoPicture THEN {} ELSE File(article[a].picture)
           j == Begun("updating", a, e, asks, unlink)
<1>1. /\ job[r].at = "idle" /\ Has(a) /\ job' = [job EXCEPT ![r] = j]
      /\ UploadPicture(pic) /\ UNCHANGED <<kind, article, mishaps, missing>>
  BY DEF UpdateArticle
<1>2. e \in Shape /\ e.picture = (IF pic = NoPicture THEN article[a].picture ELSE pic)
  BY Types DEF Shape, Called, ContentInv
<1>3. unlink \subseteq Pictures /\ unlink \subseteq File(article[a].picture)
  BY Types DEF ContentInv, File
<1>4. asks \in BOOLEAN
  OBVIOUS
<1>5. pic = NoPicture => unlink = {}
  OBVIOUS
<1> HIDE DEF e, asks, unlink
<1>6. /\ j \in Job /\ j.id = a /\ j.at = "updating" /\ ~j.insert
      /\ j.entity = e /\ j.unlink = unlink
  BY <1>2, <1>3, <1>4 DEF Begun, Job
<1> HIDE DEF j
<1> QED  BY <1>1, <1>2, <1>3, <1>5, <1>6, LoadKeeps

\* A handler loads an article to remove it.
LEMMA RemoveKeeps ==
    ASSUME ContentInv, NEW r \in Editors, NEW a \in Articles, RemoveArticle(r, a) PROVE ContentInv'
<1> DEFINE unlink == File(article[a].picture)
           j == Begun("removing", a, Empty, FALSE, unlink)
<1>1. /\ job[r].at = "idle" /\ Has(a) /\ job' = [job EXCEPT ![r] = j]
      /\ UNCHANGED <<kind, article, stored, named, mishaps, missing>>
  BY DEF RemoveArticle
<1>2. Empty \in Shape /\ Empty.picture = NoPicture
  BY DEF Empty, Shape
<1>3. unlink \subseteq Pictures /\ unlink \subseteq File(article[a].picture)
  BY Types DEF ContentInv, File
<1> HIDE DEF unlink
<1>4. /\ j \in Job /\ j.id = a /\ j.at = "removing" /\ ~j.insert
      /\ j.entity = Empty /\ j.unlink = unlink
  BY <1>2, <1>3 DEF Begun, Job
<1> HIDE DEF j
<1>5. NoPicture \in Pictures \cup {NoPicture}
  OBVIOUS
<1> QED  BY <1>1, <1>2, <1>3, <1>4, <1>5, LoadKeeps

\* The file of the old picture is unlinked.
LEMMA UnlinkKeeps ==
    ASSUME ContentInv, NEW r \in Editors, Unlink(r) PROVE ContentInv'
<1>1. CASE Throw(r)
  BY <1>1, ThrowKeeps DEF Unlink, ContentInv, ContentTypeOK
<1>2. CASE /\ stored' = stored \ job[r].unlink
           /\ job' = [job EXCEPT ![r].at = IF @ = "updating" THEN "unlinked" ELSE "deleting"]
           /\ UNCHANGED <<kind, article, named, missing, mishaps>>
  <2> DEFINE now == IF job[r].at = "updating" THEN "unlinked" ELSE "deleting"
             j == [job[r] EXCEPT !.at = now]
  <2>1. job[r] \in Job /\ job[r].at \in {"updating", "removing"}
    BY Types DEF Unlink, ContentInv
  <2>2. job' = [q \in Editors |-> IF q = r THEN j ELSE job[q]]
    BY <1>2 DEF ContentInv, ContentTypeOK
  <2>3. /\ j \in Job /\ j.at = now /\ j.id = job[r].id /\ j.entity = job[r].entity /\ j.unlink = job[r].unlink
        /\ j.insert = job[r].insert /\ j.dirty = job[r].dirty /\ j.fresh = job[r].fresh
    BY <2>1 DEF Job
  <2> HIDE DEF j
  <2>4. \A q \in Editors :
           /\ job'[q] \in Job /\ job'[q].id = job[q].id /\ job'[q].entity = job[q].entity
           /\ job'[q].unlink = job[q].unlink /\ job'[q].insert = job[q].insert /\ job'[q].fresh = job[q].fresh
           /\ job'[q].dirty = job[q].dirty /\ (q # r => job'[q].at = job[q].at) /\ job'[r].at = now
    BY <2>2, <2>3, Types DEF ContentInv
  <2>5. \A q \in Editors, b \in Articles : (Works(q, b)' <=> Works(q, b)) /\ (Saves(q, b)' <=> Saves(q, b))
    BY <2>1, <2>4 DEF Works, Saves
  <2> HIDE DEF now
  <2>6. \A b \in Articles, pic \in Pictures : Uses(b, pic)' <=> Uses(b, pic)
    BY <1>2, <2>4, <2>5 DEF Uses
  <2>7. OwnInv'
    BY <1>2, <2>6, OwnStays
  <2>8. ContentTypeOK'
    <3>1. job' \in [Editors -> Job]
      BY <2>2, <2>4
    <3> QED  BY <1>2, <3>1 DEF ContentInv, ContentTypeOK
  <2>9. CreateInv'
    <3> SUFFICES ASSUME NEW q \in Editors, job'[q].at = "creating", job'[q].entity.picture # NoPicture
                 PROVE  /\ job'[q].entity.picture \in stored'
                        /\ \A b \in Articles : ~Uses(b, job[q].entity.picture)'
                        /\ \A p \in Editors : job'[p].at = "creating" /\ job'[p].entity.picture = job'[q].entity.picture
                                                  => p = q
      BY DEF CreateInv
    <3> DEFINE x == job[q].entity.picture
    <3>1. q # r /\ job[q].at = "creating" /\ x' = x /\ x \in Pictures
      BY <2>4, Types DEF now, ContentInv
    <3>2. /\ x \in stored /\ \A b \in Articles : ~Uses(b, x)
          /\ \A p \in Editors : job[p].at = "creating" /\ job[p].entity.picture = x => p = q
      BY <2>4, <3>1 DEF ContentInv, CreateInv
    <3>3. x \notin job[r].unlink
      BY <3>2, Unlinkers, Types DEF ContentInv
    <3>4. \A p \in Editors : job'[p].at = "creating" /\ job'[p].entity.picture = job'[q].entity.picture => p = q
      BY <2>4, <3>2 DEF now
    <3>5. job'[q].entity.picture \in stored'
      BY <1>2, <2>4, <3>2, <3>3
    <3> HIDE DEF x
    <3>6. \A b \in Articles : ~Uses(b, x)'
      BY <2>6, <3>1, <3>2 DEF Uses
    <3> QED  BY <3>4, <3>5, <3>6 DEF x
  <2>10. IdleInv'
    BY <2>4 DEF ContentInv, IdleInv, now
  <2>11. NewInv'
    <3> SUFFICES ASSUME NEW q \in Editors, Saves(q, job[q].id)', job'[q].fresh
                 PROVE  /\ Has(job[q].id)' /\ ~job'[q].insert
                        /\ Keeps(q)' \/ Brings(q)'
                        /\ job'[q].at = "selected" =>
                               ("picture" \in job'[q].dirty <=> job'[q].entity.picture # article'[job'[q].id].picture)
      BY DEF NewInv
    <3>1. job[q].id \in Articles /\ Saves(q, job[q].id) /\ job[q].fresh
      BY <2>1, <2>4, Types DEF ContentInv, Saves, now
    <3>2. Brings(q) => Brings(q)'
      BY <1>2, <2>4 DEF Brings
    <3>3. Keeps(q) => Keeps(q)'
      BY <1>2, <2>4 DEF Keeps
    <3>4. job'[q].at = "selected" => job[q].at = "selected"
      BY <2>4 DEF now
    <3> QED  BY <1>2, <2>4, <3>1, <3>2, <3>3, <3>4 DEF ContentInv, NewInv, Has
  <2>12. PicturesShown'
    <3> SUFFICES ASSUME NEW b \in Articles, Has(b), NEW x \in File(article[b].picture), x \notin stored', x \notin missing
                 PROVE  \E q \in Editors : x \in job'[q].unlink
      BY <1>2 DEF PicturesShown, File, Has
    <3> QED  BY <1>2, <2>4 DEF ContentInv, PicturesShown
  <2> QED  BY <2>7, <2>8, <2>9, <2>10, <2>11, <2>12 DEF ContentInv
<1> QED  BY <1>1, <1>2 DEF Unlink

\* save() reads the row again.
LEMMA SelectKeeps ==
    ASSUME ContentInv, NEW r \in Editors, SelectArticle(r) PROVE ContentInv'
<1> DEFINE gone == ~Has(job[r].id)
           dirty == {c \in Columns : job[r].entity[c] # article[job[r].id][c]}
           j == [job[r] EXCEPT !.at = "selected", !.insert = gone, !.dirty = dirty]
<1>1. job[r] \in Job /\ job[r].at = "unlinked" /\ job[r].id \in Articles
  BY Types DEF SelectArticle, ContentInv
<1>2. /\ job' = [q \in Editors |-> IF q = r THEN j ELSE job[q]]
      /\ UNCHANGED <<kind, article, stored, named, mishaps, missing>>
  BY DEF SelectArticle, ContentInv, ContentTypeOK
<1>3. gone \in BOOLEAN /\ dirty \subseteq Columns
  OBVIOUS
<1>4. "picture" \in dirty <=> job[r].entity.picture # article[job[r].id].picture
  BY DEF Columns
<1> HIDE DEF gone, dirty
<1>5. /\ j \in Job /\ j.at = "selected" /\ j.id = job[r].id /\ j.entity = job[r].entity
      /\ j.unlink = job[r].unlink /\ j.insert = gone /\ j.dirty = dirty /\ j.fresh = job[r].fresh
  BY <1>1, <1>3 DEF Job
<1> HIDE DEF j
<1>6. \A q \in Editors :
         /\ job'[q] \in Job /\ job'[q].id = job[q].id /\ job'[q].entity = job[q].entity
         /\ job'[q].unlink = job[q].unlink /\ job'[q].fresh = job[q].fresh
         /\ q # r => job'[q] = job[q]
         /\ (job'[q].at = "creating" <=> job[q].at = "creating") /\ (job'[q].at = "idle" <=> job[q].at = "idle")
  BY <1>1, <1>2, <1>5, Types DEF ContentInv
<1>7. \A q \in Editors, b \in Articles : (Works(q, b)' <=> Works(q, b)) /\ (Saves(q, b)' <=> Saves(q, b))
  BY <1>1, <1>2, <1>5, <1>6 DEF Works, Saves
<1>8. \A b \in Articles, pic \in Pictures : Uses(b, pic)' <=> Uses(b, pic)
  BY <1>2, <1>6, <1>7 DEF Uses
<1>9. OwnInv'
  BY <1>2, <1>8, OwnStays
<1>10. ContentTypeOK'
  <2>1. job' \in [Editors -> Job]
    BY <1>2, <1>6
  <2> QED  BY <1>2, <2>1 DEF ContentInv, ContentTypeOK
<1>11. CreateInv'
  <2> SUFFICES ASSUME NEW q \in Editors, job'[q].at = "creating", job'[q].entity.picture # NoPicture
               PROVE  /\ job'[q].entity.picture \in stored'
                      /\ \A b \in Articles : ~Uses(b, job[q].entity.picture)'
                      /\ \A p \in Editors : job'[p].at = "creating" /\ job'[p].entity.picture = job'[q].entity.picture
                                                => p = q
    BY DEF CreateInv
  <2> DEFINE x == job[q].entity.picture
  <2>1. job[q].at = "creating" /\ x' = x /\ x \in Pictures
    BY <1>6, Types DEF ContentInv
  <2>2. /\ x \in stored /\ \A b \in Articles : ~Uses(b, x)
        /\ \A p \in Editors : job[p].at = "creating" /\ job[p].entity.picture = x => p = q
    BY <1>6, <2>1 DEF ContentInv, CreateInv
  <2>3. /\ job'[q].entity.picture \in stored'
        /\ \A p \in Editors : job'[p].at = "creating" /\ job'[p].entity.picture = job'[q].entity.picture => p = q
    BY <1>2, <1>6, <2>2
  <2> HIDE DEF x
  <2>4. \A b \in Articles : ~Uses(b, x)'
    BY <1>8, <2>1, <2>2 DEF Uses
  <2> QED  BY <2>3, <2>4 DEF x
<1>12. IdleInv'
  BY <1>6 DEF ContentInv, IdleInv
<1>13. NewInv'
  <2> SUFFICES ASSUME NEW q \in Editors, Saves(q, job[q].id)', job'[q].fresh
               PROVE  /\ Has(job[q].id)' /\ ~job'[q].insert
                      /\ Keeps(q)' \/ Brings(q)'
                      /\ job'[q].at = "selected" =>
                             ("picture" \in job'[q].dirty <=> job'[q].entity.picture # article'[job'[q].id].picture)
    BY DEF NewInv
  <2>1. job[q].id \in Articles /\ Saves(q, job[q].id) /\ job[q].fresh
    BY <1>1, <1>2, <1>5, <1>6, Types DEF ContentInv, Saves
  <2>2. Brings(q) => Brings(q)'
    BY <1>2, <1>6 DEF Brings
  <2>3. Keeps(q) => Keeps(q)'
    BY <1>2, <1>6 DEF Keeps
  <2>4. CASE q # r
    BY <1>2, <1>6, <2>1, <2>2, <2>3, <2>4 DEF ContentInv, NewInv, Has
  <2>5. CASE q = r
    <3>1. Has(job[r].id) /\ (Keeps(r) \/ Brings(r))
      BY <2>1, <2>5 DEF ContentInv, NewInv
    <3>2. ~gone
      BY <3>1 DEF gone
    <3> QED  BY <1>2, <1>4, <1>5, <1>6, <2>2, <2>3, <2>5, <3>1, <3>2 DEF Has
  <2> QED  BY <2>4, <2>5
<1>14. PicturesShown'
  <2> SUFFICES ASSUME NEW b \in Articles, Has(b), NEW x \in File(article[b].picture), x \notin stored, x \notin missing
               PROVE  \E q \in Editors : x \in job'[q].unlink
    BY <1>2 DEF PicturesShown, File, Has
  <2> QED  BY <1>6 DEF ContentInv, PicturesShown
<1> QED  BY <1>9, <1>10, <1>11, <1>12, <1>13, <1>14 DEF ContentInv

-----------------------------------------------------------------------------
\* Every step of the articles.
LEMMA NextContentInv == ContentInv /\ [ContentNext]_contentVars => ContentInv'
<1> SUFFICES ASSUME ContentInv, [ContentNext]_contentVars PROVE ContentInv'
  OBVIOUS
<1>1. CASE UNCHANGED contentVars
  BY <1>1 DEF contentVars, ContentInv, ContentTypeOK, OwnInv, CreateInv, IdleInv, NewInv, PicturesShown,
             Uses, Works, Saves, Keeps, Brings, Has
<1>2. ASSUME NEW r \in Editors, NEW slug \in Called, NEW pic \in Pictures \cup {NoPicture},
             \/ CreateArticle(r, slug, pic)
             \/ \E a \in Articles : UpdateArticle(r, a, slug, pic)
      PROVE  ContentInv'
  BY <1>2, CreateKeeps, UpdateKeeps
<1>3. ASSUME NEW r \in Editors, NEW a \in Articles, InsertArticle(r, a) \/ RemoveArticle(r, a) PROVE ContentInv'
  BY <1>3, InsertKeeps, RemoveKeeps
<1>4. ASSUME NEW r \in Editors, \/ Unlink(r) \/ SelectArticle(r) \/ CommitArticle(r) \/ DeleteArticle(r)
                               \/ Mishap(r)
      PROVE  ContentInv'
  <2>1. Mishap(r) => Throw(r) /\ mishaps' \in 0..MaxMishaps
    BY ContentAssumption DEF Mishap, ContentInv, ContentTypeOK
  <2> QED  BY <1>4, <2>1, UnlinkKeeps, SelectKeeps, CommitKeeps, DeleteKeeps, ThrowKeeps
<1> QED  BY <1>1, <1>2, <1>3, <1>4 DEF ContentNext

\* The inductive invariant of the articles.
THEOREM ContentInvariance == ContentSpec => []ContentInv
  BY InitContentInv, NextContentInv, PTL DEF ContentSpec

\* Articles, pictures and handlers keep their types.
THEOREM TypeCorrect == ContentSpec => []ContentTypeOK
<1>1. ContentInv => ContentTypeOK
  BY DEF ContentInv
<1> QED  BY <1>1, ContentInvariance, PTL

\* The picture of an article is on disk, or its loss is accounted for, for any number of
\* articles, pictures, requests and failures (update, updateInfo, remove, deleteInfo).
THEOREM PicturesAreShown == ContentSpec => []PicturesShown
<1>1. ContentInv => PicturesShown
  BY DEF ContentInv
<1> QED  BY <1>1, ContentInvariance, PTL

-----------------------------------------------------------------------------
(* Paging.                                                                 *)

\* The rows a cursor has still to come to, in the list or not.
Beyond(c) == IF c = NoCursor THEN Ids
             ELSE {i \in Ids : entry[i].at < c.at \/ (entry[i].at = c.at /\ i < c.id)}

\* Before the list is opened nothing has been shown; only numbered pages are counted.
WalkInv ==
    /\ walk.at = "idle" => /\ walk = NotBegun /\ visits = [i \in Ids |-> 0] /\ stayed = {}
                           /\ changes = 0 /\ happened = {}
    /\ walk.page > 0
    /\ walk.at = "uncounted" => list.paging = "numbers"

\* Following cursors: the rows beyond the cursor have not been shown, and the others have,
\* once, if they stayed.
CursorInv ==
    list.paging = "cursor" /\ walk.at = "going" /\ "muddled" \notin happened =>
        \A i \in Ids : IF i \in Beyond(walk.cursor) THEN visits[i] = 0
                       ELSE visits[i] <= 1 /\ (i \in stayed => visits[i] = 1)

\* The rows whose key is greater than that of row i, and those whose key is not less.
Above(i)   == {j \in Here : entry[j].key > entry[i].key}
AtLeast(i) == {j \in Here : entry[j].key >= entry[i].key}

\* The rows of the pages that have been shown.
Passed == IF walk.at = "uncounted" THEN walk.page * Limit ELSE Skip

\* Turning pages: a row that was missed is further down than the pages shown, if none went;
\* a row that was shown is not, if none came.
NumberInv ==
    list.paging = "numbers" /\ walk.at \in {"going", "uncounted"} =>
        /\ happened \cap {"gone", "moved", "tied"} = {} =>
               \A i \in stayed : visits[i] = 0 => Cardinality(Above(i)) >= Passed
        /\ happened \cap {"came", "moved", "tied"} = {} =>
               \A i \in Ids : /\ visits[i] <= 1
                              /\ visits[i] = 1 /\ entry[i].here => Cardinality(AtLeast(i)) <= Passed

PagingInv == PagingTypeOK /\ PagesExplained /\ WalkInv /\ CursorInv /\ NumberInv

-----------------------------------------------------------------------------
\* Sets of rows are finite and can be counted; the smaller has no more rows.
LEMMA RowsFinite ==
    ASSUME NEW S \in SUBSET Ids
    PROVE  /\ IsFiniteSet(S) /\ Cardinality(S) \in Nat
           /\ \A T \in SUBSET S : Cardinality(T) <= Cardinality(S)
           /\ \A T \in SUBSET S : Cardinality(S) = Cardinality(T) => S = T
<1>1. IsFiniteSet(Ids) BY IdsAssumption
<1>2. IsFiniteSet(S) BY <1>1, FS_Subset
<1>3. QED BY <1>2, FS_Subset, FS_CardinalityType

\* The order of a list is total.
LEMMA RowsOrdered ==
    ASSUME entry \in [Ids -> Entry]
    PROVE  /\ \A i \in Ids : ~Precedes(i, i) /\ entry[i].key \in Nat /\ i \in Nat
           /\ \A i, j \in Ids : i = j \/ Precedes(i, j) \/ Precedes(j, i)
           /\ \A i, j \in Ids : ~(Precedes(i, j) /\ Precedes(j, i))
           /\ \A i, j, k \in Ids : Precedes(i, j) /\ Precedes(j, k) => Precedes(i, k)
<1>1. \A i \in Ids : entry[i].key \in Nat /\ i \in Nat
  BY IdsAssumption, SizesAssumption DEF Entry, Keys
<1>2. QED BY <1>1 DEF Precedes

\* Of any rows one is the first.
LEMMA FirstRow ==
    ASSUME entry \in [Ids -> Entry], NEW S \in SUBSET Ids, S # {}
    PROVE  \E i \in S : \A j \in S \ {i} : Precedes(i, j)
<1> DEFINE before == [i \in S |-> {j \in S : Precedes(j, i)}]
           T      == {before[i] : i \in S}
<1>1. T # {} OBVIOUS
<1>2. T \subseteq FiniteSubsetsOf(Ids)
  BY RowsFinite DEF FiniteSubsetsOf
<1>3. PICK x \in T : \A y \in T : ~ (<<y, x>> \in StrictSubsetOrdering(Ids))
  <2> HIDE DEF T
  <2>1. IsWellFoundedOn(StrictSubsetOrdering(Ids), FiniteSubsetsOf(Ids))
    BY FS_StrictSubsetOrderingWellFounded
  <2>2. QED BY <1>1, <1>2, <2>1, WFMin
<1>4. PICK i \in S : x = before[i] OBVIOUS
<1>5. \A j \in S : ~Precedes(j, i)
  <2> SUFFICES ASSUME NEW j \in S, Precedes(j, i) PROVE FALSE OBVIOUS
  <2>1. before[j] \subseteq before[i] /\ j \in before[i] /\ j \notin before[j]
    BY RowsOrdered
  <2>2. before[j] \in SUBSET Ids /\ before[i] \in SUBSET Ids OBVIOUS
  <2>3. <<before[j], before[i]>> \in StrictSubsetOrdering(Ids)
    BY <2>1, <2>2 DEF StrictSubsetOrdering
  <2>4. before[j] \in T OBVIOUS
  <2>5. QED BY <1>3, <1>4, <2>3, <2>4
<1>6. QED BY <1>5, RowsOrdered

\* ... and one the last.
LEMMA LastRow ==
    ASSUME entry \in [Ids -> Entry], NEW S \in SUBSET Ids, S # {}
    PROVE  LastOf(S) \in S /\ \A j \in S \ {LastOf(S)} : Precedes(j, LastOf(S))
<1> DEFINE after == [i \in S |-> {j \in S : Precedes(i, j)}]
           T     == {after[i] : i \in S}
<1>1. T # {} OBVIOUS
<1>2. T \subseteq FiniteSubsetsOf(Ids)
  BY RowsFinite DEF FiniteSubsetsOf
<1>3. PICK x \in T : \A y \in T : ~ (<<y, x>> \in StrictSubsetOrdering(Ids))
  <2> HIDE DEF T
  <2>1. IsWellFoundedOn(StrictSubsetOrdering(Ids), FiniteSubsetsOf(Ids))
    BY FS_StrictSubsetOrderingWellFounded
  <2>2. QED BY <1>1, <1>2, <2>1, WFMin
<1>4. PICK i \in S : x = after[i] OBVIOUS
<1>5. \A j \in S : ~Precedes(i, j)
  <2> SUFFICES ASSUME NEW j \in S, Precedes(i, j) PROVE FALSE OBVIOUS
  <2>1. after[j] \subseteq after[i] /\ j \in after[i] /\ j \notin after[j]
    BY RowsOrdered
  <2>2. after[j] \in SUBSET Ids /\ after[i] \in SUBSET Ids OBVIOUS
  <2>3. <<after[j], after[i]>> \in StrictSubsetOrdering(Ids)
    BY <2>1, <2>2 DEF StrictSubsetOrdering
  <2>4. after[j] \in T OBVIOUS
  <2>5. QED BY <1>3, <1>4, <2>3, <2>4
<1>6. \E k \in S : \A j \in S \ {k} : Precedes(j, k) BY <1>5, RowsOrdered
<1>7. QED BY <1>6 DEF LastOf

\* The rows of a page: with a row it has those before it, and it is short only if there are
\* no more.
LEMMA FirstRows ==
    ASSUME entry \in [Ids -> Entry], NEW S \in SUBSET Ids, NEW n \in Nat
    PROVE  /\ First(S, n) \subseteq S
           /\ \A i \in First(S, n), j \in S : Precedes(j, i) => j \in First(S, n)
           /\ Cardinality(First(S, n)) < n => First(S, n) = S
<1> DEFINE before(i) == {j \in S : Precedes(j, i)}
<1>1. First(S, n) = {i \in S : Cardinality(before(i)) < n} BY DEF First
<1>2. ASSUME NEW i \in First(S, n), NEW j \in S, Precedes(j, i)
      PROVE  j \in First(S, n)
  <2>1. before(j) \subseteq before(i) BY <1>1, <1>2, RowsOrdered
  <2>2. /\ Cardinality(before(i)) \in Nat /\ Cardinality(before(j)) \in Nat
        /\ Cardinality(before(j)) <= Cardinality(before(i))
    BY <2>1, RowsFinite
  <2>3. QED BY <1>1, <2>2
<1>3. ASSUME Cardinality(First(S, n)) < n, First(S, n) # S
      PROVE  FALSE
  <2>1. S \ First(S, n) # {} /\ S \ First(S, n) \in SUBSET Ids BY <1>1, <1>3
  <2>2. PICK i \in S \ First(S, n) : \A j \in (S \ First(S, n)) \ {i} : Precedes(i, j)
    BY <2>1, FirstRow
  <2>3. before(i) \subseteq First(S, n) BY <2>2, RowsOrdered
  <2>4. First(S, n) \in SUBSET Ids BY <1>1
  <2>5. /\ Cardinality(before(i)) \in Nat /\ Cardinality(First(S, n)) \in Nat
        /\ Cardinality(before(i)) <= Cardinality(First(S, n))
    BY <2>3, <2>4, RowsFinite
  <2>6. QED BY <1>1, <1>3, <2>2, <2>5
<1>4. QED BY <1>1, <1>2, <1>3

\* A cursor is a time no later than the row's, and the row's id.
LEMMA ToDateDown ==
    ASSUME NEW t \in Nat PROVE ToDate(t) \in Nat /\ ToDate(t) <= t
<1>1. PerMilli \in Nat /\ PerMilli > 0 BY PageAssumption
<1> DEFINE q == t \div PerMilli
           r == t % PerMilli
<1>2. r \in 0..(PerMilli - 1) /\ q >= 0 BY <1>1
<1>3. t = PerMilli * q + r BY <1>1
<1>4. ToDate(t) = t - r BY DEF ToDate
<1>5. q \in Nat BY <1>1, <1>2
<1> HIDE DEF q, r
<1>6. PerMilli * q \in Nat BY <1>1, <1>5
<1>7. QED BY <1>1, <1>2, <1>3, <1>4, <1>6

\* With as many pages as TotalPages, the pages have room for all rows.
LEMMA PagesHoldAll ==
    ASSUME NEW n \in Nat, NEW page \in Nat, page >= (n + Limit - 1) \div Limit
    PROVE  n <= page * Limit
<1>1. Limit \in Nat /\ Limit > 0 BY PageAssumption
<1> DEFINE m == n + Limit - 1
           q == m \div Limit
<1>2. m \in Nat BY <1>1
<1> HIDE DEF m
<1>3. q \in Int /\ m % Limit \in 0..(Limit - 1) BY <1>1, <1>2
<1>4. m = Limit * q + (m % Limit) BY <1>1, <1>2
<1> HIDE DEF q
<1>5. page >= q BY DEF q, m
<1>6. page * Limit >= Limit * q BY <1>1, <1>3, <1>5
<1>7. m = n + Limit - 1 BY DEF m
<1>8. QED BY <1>1, <1>3, <1>4, <1>6, <1>7

-----------------------------------------------------------------------------
\* Before the list is opened.
LEMMA InitPagingInv == PagingInit => PagingInv
<1> SUFFICES ASSUME PagingInit PROVE PagingInv OBVIOUS
<1>1. /\ list \in CursorLists \cup NumberedLists /\ entry \in [Ids -> Entry]
      /\ walk = NotBegun /\ visits = [i \in Ids |-> 0] /\ stayed = {}
      /\ changes = 0 /\ happened = {}
  BY DEF PagingInit
<1>2. walk \in Walk /\ walk.at = "idle" /\ walk.page = 1
  BY <1>1 DEF NotBegun, Walk
<1>3. changes \in 0..MaxChanges BY <1>1, SizesAssumption
<1>4. PagingTypeOK
  BY <1>1, <1>2, <1>3 DEF PagingTypeOK
<1>5. PagesExplained /\ WalkInv /\ CursorInv /\ NumberInv
  BY <1>1, <1>2 DEF PagesExplained, EachRowOnce, PagesShift, WalkInv, CursorInv, NumberInv
<1>6. QED BY <1>4, <1>5 DEF PagingInv

\* The client opens the list.
LEMMA OpenStep == ASSUME PagingInv, Open PROVE PagingInv'
<1>1. PagingTypeOK /\ WalkInv /\ Limit \in Nat BY PageAssumption DEF PagingInv
<1>2. /\ walk = NotBegun /\ visits = [i \in Ids |-> 0] /\ happened = {}
      /\ walk' = [walk EXCEPT !.at = "going"]
      /\ stayed' = Here
      /\ UNCHANGED <<list, entry, visits, changes, happened>>
  BY <1>1 DEF Open, WalkInv
<1>3. walk' = [at |-> "going", cursor |-> NoCursor, page |-> 1] BY <1>2 DEF NotBegun
<1>4. walk' \in Walk BY <1>3 DEF Walk
<1>5. Here' = Here BY <1>2 DEF Here
<1>6. PagingTypeOK' BY <1>1, <1>2, <1>4, <1>5 DEF PagingTypeOK
<1>7. WalkInv' BY <1>3 DEF WalkInv
<1>8. PagesExplained' BY <1>3 DEF PagesExplained, EachRowOnce, PagesShift
<1>9. CursorInv'
  <2>1. Beyond(walk.cursor)' = Ids BY <1>3 DEF Beyond
  <2>2. QED BY <1>2, <2>1 DEF CursorInv
<1>10. NumberInv'
  <2>1. Passed' = 0 BY <1>1, <1>3 DEF Passed, Skip
  <2>2. \A i \in Ids : Cardinality(Above(i)') \in Nat
    <3>1. \A i \in Ids : Above(i)' \in SUBSET Ids BY DEF Above, Here
    <3>2. QED BY <3>1, RowsFinite
  <2>3. stayed' \subseteq Ids BY <1>2 DEF Here
  <2>4. \A i \in Ids : visits'[i] = 0 BY <1>2
  <2>5. QED BY <2>1, <2>2, <2>3, <2>4 DEF NumberInv
<1>11. QED BY <1>6, <1>7, <1>8, <1>9, <1>10 DEF PagingInv

\* The client closes the list.
LEMMA CloseStep == ASSUME PagingInv, Close PROVE PagingInv'
<1>1. PagingTypeOK BY DEF PagingInv
<1>2. /\ walk' = NotBegun /\ visits' = [i \in Ids |-> 0] /\ stayed' = {}
      /\ changes' = 0 /\ happened' = {}
      /\ UNCHANGED <<list, entry>>
  BY DEF Close
<1>3. walk' \in Walk /\ walk'.at = "idle" /\ walk'.page = 1 BY <1>2 DEF NotBegun, Walk
<1>4. changes' \in 0..MaxChanges BY <1>2, SizesAssumption
<1>5. PagingTypeOK' BY <1>1, <1>2, <1>3, <1>4 DEF PagingTypeOK
<1>6. PagesExplained' /\ WalkInv' /\ CursorInv' /\ NumberInv'
  BY <1>2, <1>3 DEF PagesExplained, EachRowOnce, PagesShift, WalkInv, CursorInv, NumberInv
<1>7. QED BY <1>5, <1>6 DEF PagingInv

\* A page by cursor: its rows had not been shown, and those before it have been.
LEMMA CursorStep == ASSUME PagingInv, PaginateCursor PROVE PagingInv'
<1>1. /\ PagingTypeOK /\ WalkInv /\ CursorInv
      /\ entry \in [Ids -> Entry] /\ visits \in [Ids -> Nat] /\ walk \in Walk
      /\ stayed \subseteq Here /\ Here \subseteq Ids
  BY DEF PagingInv, PagingTypeOK, Here
<1>2. /\ list.paging = "cursor" /\ walk.at = "going"
      /\ visits' = [i \in Ids |-> visits[i] + (IF i \in Items THEN 1 ELSE 0)]
      /\ UNCHANGED <<list, entry, changes, stayed>>
  BY DEF PaginateCursor, Shown
<1> DEFINE c == walk.cursor
           B == Below(c)
<1>3. B \subseteq Here /\ B = Here \cap Beyond(c) BY <1>1 DEF Below, Beyond
<1>4. Limit \in Nat /\ Limit > 0 /\ Limit + 1 \in Nat BY PageAssumption
<1>5. B \in SUBSET Ids BY <1>1, <1>3
<1>6. /\ Fetched \subseteq B
      /\ \A i \in Fetched, j \in B : Precedes(j, i) => j \in Fetched
      /\ Cardinality(Fetched) < Limit + 1 => Fetched = B
  BY <1>1, <1>4, <1>5, FirstRows DEF Fetched
<1>7. Cardinality(Fetched) \in Nat /\ IsFiniteSet(Fetched) BY <1>5, <1>6, RowsFinite
<1>8. Items \subseteq Fetched BY DEF Items
<1>9. visits' \in [Ids -> Nat] BY <1>1, <1>2
<1>10. Here' = Here BY <1>2 DEF Here
<1>11. CASE ~HasMore
  <2>1. walk' = [walk EXCEPT !.at = "over"] /\ UNCHANGED happened
    BY <1>11 DEF PaginateCursor
  <2>2. Items = B BY <1>4, <1>6, <1>7, <1>11 DEF Items, HasMore
  <2>3. PagingTypeOK' BY <1>1, <1>2, <1>9, <1>10, <2>1 DEF PagingTypeOK, Walk
  <2>4. walk' \in Walk /\ walk'.at = "over" /\ walk'.page = walk.page
    BY <1>1, <2>1 DEF Walk
  <2>5. EachRowOnce'
    <3> SUFFICES ASSUME "muddled" \notin happened, NEW i \in Ids
                 PROVE  visits'[i] <= 1 /\ (i \in stayed => visits'[i] = 1)
      BY <1>2, <2>1 DEF EachRowOnce
    <3>1. IF i \in Beyond(c) THEN visits[i] = 0
          ELSE visits[i] <= 1 /\ (i \in stayed => visits[i] = 1)
      BY <1>1, <1>2 DEF CursorInv
    <3>2. visits[i] \in Nat BY <1>1
    <3>3. visits'[i] = visits[i] + (IF i \in Items THEN 1 ELSE 0) BY <1>2
    <3>4. QED BY <1>1, <1>3, <2>2, <3>1, <3>2, <3>3
  <2>6. PagesShift' BY <1>2 DEF PagesShift
  <2>7. WalkInv' BY <1>1, <2>4 DEF WalkInv
  <2>8. CursorInv' /\ NumberInv' BY <2>4 DEF CursorInv, NumberInv
  <2>9. QED BY <2>3, <2>5, <2>6, <2>7, <2>8 DEF PagingInv, PagesExplained
<1>12. CASE HasMore
  <2>0. PICK l, n : l = EndOfPage /\ n = NextCursor OBVIOUS
  <2>1. /\ walk' = [walk EXCEPT !.cursor = n]
        /\ happened' = IF Muddled(l, n) THEN happened \cup {"muddled"} ELSE happened
    BY <1>12, <2>0 DEF PaginateCursor
  <2>2. /\ Fetched # {} /\ LastOf(Fetched) \in Fetched
        /\ \A j \in Fetched \ {LastOf(Fetched)} : Precedes(j, LastOf(Fetched))
    <3>1. Fetched # {} BY <1>4, <1>12, FS_EmptySet DEF HasMore
    <3>2. Fetched \in SUBSET Ids BY <1>5, <1>6
    <3>3. QED BY <1>1, <3>1, <3>2, LastRow
  <2>3. Items = Fetched \ {LastOf(Fetched)} BY <1>12 DEF Items
  <2>4. Items # {} /\ Items \in SUBSET Ids
    <3>1. Cardinality(Items) = Cardinality(Fetched) - 1
      BY <1>7, <2>2, <2>3, FS_RemoveElement
    <3>2. Cardinality(Items) > 0 BY <1>4, <1>7, <1>12, <3>1 DEF HasMore
    <3>3. QED BY <1>5, <1>6, <1>8, <3>2, FS_EmptySet
  <2>5. l \in Items /\ \A j \in Items \ {l} : Precedes(j, l)
    BY <1>1, <2>0, <2>4, LastRow DEF EndOfPage
  <2>6. l \in Ids /\ l \in B BY <1>5, <1>6, <1>8, <2>5
  <2>7. n \in Cursor /\ n.id = l /\ n.at \in Nat /\ n.at <= entry[l].at /\ entry[l].at \in Nat
    <3>1. entry[l].at \in Nat /\ entry[l].at <= MaxInstant /\ MaxInstant \in Nat
      BY <1>1, <2>6, SizesAssumption DEF Entry, Instants
    <3>2. ToDate(entry[l].at) \in Nat /\ ToDate(entry[l].at) <= entry[l].at
      BY <3>1, ToDateDown
    <3>3. n = [at |-> ToDate(entry[l].at), id |-> l] BY <2>0 DEF NextCursor
    <3>4. QED BY <2>6, <3>1, <3>2, <3>3 DEF Cursor, Instants
  <2>8. walk' \in Walk /\ walk'.at = "going" /\ walk'.page = walk.page /\ walk'.cursor = n
    BY <1>1, <1>2, <2>1, <2>7 DEF Walk
  <2>9. happened' \subseteq Happenings
    BY <1>1, <2>1 DEF PagingTypeOK, Happenings
  <2>10. PagingTypeOK' BY <1>1, <1>2, <1>9, <1>10, <2>8, <2>9 DEF PagingTypeOK
  <2>11. WalkInv' BY <1>1, <2>8 DEF WalkInv
  <2>12. PagesExplained' BY <2>8 DEF PagesExplained, EachRowOnce, PagesShift
  <2>13. NumberInv' BY <1>2 DEF NumberInv
  <2>14. CursorInv'
    <3> SUFFICES ASSUME "muddled" \notin happened', NEW i \in Ids
                 PROVE  IF i \in Beyond(n)' THEN visits'[i] = 0
                        ELSE visits'[i] <= 1 /\ (i \in stayed => visits'[i] = 1)
      BY <1>2, <2>8 DEF CursorInv
    <3>1. "muddled" \notin happened /\ ~Muddled(l, n) BY <2>1
    <3>2. {j \in Here : Precedes(l, j)} = Below(n) BY <3>1 DEF Muddled
    <3>3. n # NoCursor BY <2>7, IdsAssumption DEF Cursor
    <3>4. \A k \in Ids : k \in Beyond(n) <=> \/ entry[k].at < n.at
                                             \/ entry[k].at = n.at /\ k < l
      BY <2>7, <3>3 DEF Beyond
    <3>5. Below(n) = Here \cap Beyond(n) BY <1>1, <3>3 DEF Below, Beyond
    <3>6. i \in Beyond(n)' <=> i \in Beyond(n)
      BY <1>2 DEF Beyond
    <3>7. \A k \in Ids : entry[k].at \in Nat /\ k \in Nat
      BY <1>1, IdsAssumption, SizesAssumption DEF Entry, Instants
    <3>8. i \in Beyond(n) => i \in Beyond(c)
      <4>1. CASE c = NoCursor BY <4>1 DEF Beyond
      <4>2. CASE c # NoCursor
        <5>1. c \in Cursor BY <1>1, <4>2 DEF Walk
        <5>2. c.at \in Nat /\ c.id \in Nat BY <5>1, IdsAssumption DEF Cursor, Instants
        <5>3. entry[l].at < c.at \/ (entry[l].at = c.at /\ l < c.id)
          BY <2>6, <4>2 DEF Below
        <5>4. QED BY <2>6, <2>7, <3>4, <3>7, <4>2, <5>2, <5>3 DEF Beyond
      <4>3. QED BY <4>1, <4>2
    <3>9. IF i \in Beyond(c) THEN visits[i] = 0
          ELSE visits[i] <= 1 /\ (i \in stayed => visits[i] = 1)
      BY <1>1, <1>2, <3>1 DEF CursorInv
    <3>10. visits[i] \in Nat /\ visits'[i] = visits[i] + (IF i \in Items THEN 1 ELSE 0)
      BY <1>1, <1>2
    <3>11. i \in Items => i \in Beyond(c) BY <1>3, <1>6, <1>8
    <3>12. CASE i \in Beyond(n)
      <4>1. i \notin Items
        <5> SUFFICES ASSUME i \in Items PROVE FALSE OBVIOUS
        <5>1. i \in Below(n) BY <1>3, <1>6, <1>8, <3>5, <3>12
        <5>2. Precedes(l, i) BY <3>2, <5>1
        <5>3. i # l /\ ~Precedes(i, l) BY <1>1, <2>6, <5>2, RowsOrdered
        <5>4. QED BY <2>5, <5>3
      <4>2. QED BY <3>6, <3>8, <3>9, <3>10, <3>12, <4>1
    <3>13. CASE i \notin Beyond(n)
      <4>1. i \in stayed /\ i \in Beyond(c) => i \in Items
        <5> SUFFICES ASSUME i \in stayed, i \in Beyond(c) PROVE i \in Items OBVIOUS
        <5>1. i \in B /\ i \in Here BY <1>1, <1>3
        <5>2. ~Precedes(l, i) BY <3>2, <3>5, <3>13, <5>1
        <5>3. i = l \/ Precedes(i, l) BY <1>1, <2>6, <5>2, RowsOrdered
        <5>4. i \in Fetched BY <1>6, <1>8, <2>5, <5>1, <5>3
        <5>5. Precedes(l, LastOf(Fetched)) BY <1>8, <2>2, <2>3, <2>5
        <5>6. i # LastOf(Fetched) BY <5>2, <5>5
        <5>7. QED BY <2>3, <5>4, <5>6
      <4>2. QED BY <3>6, <3>9, <3>10, <3>11, <3>13, <4>1
    <3>14. QED BY <3>12, <3>13
  <2>15. QED BY <2>10, <2>11, <2>12, <2>13, <2>14 DEF PagingInv
<1>13. QED BY <1>11, <1>12

\* The first n rows of a numbered list: all there are, or n; with a row all of greater keys.
LEMMA PrefixRows ==
    ASSUME entry \in [Ids -> Entry], NEW n \in Nat, NEW S \in Prefixes(n)
    PROVE  /\ S \subseteq Here /\ S \in SUBSET Ids
           /\ Cardinality(S) \in Nat /\ Cardinality(S) <= n
           /\ S = Here \/ Cardinality(S) = n
           /\ ~Tied(S) => \A i \in S, j \in Here \ S : entry[i].key > entry[j].key
           /\ \A i \in S, j \in Here \ S : entry[i].key >= entry[j].key
<1>1. /\ S \subseteq Here
      /\ Cardinality(S) = IF n < Cardinality(Here) THEN n ELSE Cardinality(Here)
      /\ \A i \in S, j \in Here \ S : entry[i].key >= entry[j].key
  BY DEF Prefixes
<1>2. Here \in SUBSET Ids /\ S \in SUBSET Ids BY <1>1 DEF Here
<1>3. Cardinality(Here) \in Nat /\ (Cardinality(Here) = Cardinality(S) => Here = S)
  BY <1>1, <1>2, RowsFinite
<1>4. \A i \in Ids : entry[i].key \in Nat BY RowsOrdered
<1>5. ~Tied(S) => \A i \in S, j \in Here \ S : entry[i].key > entry[j].key
  BY <1>1, <1>2, <1>4 DEF Tied
<1>6. QED BY <1>1, <1>2, <1>3, <1>5

\* A page by number: a row that stays unseen is below the new page, one that is seen is not.
LEMMA FindAllStep == ASSUME PagingInv, FindAll PROVE PagingInv'
<1>1. /\ PagingTypeOK /\ WalkInv /\ NumberInv
      /\ entry \in [Ids -> Entry] /\ visits \in [Ids -> Nat] /\ walk \in Walk
      /\ stayed \subseteq Here /\ Here \subseteq Ids
  BY DEF PagingInv, PagingTypeOK, Here
<1>2. PICK A \in Prefixes(Skip), B \in Prefixes(Skip + Limit) :
           /\ A \subseteq B
           /\ Shown(B \ A)
           /\ happened' = IF Tied(A) \/ Tied(B) THEN happened \cup {"tied"} ELSE happened
  BY DEF FindAll
<1>3. /\ list.paging = "numbers" /\ walk.at = "going"
      /\ walk' = [walk EXCEPT !.at = "uncounted"]
      /\ UNCHANGED <<list, entry, changes, stayed>>
  BY DEF FindAll
<1>4. visits' = [i \in Ids |-> visits[i] + (IF i \in B \ A THEN 1 ELSE 0)]
  BY <1>2 DEF Shown
<1>5. visits' \in [Ids -> Nat] BY <1>1, <1>4
<1>6. walk.page \in Nat /\ walk.page > 0 /\ Limit \in Nat /\ Limit > 0
  BY <1>1, PageAssumption DEF Walk, WalkInv
<1>7. Skip \in Nat /\ Skip + Limit = walk.page * Limit
  <2>1. walk.page - 1 \in Nat BY <1>6
  <2>2. (walk.page - 1) * Limit \in Nat BY <1>6, <2>1
  <2>3. (walk.page - 1) * Limit + Limit = walk.page * Limit BY <1>6
  <2>4. QED BY <2>2, <2>3 DEF Skip
<1>8. Skip + Limit \in Nat BY <1>6, <1>7
<1>9. walk' \in Walk /\ walk'.at = "uncounted" /\ walk'.page = walk.page
  BY <1>1, <1>3 DEF Walk
<1>10. Here' = Here BY <1>3 DEF Here
<1>11. happened' \subseteq Happenings BY <1>1, <1>2 DEF PagingTypeOK, Happenings
<1>12. PagingTypeOK' BY <1>1, <1>3, <1>5, <1>9, <1>10, <1>11 DEF PagingTypeOK
<1>13. WalkInv' BY <1>1, <1>3, <1>9 DEF WalkInv
<1>14. PagesExplained' BY <1>9 DEF PagesExplained, EachRowOnce, PagesShift
<1>15. CursorInv' BY <1>9 DEF CursorInv
<1>16. Passed = Skip /\ Passed' = Skip + Limit
  BY <1>3, <1>7, <1>9 DEF Passed
<1>17. \A i \in Ids : entry[i].key \in Nat BY <1>1, RowsOrdered
<1>18. \A i \in Ids : Above(i)' = Above(i) /\ AtLeast(i)' = AtLeast(i)
  BY <1>3, <1>10 DEF Above, AtLeast
<1>19. \A i \in Ids : Above(i) \in SUBSET Ids /\ AtLeast(i) \in SUBSET Ids
  BY <1>1 DEF Above, AtLeast
<1>20. ASSUME happened' \cap {"gone", "moved", "tied"} = {}, NEW i \in stayed, visits'[i] = 0
       PROVE  Cardinality(Above(i)') >= Passed'
  <2>1. i \in Here /\ i \in Ids BY <1>1
  <2>2. visits[i] \in Nat /\ visits[i] = 0 /\ i \notin B \ A
    <3>1. visits[i] \in Nat BY <1>1, <2>1
    <3>2. visits'[i] = visits[i] + (IF i \in B \ A THEN 1 ELSE 0) BY <1>4, <2>1
    <3>3. QED BY <1>20, <3>1, <3>2
  <2>3. ~Tied(A) /\ ~Tied(B) /\ happened \cap {"gone", "moved", "tied"} = {}
    BY <1>2, <1>20
  <2>4. Cardinality(Above(i)) >= Skip
    BY <1>1, <1>3, <1>16, <1>20, <2>2, <2>3 DEF NumberInv
  <2>5. i \notin A
    <3> SUFFICES ASSUME i \in A PROVE FALSE OBVIOUS
    <3>1. Above(i) \subseteq A \ {i}
      BY <1>1, <1>2, <1>7, <1>17, <2>1, PrefixRows DEF Above
    <3>2. IsFiniteSet(A) /\ A \in SUBSET Ids /\ Cardinality(A) \in Nat /\ Cardinality(A) <= Skip
      BY <1>1, <1>2, <1>7, PrefixRows, RowsFinite
    <3>3. Cardinality(A \ {i}) = Cardinality(A) - 1 BY <3>2, FS_RemoveElement
    <3>4. A \ {i} \in SUBSET Ids BY <3>2
    <3>5. Cardinality(Above(i)) <= Cardinality(A \ {i}) /\ Cardinality(Above(i)) \in Nat
      BY <1>19, <2>1, <3>1, <3>4, RowsFinite
    <3>6. QED BY <1>7, <2>4, <3>2, <3>3, <3>5
  <2>6. i \notin B BY <2>2, <2>5
  <2>7. B # Here BY <2>1, <2>6
  <2>8. Cardinality(B) = Skip + Limit BY <1>1, <1>2, <1>8, <2>7, PrefixRows
  <2>9. B \subseteq Above(i)
    BY <1>1, <1>2, <1>8, <2>1, <2>3, <2>6, PrefixRows DEF Above
  <2>10. Cardinality(B) <= Cardinality(Above(i)) BY <1>19, <2>1, <2>9, RowsFinite
  <2>11. QED BY <1>16, <1>18, <2>1, <2>8, <2>10
<1>21. ASSUME happened' \cap {"came", "moved", "tied"} = {}, NEW i \in Ids
       PROVE  /\ visits'[i] <= 1
              /\ visits'[i] = 1 /\ entry'[i].here => Cardinality(AtLeast(i)') <= Passed'
  <2>1. ~Tied(A) /\ ~Tied(B) /\ happened \cap {"came", "moved", "tied"} = {}
    BY <1>2, <1>21
  <2>2. /\ visits[i] \in Nat /\ visits[i] <= 1
        /\ visits[i] = 1 /\ entry[i].here => Cardinality(AtLeast(i)) <= Skip
    BY <1>1, <1>3, <1>16, <2>1 DEF NumberInv
  <2>3. visits'[i] = visits[i] + (IF i \in B \ A THEN 1 ELSE 0) BY <1>4
  <2>4. Cardinality(AtLeast(i)) \in Nat BY <1>19, RowsFinite
  <2>5. CASE i \in B \ A
    <3>1. i \in Here /\ entry[i].here /\ A # Here
      BY <1>1, <1>2, <1>8, <2>5, PrefixRows DEF Here
    <3>2. visits[i] = 0
      <4> SUFFICES ASSUME visits[i] = 1 PROVE FALSE BY <2>2
      <4>1. A \cup {i} \subseteq AtLeast(i)
        BY <1>1, <1>2, <1>7, <1>17, <2>5, <3>1, PrefixRows DEF AtLeast
      <4>2. IsFiniteSet(A) /\ Cardinality(A) = Skip
        BY <1>1, <1>2, <1>7, <3>1, PrefixRows, RowsFinite
      <4>3. Cardinality(A \cup {i}) = Skip + 1 BY <2>5, <4>2, FS_AddElement
      <4>4. Cardinality(A \cup {i}) <= Cardinality(AtLeast(i)) BY <1>19, <4>1, RowsFinite
      <4>5. QED BY <1>7, <2>2, <2>4, <3>1, <4>3, <4>4
    <3>3. AtLeast(i) \subseteq B
      BY <1>1, <1>2, <1>8, <1>17, <2>1, <2>5, PrefixRows DEF AtLeast
    <3>4. Cardinality(B) \in Nat /\ Cardinality(B) <= Skip + Limit /\ B \in SUBSET Ids
      BY <1>1, <1>2, <1>8, PrefixRows
    <3>5. Cardinality(AtLeast(i)) <= Cardinality(B) BY <3>3, <3>4, RowsFinite
    <3>6. QED BY <1>8, <1>16, <1>18, <2>3, <2>4, <2>5, <3>2, <3>4, <3>5
  <2>6. CASE i \notin B \ A
    BY <1>3, <1>6, <1>7, <1>16, <1>18, <2>2, <2>3, <2>4, <2>6
  <2>7. QED BY <2>5, <2>6
<1>22. NumberInv' BY <1>3, <1>20, <1>21 DEF NumberInv
<1>23. QED BY <1>12, <1>13, <1>14, <1>15, <1>22 DEF PagingInv

\* The client learns how many pages there are: a row below the pages it has seen is a reason
\* for one more.
LEMMA CountPagesStep == ASSUME PagingInv, Count PROVE PagingInv'
<1>1. /\ PagingTypeOK /\ WalkInv /\ NumberInv
      /\ entry \in [Ids -> Entry] /\ visits \in [Ids -> Nat] /\ walk \in Walk
      /\ stayed \subseteq Here /\ Here \subseteq Ids
  BY DEF PagingInv, PagingTypeOK, Here
<1>2. /\ walk.at = "uncounted" /\ list.paging = "numbers"
      /\ walk' = IF walk.page >= TotalPages THEN [walk EXCEPT !.at = "over"]
                 ELSE [walk EXCEPT !.at = "going", !.page = @ + 1]
      /\ UNCHANGED <<list, entry, visits, changes, stayed, happened>>
  BY <1>1 DEF Count, WalkInv
<1>3. walk.page \in Nat /\ walk.page > 0 /\ Limit \in Nat /\ Limit > 0
  BY <1>1, PageAssumption DEF Walk, WalkInv
<1>4. Here' = Here BY <1>2 DEF Here
<1>5. \A i \in Ids : Above(i)' = Above(i) /\ AtLeast(i)' = AtLeast(i)
  BY <1>2, <1>4 DEF Above, AtLeast
<1>6. Passed = walk.page * Limit BY <1>2 DEF Passed
<1>7. CASE walk.page >= TotalPages
  <2>1. walk' \in Walk /\ walk'.at = "over" /\ walk'.page = walk.page
    BY <1>1, <1>2, <1>7 DEF Walk
  <2>2. Cardinality(Here) \in Nat /\ Cardinality(Here) <= walk.page * Limit
    <3>1. Cardinality(Here) \in Nat BY <1>1, RowsFinite
    <3>2. QED BY <1>3, <1>7, <3>1, PagesHoldAll DEF TotalPages
  <2>3. PagesShift'
    <3>1. ASSUME NEW i \in stayed, visits[i] = 0, happened \cap {"gone", "moved", "tied"} = {}
          PROVE  FALSE
      <4>1. Cardinality(Above(i)) >= walk.page * Limit
        BY <1>1, <1>2, <1>6, <3>1 DEF NumberInv
      <4>2. i \in Here /\ IsFiniteSet(Here) /\ Here \in SUBSET Ids BY <1>1, <3>1, RowsFinite
      <4>3. entry[i].key \in Nat BY <1>1, <4>2, RowsOrdered
      <4>4. Above(i) \subseteq Here \ {i} BY <4>3 DEF Above
      <4>5. Cardinality(Here \ {i}) = Cardinality(Here) - 1 BY <4>2, FS_RemoveElement
      <4>6. Here \ {i} \in SUBSET Ids BY <4>2
      <4>7. /\ Cardinality(Above(i)) <= Cardinality(Here \ {i})
            /\ Cardinality(Above(i)) \in Nat
        BY <4>4, <4>6, RowsFinite
      <4>8. walk.page * Limit \in Nat BY <1>3
      <4>9. QED BY <2>2, <4>1, <4>5, <4>7, <4>8
    <3>2. ASSUME NEW i \in Ids, visits[i] > 1, happened \cap {"came", "moved", "tied"} = {}
          PROVE  FALSE
      <4>1. visits[i] <= 1 BY <1>1, <1>2, <3>2 DEF NumberInv
      <4>2. visits[i] \in Nat BY <1>1
      <4>3. QED BY <3>2, <4>1, <4>2
    <3>3. QED BY <1>2, <3>1, <3>2 DEF PagesShift
  <2>4. EachRowOnce' BY <1>2 DEF EachRowOnce
  <2>5. PagingTypeOK' BY <1>1, <1>2, <1>4, <2>1 DEF PagingTypeOK
  <2>6. WalkInv' BY <1>1, <2>1 DEF WalkInv
  <2>7. CursorInv' /\ NumberInv' BY <2>1 DEF CursorInv, NumberInv
  <2>8. QED BY <2>3, <2>4, <2>5, <2>6, <2>7 DEF PagingInv, PagesExplained
<1>8. CASE ~(walk.page >= TotalPages)
  <2>1. /\ walk' \in Walk /\ walk'.at = "going" /\ walk'.page = walk.page + 1
    <3>1. walk' = [walk EXCEPT !.at = "going", !.page = walk.page + 1] BY <1>2, <1>8
    <3>2. walk.page + 1 \in Nat BY <1>3
    <3>3. walk = [at |-> walk.at, cursor |-> walk.cursor, page |-> walk.page]
          /\ walk.cursor \in Cursor \cup {NoCursor}
      BY <1>1 DEF Walk
    <3>4. walk' = [at |-> "going", cursor |-> walk.cursor, page |-> walk.page + 1]
      BY <3>1, <3>3
    <3>5. QED BY <3>2, <3>3, <3>4 DEF Walk
  <2>2. Passed' = walk.page * Limit
    <3>1. walk'.page - 1 = walk.page BY <1>3, <2>1
    <3>2. Skip' = (walk'.page - 1) * Limit BY DEF Skip
    <3>3. QED BY <2>1, <3>1, <3>2 DEF Passed
  <2>3. PagingTypeOK' BY <1>1, <1>2, <1>4, <2>1 DEF PagingTypeOK
  <2>4. WalkInv' BY <1>1, <1>3, <2>1 DEF WalkInv
  <2>5. PagesExplained' BY <2>1 DEF PagesExplained, EachRowOnce, PagesShift
  <2>6. CursorInv' BY <1>2 DEF CursorInv
  <2>7. NumberInv' BY <1>1, <1>2, <1>5, <1>6, <2>2 DEF NumberInv
  <2>8. QED BY <2>3, <2>4, <2>5, <2>6, <2>7 DEF PagingInv
<1>9. QED BY <1>7, <1>8

\* What a change of the table leaves alone.
LEMMA ChangeFacts ==
    ASSUME PagingInv, NEW what \in Happenings, Changing(what), NEW i \in Ids
    PROVE  /\ changes' \in 0..MaxChanges /\ happened' \subseteq Happenings
           /\ happened' = happened \cup {what}
           /\ UNCHANGED <<list, walk, visits>>
           /\ WalkInv' /\ PagesExplained'
           /\ Passed' = Passed
<1>1. /\ walk.at \in {"going", "uncounted"} /\ changes < MaxChanges /\ changes' = changes + 1
      /\ happened' = happened \cup {what} /\ UNCHANGED <<list, walk, visits>>
  BY DEF Changing
<1>2. changes' \in 0..MaxChanges /\ happened' \subseteq Happenings
  BY <1>1, SizesAssumption DEF PagingInv, PagingTypeOK
<1>3. WalkInv' BY <1>1 DEF PagingInv, WalkInv
<1>4. PagesExplained' BY <1>1 DEF PagesExplained, EachRowOnce, PagesShift
<1>5. Passed' = Passed BY <1>1 DEF Passed, Skip
<1>6. QED BY <1>1, <1>2, <1>3, <1>4, <1>5

\* The cursor is where it was: a row does not change its time or its id.
LEMMA CursorStays ==
    ASSUME PagingInv, UNCHANGED <<list, walk, visits>>, stayed' \subseteq stayed,
           happened \subseteq happened', \A i \in Ids : entry'[i].at = entry[i].at
    PROVE  CursorInv'
<1>1. \A c : Beyond(c)' = Beyond(c) BY DEF Beyond
<1>2. QED BY <1>1 DEF PagingInv, CursorInv

\* Rows come, go and move.
LEMMA TableSteps ==
    ASSUME PagingInv, NEW i \in Ids, Come(i) \/ Go(i) \/ Move(i)
    PROVE  PagingInv'
<1>1. /\ PagingTypeOK /\ NumberInv /\ entry \in [Ids -> Entry] /\ entry[i] \in Entry
      /\ stayed \subseteq Here /\ Here \subseteq Ids /\ visits \in [Ids -> Nat]
  BY DEF PagingInv, PagingTypeOK, Here
<1>2. "came" \in Happenings /\ "gone" \in Happenings /\ "moved" \in Happenings
  BY DEF Happenings
<1>3. CASE Come(i)
  <2>1. /\ Changing("came")
        /\ entry' = [entry EXCEPT ![i].here = TRUE] /\ stayed' = stayed
    BY <1>3 DEF Come
  <2>2. /\ changes' \in 0..MaxChanges /\ happened' \subseteq Happenings
        /\ happened' = happened \cup {"came"}
        /\ UNCHANGED <<list, walk, visits>>
        /\ WalkInv' /\ PagesExplained' /\ Passed' = Passed
    BY <1>2, <2>1, ChangeFacts
  <2>3. /\ entry' \in [Ids -> Entry]
        /\ \A j \in Ids : entry'[j].at = entry[j].at /\ entry'[j].key = entry[j].key
        /\ \A j \in Ids : entry[j].here => entry'[j].here
    BY <1>1, <2>1 DEF Entry
  <2>4. Here \subseteq Here' BY <2>3 DEF Here
  <2>5. PagingTypeOK' BY <1>1, <2>1, <2>2, <2>3, <2>4 DEF PagingTypeOK
  <2>6. CursorInv' BY <2>1, <2>2, <2>3, CursorStays
  <2>7. ASSUME happened' \cap {"gone", "moved", "tied"} = {}, NEW j \in stayed, visits[j] = 0,
               list.paging = "numbers", walk.at \in {"going", "uncounted"}
        PROVE  Cardinality(Above(j)') >= Passed
    <3>1. Cardinality(Above(j)) >= Passed BY <1>1, <2>2, <2>7 DEF NumberInv
    <3>2. Above(j) \subseteq Above(j)' BY <1>1, <2>3, <2>4, <2>7 DEF Above, Here
    <3>3. Above(j)' \in SUBSET Ids BY DEF Above, Here
    <3>4. /\ Cardinality(Above(j)) <= Cardinality(Above(j)')
          /\ Cardinality(Above(j)) \in Nat /\ Cardinality(Above(j)') \in Nat
      BY <3>2, <3>3, RowsFinite
    <3>5. Passed \in Int BY <1>1, PageAssumption DEF Passed, Skip, PagingTypeOK, Walk
    <3>6. QED BY <3>1, <3>4, <3>5
  <2>8. NumberInv' BY <2>1, <2>2, <2>7 DEF NumberInv
  <2>9. QED BY <2>2, <2>5, <2>6, <2>8 DEF PagingInv
<1>4. CASE Go(i)
  <2>1. /\ Changing("gone")
        /\ entry' = [entry EXCEPT ![i].here = FALSE] /\ stayed' = stayed \ {i}
    BY <1>4 DEF Go
  <2>2. /\ changes' \in 0..MaxChanges /\ happened' \subseteq Happenings
        /\ happened' = happened \cup {"gone"}
        /\ UNCHANGED <<list, walk, visits>>
        /\ WalkInv' /\ PagesExplained' /\ Passed' = Passed
    BY <1>2, <2>1, ChangeFacts
  <2>3. /\ entry' \in [Ids -> Entry]
        /\ \A j \in Ids : entry'[j].at = entry[j].at /\ entry'[j].key = entry[j].key
        /\ \A j \in Ids : entry'[j].here => entry[j].here
        /\ \A j \in Ids \ {i} : entry'[j].here = entry[j].here
    BY <1>1, <2>1 DEF Entry
  <2>4. Here' \subseteq Here /\ stayed' \subseteq Here' BY <1>1, <2>1, <2>3 DEF Here
  <2>5. PagingTypeOK' BY <1>1, <2>1, <2>2, <2>3, <2>4 DEF PagingTypeOK
  <2>6. CursorInv' BY <2>1, <2>2, <2>3, CursorStays
  <2>7. ASSUME happened' \cap {"came", "moved", "tied"} = {}, NEW j \in Ids,
               list.paging = "numbers", walk.at \in {"going", "uncounted"}
        PROVE  /\ visits[j] <= 1
               /\ visits[j] = 1 /\ entry'[j].here => Cardinality(AtLeast(j)') <= Passed
    <3>1. /\ visits[j] <= 1
          /\ visits[j] = 1 /\ entry[j].here => Cardinality(AtLeast(j)) <= Passed
      BY <1>1, <2>2, <2>7 DEF NumberInv
    <3>2. AtLeast(j)' \subseteq AtLeast(j) BY <2>3, <2>4, <2>7 DEF AtLeast, Here
    <3>3. AtLeast(j) \in SUBSET Ids BY DEF AtLeast, Here
    <3>4. /\ Cardinality(AtLeast(j)') <= Cardinality(AtLeast(j))
          /\ Cardinality(AtLeast(j)) \in Nat /\ Cardinality(AtLeast(j)') \in Nat
      BY <3>2, <3>3, RowsFinite
    <3>5. Passed \in Int BY <1>1, PageAssumption DEF Passed, Skip, PagingTypeOK, Walk
    <3>6. QED BY <2>3, <2>7, <3>1, <3>4, <3>5
  <2>8. NumberInv' BY <2>1, <2>2, <2>7 DEF NumberInv
  <2>9. QED BY <2>2, <2>5, <2>6, <2>8 DEF PagingInv
<1>5. CASE Move(i)
  <2>1. PICK k \in Keys :
            /\ Changing("moved") /\ entry' = [entry EXCEPT ![i].key = k] /\ stayed' = stayed
    BY <1>5 DEF Move
  <2>2. /\ changes' \in 0..MaxChanges /\ happened' \subseteq Happenings
        /\ happened' = happened \cup {"moved"}
        /\ UNCHANGED <<list, walk, visits>>
        /\ WalkInv' /\ PagesExplained' /\ Passed' = Passed
    BY <1>2, <2>1, ChangeFacts
  <2>3. /\ entry' \in [Ids -> Entry]
        /\ \A j \in Ids : entry'[j].at = entry[j].at /\ entry'[j].here = entry[j].here
    BY <1>1, <2>1 DEF Entry
  <2>4. Here' = Here BY <2>3 DEF Here
  <2>5. PagingTypeOK' BY <1>1, <2>1, <2>2, <2>3, <2>4 DEF PagingTypeOK
  <2>6. CursorInv' BY <2>1, <2>2, <2>3, CursorStays
  <2>7. NumberInv' BY <2>2 DEF NumberInv
  <2>8. QED BY <2>2, <2>5, <2>6, <2>7 DEF PagingInv
<1>6. QED BY <1>3, <1>4, <1>5

\* Every step of a walk and of the table.
LEMMA NextPagingInv == PagingInv /\ [PagingNext]_pagingVars => PagingInv'
<1> SUFFICES ASSUME PagingInv, [PagingNext]_pagingVars PROVE PagingInv' OBVIOUS
<1>1. CASE UNCHANGED pagingVars
  BY <1>1 DEF pagingVars, PagingInv, PagingTypeOK, PagesExplained, EachRowOnce, PagesShift,
              WalkInv, CursorInv, NumberInv, Beyond, Above, AtLeast, Passed, Skip, Here
<1>2. CASE PagingNext
  BY <1>2, OpenStep, CloseStep, CursorStep, FindAllStep, CountPagesStep, TableSteps
     DEF PagingNext
<1>3. QED BY <1>1, <1>2

\* The inductive invariant of the lists.
THEOREM PagingInvariance == PagingSpec => []PagingInv
BY InitPagingInv, NextPagingInv, PTL DEF PagingSpec

\* For any number of rows, of rows to a page and of changes, a client that has followed the
\* cursors or turned the pages to the end has seen each row that stayed, and once, unless one
\* of the named reasons stood against it (paginateCursor, findAll).
THEOREM PagesAreExplained == PagingSpec => []PagesExplained
<1>1. PagingInv => PagesExplained BY DEF PagingInv
<1>2. QED BY <1>1, PagingInvariance, PTL

-----------------------------------------------------------------------------
(* The three side by side.                                                 *)

\* The types of conversations, walks and articles hold whichever of the three parts the
\* behaviour is about.
THEOREM TypesHold == AllSpec => []TypesOK
<1> DEFINE Step == [Talking \/ Leafing \/ Publishing \/ AllGone]_allVars
           Inv  == IInv /\ PagingInv /\ ContentInv
<1>1. AllInit => Inv
  BY InitIInv, InitPagingInv, InitContentInv DEF AllInit
<1>2. Inv /\ Step => Inv'
  <2>1. Step => [Next]_vars /\ [PagingNext]_pagingVars /\ [ContentNext]_contentVars
    BY DEF Talking, Leafing, Publishing, AllGone, allVars
  <2>2. QED
    BY <2>1, NextIInv, NextPagingInv, NextContentInv
<1>3. Inv => TypesOK
  BY DEF IInv, PagingInv, ContentInv, TypesOK
<1>4. QED
  BY <1>1, <1>2, <1>3, PTL DEF AllSpec

=============================================================================
