--------------------------- MODULE Conversations ---------------------------
(***************************************************************************)
(* A conversation between two users (conversations.service.ts): its        *)
(* creation, the messages sent in it, the unread count it keeps for each   *)
(* participant, and its pointer to the last message.                       *)
(*                                                                         *)
(* Sending is an INSERT of the message and then an UPDATE of the           *)
(* conversation; reading is a SELECT of the conversation and then, if it   *)
(* showed something unread, an UPDATE.  No two of these are in one         *)
(* transaction.  Handlers touch one conversation, so the module has one.   *)
(* A message is its number in the order of creation.                       *)
(***************************************************************************)
EXTENDS Integers, FiniteSets

CONSTANTS
    One, Two,      \* the participants: participantOneId < participantTwoId
    MaxMessages,   \* bound: messages ever sent
    Requests,      \* requests that can be in flight at once
    MaxFailures    \* bound: requests that fail between two of their statements

ASSUME ParticipantsAssumption == One # Two
ASSUME BoundsAssumption == MaxMessages \in Nat \ {0} /\ MaxFailures \in Nat

VARIABLES
    exists,     \* the conversations table has the row of this pair
    sender,     \* the messages table: who sent each message
    sent,       \* how many messages have been inserted
    last,       \* conversation.lastMessageId, 0 for null
    unread,     \* unreadCountOne and unreadCountTwo, by participant
    slot,       \* the handler each request has in flight
    failures,   \* requests that have failed
    counted,    \* history: the messages whose handler has updated the conversation
    seen,       \* history: the messages there were when a participant last read
    miscounted, \* history: participants whose count is not proof against what happened
    overtaken   \* history: an UPDATE of a newer message came before an older one's

vars == <<exists, sender, sent, last, unread, slot, failures, counted, seen, miscounted, overtaken>>

Participants == {One, Two}
Messages     == 1..MaxMessages

Other(u) == IF u = One THEN Two ELSE One

Slot == [op : {"none", "create", "send", "read"}, user : Participants, message : 0..MaxMessages]

Idle == [op |-> "none", user |-> One, message |-> 0]

\* What a participant has been sent since the last time they read.
Pending(u) == {m \in 1..sent : sender[m] = Other(u) /\ m \notin seen[u]}

\* A reader is between the SELECT and the UPDATE of markAsRead.
Reading(u) == \E r \in Requests : slot[r].op = "read" /\ slot[r].user = u

Init ==
    /\ exists     = FALSE
    /\ sender     = [m \in Messages |-> One]
    /\ sent       = 0
    /\ last       = 0
    /\ unread     = [u \in Participants |-> 0]
    /\ slot       = [r \in Requests |-> Idle]
    /\ failures   = 0
    /\ counted    = {}
    /\ seen       = [u \in Participants |-> {}]
    /\ miscounted = {}
    /\ overtaken  = FALSE

Start(r, op, u, m) ==
    /\ slot[r] = Idle
    /\ slot' = [slot EXCEPT ![r] = [op |-> op, user |-> u, message |-> m]]

Done(r) == slot' = [slot EXCEPT ![r] = Idle]

-----------------------------------------------------------------------------
\* getOrCreateConversation finds no row for the pair ...
GetOrCreateConversation(r, u) ==
    /\ ~exists
    /\ Start(r, "create", u, 0)
    /\ UNCHANGED <<exists, sender, sent, last, unread, failures, counted, seen, miscounted, overtaken>>

\* Mutant of InsertConversation: the row is saved over the one that is there.
MutInsertOver(r) ==
    /\ slot[r].op = "create"
    /\ exists' = TRUE
    /\ last' = 0
    /\ unread' = [u \in Participants |-> 0]
    /\ Done(r)
    /\ UNCHANGED <<sender, sent, failures, counted, seen, miscounted, overtaken>>

\* ... and inserts one.  The unique index on the pair refuses a second one: the handler
\* throws, and the row that is there stays as it is.
InsertConversation(r) ==
    /\ slot[r].op = "create"
    /\ exists' = TRUE
    /\ IF exists THEN UNCHANGED <<last, unread>>
                 ELSE last' = 0 /\ unread' = [u \in Participants |-> 0]
    /\ Done(r)
    /\ UNCHANGED <<sender, sent, failures, counted, seen, miscounted, overtaken>>

\* sendMessage first inserts the message ...
SendMessage(r, u) ==
    /\ exists /\ sent < MaxMessages
    /\ Start(r, "send", u, sent + 1)
    /\ sent' = sent + 1
    /\ sender' = [sender EXCEPT ![sent + 1] = u]
    /\ UNCHANGED <<exists, last, unread, failures, counted, seen, miscounted, overtaken>>

\* Mutant of CountMessage: the pointer goes one message too far.
MutCountNext(r) ==
    LET m == slot[r].message
        u == Other(slot[r].user)
    IN  /\ slot[r].op = "send"
        /\ last' = m + 1
        /\ unread' = [unread EXCEPT ![u] = @ + 1]
        /\ miscounted' = IF m \in seen[u] THEN miscounted \cup {u} ELSE miscounted
        /\ counted' = counted \cup {m}
        /\ overtaken' = (\E k \in counted : k > m)
        /\ Done(r)
        /\ UNCHANGED <<exists, sender, sent, failures, seen>>

\* ... and then updates the conversation: the last message is this one, and the other
\* participant's count grows by one inside the database.  If they have read meanwhile,
\* the message is counted although it was there to be seen.
CountMessage(r) ==
    LET m == slot[r].message
        u == Other(slot[r].user)
    IN  /\ slot[r].op = "send"
        /\ last' = m
        /\ unread' = [unread EXCEPT ![u] = @ + 1]
        /\ miscounted' = IF m \in seen[u] THEN miscounted \cup {u} ELSE miscounted
        /\ counted' = counted \cup {m}
        /\ overtaken' = (\E k \in counted : k > m)
        /\ Done(r)
        /\ UNCHANGED <<exists, sender, sent, failures, seen>>

\* markAsRead loads the conversation and does nothing more if its reader's count is 0.
MarkAsRead(r, u) ==
    /\ exists
    /\ seen' = [seen EXCEPT ![u] = 1..sent]
    /\ IF unread[u] = 0
         THEN /\ slot[r] = Idle
              /\ miscounted' = miscounted \ {u}
              /\ UNCHANGED slot
         ELSE /\ Start(r, "read", u, 0)
              /\ UNCHANGED miscounted
    /\ UNCHANGED <<exists, sender, sent, last, unread, failures, counted, overtaken>>

\* Mutant of ResetUnread: the other participant's count is reset as well.
MutResetBoth(r) ==
    LET u == slot[r].user
    IN  /\ slot[r].op = "read"
        /\ unread' = [v \in Participants |-> 0]
        /\ miscounted' = IF Pending(u) \cap counted = {} THEN miscounted \ {u}
                                                         ELSE miscounted \cup {u}
        /\ Done(r)
        /\ UNCHANGED <<exists, sender, sent, last, failures, counted, seen, overtaken>>

\* Otherwise it sets the count to 0, whatever it has become since.  A message counted in
\* between is no longer shown as unread.
ResetUnread(r) ==
    LET u == slot[r].user
    IN  /\ slot[r].op = "read"
        /\ unread' = [unread EXCEPT ![u] = 0]
        /\ miscounted' = IF Pending(u) \cap counted = {} THEN miscounted \ {u}
                                                         ELSE miscounted \cup {u}
        /\ Done(r)
        /\ UNCHANGED <<exists, sender, sent, last, failures, counted, seen, overtaken>>

\* An error or a restart between the two statements: a message that is never counted and
\* never the last one, or a count that is not reset although its reader has read.
Fail(r) ==
    /\ slot[r] # Idle
    /\ failures < MaxFailures
    /\ failures' = failures + 1
    /\ miscounted' = IF slot[r].op = "read" THEN miscounted \cup {slot[r].user} ELSE miscounted
    /\ Done(r)
    /\ UNCHANGED <<exists, sender, sent, last, unread, counted, seen, overtaken>>

Next == \E r \in Requests :
            \/ \E u \in Participants : \/ GetOrCreateConversation(r, u)
                                       \/ SendMessage(r, u) \/ MarkAsRead(r, u)
            \/ InsertConversation(r) \/ CountMessage(r) \/ ResetUnread(r) \/ Fail(r)

Spec == Init /\ [][Next]_vars

-----------------------------------------------------------------------------
(* Correctness.                                                            *)

\* The type invariant.
TypeOK ==
    /\ exists \in BOOLEAN
    /\ sender \in [Messages -> Participants]
    /\ sent \in 0..MaxMessages
    /\ last \in 0..MaxMessages
    /\ unread \in [Participants -> Nat]
    /\ slot \in [Requests -> Slot]
    /\ failures \in 0..MaxFailures
    /\ counted \in SUBSET Messages
    /\ seen \in [Participants -> SUBSET Messages]
    /\ miscounted \in SUBSET Participants
    /\ overtaken \in BOOLEAN

\* A participant's unread count is the number of messages sent to them since they last
\* read and whose handler has come to its UPDATE, whatever overlaps, except after one of
\* these (until a later read finds or leaves the count right): a message counted between
\* the two statements of their markAsRead, or inserted before it and counted after it, or
\* a failure between those two (sendMessage, markAsRead).
UnreadCountExplained ==
    \A u \in Participants :
        u \in miscounted \/ Reading(u) \/ unread[u] = Cardinality(Pending(u) \cap counted)

\* The conversation list shows and sorts by the last message: it is the newest of those
\* whose handler has come to its UPDATE, unless that of an older message came later, and
\* until the next message (sendMessage, findMyConversations).
LastMessageIsNewest ==
    \/ overtaken
    \/ counted = {} /\ last = 0
    \/ last \in counted /\ \A m \in counted : m <= last

=============================================================================
