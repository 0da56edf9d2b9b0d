-------------------------- MODULE Accounts_proofs --------------------------
(***************************************************************************)
(* Proofs about Accounts, for any users, addresses, statuses and bounds    *)
(* and any number of requests in flight.                                   *)
(***************************************************************************)
EXTENDS Accounts, FiniteSetTheorems, TLAPS

\* The columns a handler will write.
Holds(s) == IF s.at = "selected" THEN s.dirty ELSE Carried(s.op)

\* What is known of a handler: only what it will write is in its entity, and its user is
\* stored, unless it is about to be.
SlotOK(r, s) ==
    /\ s.at = "idle" => s = Idle
    /\ s.at # "idle" =>
           /\ s.of \in Users /\ s.op \in Ops
           /\ \A c \in Columns \ Holds(s) : s.entity[c] = NoRow[c]
           /\ "status" \in Holds(s) => s.entity.status # "none"
           /\ "email" \in Holds(s) => s.entity.email \in Emails
           /\ "pw" \in Holds(s) => s.entity.pw # 0
    /\ s.at = "new" =>
           /\ s.op = "create" /\ row[s.of].status = "none"
           /\ \A q \in Requests \ {r} : slot[q].of # s.of
           /\ s.entity.status = "pending_verification"
           /\ s.entity.pending = NoEmail /\ s.entity.pcode = NoEmail
           /\ s.entity.vcode = NoEmail
    /\ s.at = "checking" => s.op \in {"requestEmailChange", "confirmEmailChange"}
    /\ s.at \in {"checking", "loaded", "selected"} => row[s.of].status # "none"
    /\ s.at = "selected" => /\ s.dirty \subseteq Carried(s.op)
                            /\ Carried(s.op) \cap Hidden \subseteq s.dirty

SlotInv == \A r \in Requests : SlotOK(r, slot[r])

\* A user that is not stored has no row and no token.
StoredInv == \A u \in Users : row[u].status = "none" => row[u] = NoRow /\ u \notin entered

\* The handlers that will make a code have one left.
Making   == {q \in Requests : MakesCode(slot[q])}
CodesInv == codes + Cardinality(Making) <= MaxCodes

\* Only who may open a shut account has it as active.
ShutInv ==
    \A u \in closed :
        /\ row[u].status # "active"
        /\ \A q \in Requests : slot[q].of = u /\ slot[q].entity.status = "active"
                                 => slot[q].op \in {"verify", "updateStatus"}

\* A login in flight has the password that is in force.
PasswordInv ==
    \A u \in Users : held[u] # 0 =>
        /\ row[u].pw = held[u]
        /\ \A q \in Requests : slot[q].of = u /\ slot[q].op = "login" => slot[q].entity.pw = held[u]

\* The handler carries the pending address, and does not ask for another.
Bears(op) == MovesPending(op) /\ op # "requestEmailChange"

\* Address f is the only pending one, in the row and in the handlers that bear it and have
\* not met a request for another.
OneAddress(u, f) ==
    /\ row[u].pending \in {f, NoEmail} /\ row[u].pcode \in {f, NoEmail}
    /\ \A q \in Requests :
          slot[q].of = u /\ slot[q].alone /\ Bears(slot[q].op)
             => slot[q].entity.pending \in {f, NoEmail} /\ slot[q].entity.pcode \in {f, NoEmail}

\* The pending address and its code are of one request.
PendingInv == \A u \in Users \ crossed : \E f \in Emails \cup {NoEmail} : OneAddress(u, f)

\* A request for another address that has been alone will write it with its code.
AloneOK(r, s) ==
    /\ \A q \in Others(r, s.of) : ~MovesPending(slot[q].op)
    /\ s.at = "loaded" => s.entity.pending = s.entity.pcode
    /\ s.at = "selected" => Written(s).pending = Written(s).pcode

AloneInv ==
    \A r \in Requests :
        slot[r].at # "idle" /\ slot[r].alone /\ slot[r].op = "requestEmailChange"
           => AloneOK(r, slot[r])

\* A stored user whose address is not accounted for.
Fresh(u) == row[u].status # "none" /\ <<u, row[u].email>> \notin accounted

\* The handlers there can be of such a user.
FreshSlot(u, s) ==
    /\ s.op \in {"create", "register", "resendVerification", "resetPassword", "updateStatus"}
    /\ s.entity.email \in {NoEmail, row[u].email}
    /\ s.entity.status = "active" => s.op = "updateStatus"
    /\ s.entity.vcode \in {NoEmail, row[u].email}
    /\ s.entity.pending = NoEmail

\* Such a user has never been active, and has no other address.
FreshOK(u) ==
    /\ row[u].status # "active" /\ u \notin entered
    /\ row[u].vcode \in {NoEmail, row[u].email} /\ row[u].pending = NoEmail
    /\ \A q \in Requests : slot[q].of = u => FreshSlot(u, slot[q])

FreshInv == \A u \in Users : Fresh(u) => FreshOK(u)

\* Of the others every address a handler will write is accounted for.
ProvedOK(u) ==
    \A q \in Requests : slot[q].of = u /\ slot[q].entity.email # NoEmail
                          => <<u, slot[q].entity.email>> \in accounted

ProvedInv == \A u \in Users : row[u].status # "none" /\ ~Fresh(u) => ProvedOK(u)

IInv == /\ TypeOK /\ SlotInv /\ StoredInv /\ CodesInv
        /\ ShutInv /\ PasswordInv /\ PendingInv /\ AloneInv /\ FreshInv /\ ProvedInv

-----------------------------------------------------------------------------
\* Which columns the handlers carry.
LEMMA CarriedColumns ==
    /\ \A op : Carried(op) \subseteq Columns
    /\ \A op \in Ops : "email" \in Carried(op)
    /\ \A op \in Ops : "status" \in Carried(op) <=>
          op \notin {"resendEmailConfirmation", "cancelEmailChange", "confirmEmailChange"}
    /\ \A op \in Ops : "pw" \in Carried(op) <=>
          op \in {"create", "login", "changePassword", "register", "resetPassword"}
    /\ \A op \in Ops : "pending" \in Carried(op) <=>
          op \notin {"resendVerification", "verify", "forgotPassword", "resetPassword"}
    /\ \A op \in Ops : "pcode" \in Carried(op) <=>
          op \in {"create", "requestEmailChange", "resendEmailConfirmation",
                  "cancelEmailChange", "confirmEmailChange"}
    /\ \A op \in Ops : "vcode" \in Carried(op) <=>
          op \in {"create", "register", "resendVerification", "verify"}
<1>1. \A op : Carried(op) \subseteq Columns BY DEF Carried, Columns, Visible
<1>2. \A op \in Ops : "email" \in Carried(op) BY DEF Ops, Carried, Columns, Visible
<1>3. \A op \in Ops : "status" \in Carried(op) <=>
          op \notin {"resendEmailConfirmation", "cancelEmailChange", "confirmEmailChange"}
  BY DEF Ops, Carried, Columns, Visible
<1>4. \A op \in Ops : "pw" \in Carried(op) <=>
          op \in {"create", "login", "changePassword", "register", "resetPassword"}
  BY DEF Ops, Carried, Columns, Visible
<1>5. \A op \in Ops : "pending" \in Carried(op) <=>
          op \notin {"resendVerification", "verify", "forgotPassword", "resetPassword"}
  BY DEF Ops, Carried, Columns, Visible
<1>6. \A op \in Ops : "pcode" \in Carried(op) <=>
          op \in {"create", "requestEmailChange", "resendEmailConfirmation",
                  "cancelEmailChange", "confirmEmailChange"}
  BY DEF Ops, Carried, Columns, Visible
<1>7. \A op \in Ops : "vcode" \in Carried(op) <=>
          op \in {"create", "register", "resendVerification", "verify"}
  BY DEF Ops, Carried, Columns, Visible
<1>8. QED BY <1>1, <1>2, <1>3, <1>4, <1>5, <1>6, <1>7

\* A row some of whose columns come from another one is a row.
LEMMA MixedRow ==
    ASSUME NEW a \in Row, NEW b \in Row, NEW C
    PROVE  LET x == [c \in Columns |-> IF c \in C THEN a[c] ELSE b[c]]
           IN  /\ x \in Row
               /\ \A c \in Columns : x[c] = IF c \in C THEN a[c] ELSE b[c]
               /\ x.status = IF "status" \in C THEN a.status ELSE b.status
               /\ x.email = IF "email" \in C THEN a.email ELSE b.email
               /\ x.pw = IF "pw" \in C THEN a.pw ELSE b.pw
               /\ x.pending = IF "pending" \in C THEN a.pending ELSE b.pending
               /\ x.pcode = IF "pcode" \in C THEN a.pcode ELSE b.pcode
               /\ x.vcode = IF "vcode" \in C THEN a.vcode ELSE b.vcode
BY DEF Row, Columns

\* No row and no handler.
LEMMA Nothing ==
    /\ NoRow \in Row /\ NoRow.status = "none" /\ NoRow.email = NoEmail /\ NoRow.pw = 0
    /\ NoRow.pending = NoEmail /\ NoRow.pcode = NoEmail /\ NoRow.vcode = NoEmail
    /\ Idle \in Slot /\ Idle.at = "idle" /\ Idle.of = NoUser /\ Idle.op = "none"
    /\ Idle.entity = NoRow
    /\ NoUser \notin Users /\ NoEmail \notin Emails
<1>1. NoRow \in Row BY BoundsAssumption DEF NoRow, Row
<1>2. NoRow.status = "none" /\ NoRow.email = NoEmail /\ NoRow.pw = 0
      /\ NoRow.pending = NoEmail /\ NoRow.pcode = NoEmail /\ NoRow.vcode = NoEmail
  BY DEF NoRow
<1>3. Idle \in Slot BY <1>1 DEF Idle, Slot
<1>4. Idle.at = "idle" /\ Idle.of = NoUser /\ Idle.op = "none" /\ Idle.entity = NoRow
  BY DEF Idle
<1>5. QED BY <1>1, <1>2, <1>3, <1>4, NullsAssumption

\* The handlers that make a code, when one handler goes on.
LEMMA MakingCount ==
    ASSUME NEW r \in Requests, \A q \in Requests \ {r} : MakesCode(slot[q])' <=> MakesCode(slot[q])
    PROVE  /\ Cardinality(Making) \in Nat /\ Cardinality(Making') \in Nat
           /\ ~MakesCode(slot[r])' => Cardinality(Making') <= Cardinality(Making)
           /\ MakesCode(slot[r])' => Cardinality(Making') <= Cardinality(Making) + 1
           /\ MakesCode(slot[r]) /\ ~MakesCode(slot[r])'
                => Cardinality(Making') = Cardinality(Making) - 1
<1>1. IsFiniteSet(Making) /\ IsFiniteSet(Making')
  <2>1. Making \subseteq Requests /\ Making' \subseteq Requests BY DEF Making
  <2>2. QED BY <2>1, RequestsAssumption, FS_Subset
<1>2. Cardinality(Making) \in Nat /\ Cardinality(Making') \in Nat BY <1>1, FS_CardinalityType
<1>3. Making' = IF MakesCode(slot[r])' THEN Making \cup {r} ELSE Making \ {r}
  BY DEF Making
<1>4. /\ Cardinality(Making \cup {r}) = IF r \in Making THEN Cardinality(Making)
                                        ELSE Cardinality(Making) + 1
      /\ Cardinality(Making \ {r}) = IF r \in Making THEN Cardinality(Making) - 1
                                     ELSE Cardinality(Making)
  BY <1>1, FS_AddElement, FS_RemoveElement
<1>5. r \in Making <=> MakesCode(slot[r]) BY DEF Making
<1>6. QED BY <1>2, <1>3, <1>4, <1>5

\* Before anybody has registered.
LEMMA InitIInv == Init => IInv
<1> SUFFICES ASSUME Init PROVE IInv OBVIOUS
<1>1. /\ row = [u \in Users |-> NoRow] /\ slot = [r \in Requests |-> Idle]
      /\ entered = {} /\ codes = 0 /\ passwords = 0 /\ failures = 0
      /\ accounted = {} /\ crossed = {} /\ held = [u \in Users |-> 0] /\ closed = {}
  BY DEF Init
<1>2. TypeOK BY <1>1, Nothing, BoundsAssumption DEF TypeOK
<1>3. SlotInv BY <1>1, Nothing DEF SlotInv, SlotOK
<1>4. StoredInv BY <1>1 DEF StoredInv
<1>5. CodesInv
  <2>1. Making = {} BY <1>1, Nothing DEF Making, MakesCode
  <2>2. QED BY <1>1, <2>1, FS_EmptySet, BoundsAssumption DEF CodesInv
<1>6. ShutInv /\ PasswordInv BY <1>1 DEF ShutInv, PasswordInv
<1>7. PendingInv BY <1>1, Nothing DEF PendingInv, OneAddress
<1>8. AloneInv BY <1>1, Nothing DEF AloneInv
<1>9. FreshInv /\ ProvedInv BY <1>1, Nothing DEF FreshInv, ProvedInv, Fresh
<1>10. QED BY <1>2, <1>3, <1>4, <1>5, <1>6, <1>7, <1>8, <1>9 DEF IInv

-----------------------------------------------------------------------------
\* A handler that is where it was, and perhaps no longer alone.
Same(q) == \/ slot'[q] = slot[q]
           \/ slot[q].at # "idle" /\ slot'[q] = [slot[q] EXCEPT !.alone = FALSE]

\* What is asked of handler s of user u, which has just come to where it is.
Arrives(r, u, s) ==
    /\ s.of = u /\ s.at # "idle"
    /\ SlotOK(r, s)
    /\ \A q \in Requests \ {r} : slot[q].at = "new" => slot[q].of # u
    /\ u \in closed /\ s.entity.status = "active" => s.op \in {"verify", "updateStatus"}
    /\ held[u] # 0 /\ s.op = "login" => s.entity.pw = held[u]
    /\ s.alone /\ s.op = "requestEmailChange" => AloneOK(r, s)
    /\ MovesPending(s.op) =>
           \A q \in Others(r, u) : slot[q].op = "requestEmailChange" => ~slot[q].alone
    /\ Fresh(u) => FreshSlot(u, s)
    /\ row[u].status # "none" /\ ~Fresh(u) /\ s.entity.email # NoEmail
           => <<u, s.entity.email>> \in accounted

\* While the rows stay as they are, the invariant stays as it is for all but the handler
\* that goes on.
LEMMA RowsKept ==
    ASSUME IInv, NEW r \in Requests, NEW u \in Users, NEW s \in Slot,
           slot'[r] = s, slot' \in [Requests -> Slot], \A q \in Requests \ {r} : Same(q),
           UNCHANGED <<row, entered, crossed, held, closed>>,
           codes' \in 0..MaxCodes, passwords' \in 0..MaxPasswords, failures' \in 0..MaxFailures,
           CodesInv',
           accounted' \in SUBSET (Users \X Emails), accounted \subseteq accounted',
           \A v \in Users \ {u} : \A e : <<v, e>> \in accounted' => <<v, e>> \in accounted,
           s = Idle \/ Arrives(r, u, s)',
           \A f : s # Idle /\ s.alone /\ Bears(s.op) /\ OneAddress(u, f)
                    => s.entity.pending \in {f, NoEmail} /\ s.entity.pcode \in {f, NoEmail}
    PROVE  IInv'
<1>1. TypeOK /\ slot \in [Requests -> Slot] /\ row \in [Users -> Row]
  BY DEF IInv, TypeOK
<1>2. TypeOK' BY <1>1 DEF TypeOK
<1>3. Idle.at = "idle" /\ Idle.of \notin Users /\ Idle.entity.status # "active"
      /\ Idle.op # "login"
  BY Nothing
<1>4. \A q \in Requests \ {r} : /\ slot'[q].at = slot[q].at /\ slot'[q].op = slot[q].op
                                /\ slot'[q].of = slot[q].of
                                /\ slot'[q].entity = slot[q].entity
                                /\ slot'[q].dirty = slot[q].dirty
                                /\ slot'[q].alone => slot[q].alone
                                /\ slot[q].at = "idle" => slot'[q] = slot[q]
  <2> SUFFICES ASSUME NEW q \in Requests \ {r}
               PROVE  /\ slot'[q].at = slot[q].at /\ slot'[q].op = slot[q].op
                      /\ slot'[q].of = slot[q].of
                      /\ slot'[q].entity = slot[q].entity
                      /\ slot'[q].dirty = slot[q].dirty
                      /\ slot'[q].alone => slot[q].alone
                      /\ slot[q].at = "idle" => slot'[q] = slot[q]
    OBVIOUS
  <2>1. slot[q] \in Slot /\ Same(q) BY <1>1
  <2>2. QED BY <2>1 DEF Same, Slot
<1>5. SlotInv'
  <2> SUFFICES ASSUME NEW q \in Requests PROVE SlotOK(q, slot[q])' BY DEF SlotInv
  <2>1. CASE q = r /\ s = Idle
    BY <1>3, <2>1 DEF SlotOK
  <2>2. CASE q = r /\ s # Idle
    BY <2>2 DEF Arrives
  <2>3. CASE q # r
    <3>1. SlotOK(q, slot[q]) BY DEF IInv, SlotInv
    <3>2. slot'[q].at = "idle" => slot'[q] = Idle
      BY <1>4, <2>3, <3>1 DEF SlotOK
    <3>3. slot'[q].at = "new" => \A o \in Requests \ {q} : slot'[o].of # slot'[q].of
      <4> SUFFICES ASSUME slot'[q].at = "new", NEW o \in Requests \ {q}
                   PROVE  slot'[o].of # slot'[q].of
        OBVIOUS
      <4>1. slot[q].at = "new" /\ slot'[q].of = slot[q].of BY <1>4, <2>3
      <4>2. slot[q].of \in Users /\ slot[o].of # slot[q].of BY <3>1, <4>1 DEF SlotOK
      <4>3. CASE o # r BY <1>4, <4>1, <4>2, <4>3
      <4>4. CASE o = r /\ s = Idle BY <1>3, <4>1, <4>2, <4>4
      <4>5. CASE o = r /\ s # Idle BY <2>3, <4>1, <4>5, <1>4 DEF Arrives
      <4>6. QED BY <4>3, <4>4, <4>5
    <3>4. QED BY <1>4, <2>3, <3>1, <3>2, <3>3 DEF SlotOK, Holds
  <2>4. QED BY <2>1, <2>2, <2>3
<1>6. StoredInv' BY DEF IInv, StoredInv
<1>7. ShutInv'
  <2> SUFFICES ASSUME NEW v \in closed
               PROVE  /\ row[v].status # "active"
                      /\ \A q \in Requests : slot'[q].of = v /\ slot'[q].entity.status = "active"
                                               => slot'[q].op \in {"verify", "updateStatus"}
    BY DEF ShutInv
  <2>1. v \in Users /\ row[v].status # "active" BY <1>1 DEF IInv, ShutInv, TypeOK
  <2>2. ASSUME NEW q \in Requests \ {r}, slot'[q].of = v, slot'[q].entity.status = "active"
        PROVE  slot'[q].op \in {"verify", "updateStatus"}
    BY <1>4, <2>2 DEF IInv, ShutInv
  <2>3. ASSUME s.of = v, s.entity.status = "active"
        PROVE  s.op \in {"verify", "updateStatus"}
    <3>1. CASE s = Idle BY <1>3, <2>1, <2>3, <3>1
    <3>2. CASE s # Idle BY <2>3, <3>2 DEF Arrives
    <3>3. QED BY <3>1, <3>2
  <2>4. QED BY <2>1, <2>2, <2>3
<1>8. PasswordInv'
  <2> SUFFICES ASSUME NEW v \in Users, held[v] # 0
               PROVE  /\ row[v].pw = held[v]
                      /\ \A q \in Requests : slot'[q].of = v /\ slot'[q].op = "login"
                                               => slot'[q].entity.pw = held[v]
    BY DEF PasswordInv
  <2>1. row[v].pw = held[v] BY DEF IInv, PasswordInv
  <2>2. ASSUME NEW q \in Requests \ {r}, slot'[q].of = v, slot'[q].op = "login"
        PROVE  slot'[q].entity.pw = held[v]
    BY <1>4, <2>2 DEF IInv, PasswordInv
  <2>3. ASSUME s.of = v, s.op = "login"
        PROVE  s.entity.pw = held[v]
    <3>1. CASE s = Idle BY <1>3, <2>3, <3>1
    <3>2. CASE s # Idle BY <2>3, <3>2 DEF Arrives
    <3>3. QED BY <3>1, <3>2
  <2>4. QED BY <2>1, <2>2, <2>3
<1>9. PendingInv'
  <2> SUFFICES ASSUME NEW v \in Users \ crossed
               PROVE  \E f \in Emails \cup {NoEmail} : OneAddress(v, f)'
    BY DEF PendingInv
  <2>1. PICK f \in Emails \cup {NoEmail} : OneAddress(v, f) BY DEF IInv, PendingInv
  <2>2. ASSUME NEW q \in Requests, slot'[q].of = v, slot'[q].alone, Bears(slot'[q].op)
        PROVE  slot'[q].entity.pending \in {f, NoEmail} /\ slot'[q].entity.pcode \in {f, NoEmail}
    <3>1. CASE q # r BY <1>4, <2>1, <2>2, <3>1 DEF OneAddress
    <3>2. CASE q = r
      <4>1. s # Idle BY <1>3, <2>2, <3>2
      <4>2. v = u BY <2>2, <3>2, <4>1 DEF Arrives
      <4>3. QED BY <2>1, <2>2, <3>2, <4>1, <4>2
    <3>3. QED BY <3>1, <3>2
  <2>3. OneAddress(v, f)' BY <2>1, <2>2 DEF OneAddress, Bears, MovesPending
  <2>4. QED BY <2>3
<1>10. AloneInv'
  <2> SUFFICES ASSUME NEW q \in Requests,
                      slot'[q].at # "idle", slot'[q].alone, slot'[q].op = "requestEmailChange"
               PROVE  AloneOK(q, slot[q])'
    BY DEF AloneInv
  <2>1. CASE q = r
    <3>1. s # Idle BY <1>3, <2>1
    <3>2. QED BY <2>1, <3>1 DEF Arrives
  <2>2. CASE q # r
    <3>1. slot[q].at # "idle" /\ slot[q].alone /\ slot[q].op = "requestEmailChange"
      BY <1>4, <2>2
    <3>2. AloneOK(q, slot[q]) BY <3>1 DEF IInv, AloneInv
    <3>3. slot[q].of \in Users /\ slot'[q].of = slot[q].of
      BY <1>4, <2>2, <3>1 DEF IInv, SlotInv, SlotOK
    <3>4. ASSUME NEW o \in Others(q, slot[q].of)'
          PROVE  ~MovesPending(slot'[o].op)
      <4>1. o \in Requests \ {q} /\ slot'[o].of = slot'[q].of BY <3>4 DEF Others
      <4>2. CASE o # r
        <5>1. o \in Others(q, slot[q].of) BY <1>4, <3>3, <4>1, <4>2 DEF Others
        <5>2. ~MovesPending(slot[o].op) BY <3>2, <5>1 DEF AloneOK
        <5>3. QED BY <1>4, <4>1, <4>2, <5>2
      <4>3. CASE o = r
        <5>1. s # Idle BY <1>3, <3>3, <4>1, <4>3
        <5>2. s.of = u /\ slot'[q].of = u BY <4>1, <4>3, <5>1 DEF Arrives
        <5>3. q \in Others(r, u)' BY <2>2, <5>2 DEF Others
        <5>4. MovesPending(s.op) => ~slot'[q].alone
          BY <5>1, <5>3 DEF Arrives, MovesPending
        <5>5. QED BY <4>3, <5>4
      <4>4. QED BY <4>2, <4>3
    <3>5. Written(slot[q])' = Written(slot[q]) BY <1>4, <2>2 DEF Written
    <3>6. QED BY <1>4, <2>2, <3>2, <3>4, <3>5 DEF AloneOK, MovesPending
  <2>3. QED BY <2>1, <2>2
<1>11. FreshInv'
  <2> SUFFICES ASSUME NEW v \in Users, Fresh(v)' PROVE FreshOK(v)' BY DEF FreshInv
  <2>1. Fresh(v) BY DEF Fresh
  <2>2. FreshOK(v) BY <2>1 DEF IInv, FreshInv
  <2>3. ASSUME NEW q \in Requests, slot'[q].of = v
        PROVE  FreshSlot(v, slot[q])'
    <3>1. CASE q # r
      <4>1. FreshSlot(v, slot[q]) BY <1>4, <2>2, <2>3, <3>1 DEF FreshOK
      <4>2. QED BY <1>4, <3>1, <4>1 DEF FreshSlot
    <3>2. CASE q = r
      <4>1. s # Idle BY <1>3, <2>3, <3>2
      <4>2. v = u BY <2>3, <3>2, <4>1 DEF Arrives
      <4>3. QED BY <3>2, <4>1, <4>2 DEF Arrives
    <3>3. QED BY <3>1, <3>2
  <2>4. QED BY <2>2, <2>3 DEF FreshOK
<1>12. ProvedInv'
  <2> SUFFICES ASSUME NEW v \in Users, row[v].status # "none", ~Fresh(v)',
                      NEW q \in Requests, slot'[q].of = v, slot'[q].entity.email # NoEmail
               PROVE  <<v, slot'[q].entity.email>> \in accounted'
    BY DEF ProvedInv, ProvedOK
  <2>1. CASE q = r
    <3>1. s # Idle BY <1>3, <2>1
    <3>2. v = u BY <2>1, <3>1 DEF Arrives
    <3>3. QED BY <2>1, <3>1, <3>2 DEF Arrives
  <2>2. CASE q # r /\ ~Fresh(v)
    <3>1. <<v, slot[q].entity.email>> \in accounted
      BY <1>4, <2>2 DEF IInv, ProvedInv, ProvedOK
    <3>2. QED BY <1>4, <2>2, <3>1
  <2>3. CASE q # r /\ Fresh(v)
    <3>1. FreshSlot(v, slot[q]) BY <1>4, <2>3 DEF IInv, FreshInv, FreshOK
    <3>2. slot'[q].entity.email = row[v].email BY <1>4, <2>3, <3>1 DEF FreshSlot
    <3>3. <<v, row[v].email>> \in accounted' BY DEF Fresh
    <3>4. QED BY <3>2, <3>3
  <2>4. QED BY <2>1, <2>2, <2>3
<1>13. QED
  BY <1>2, <1>5, <1>6, <1>7, <1>8, <1>9, <1>10, <1>11, <1>12 DEF IInv

\* Loading: the handlers of the same user notice, where one asks for another address.
LEMMA TakeFacts ==
    ASSUME IInv, NEW r \in Requests, NEW u \in Users, NEW op \in Ops,
           NEW at \in {"new", "checking", "loaded"}, NEW e \in Row, Take(r, op, u, at, e)
    PROVE  /\ slot[r] = Idle
           /\ slot'[r] \in Slot /\ slot' \in [Requests -> Slot]
           /\ \A q \in Requests \ {r} : Same(q)
           /\ slot'[r].at = at /\ slot'[r].op = op /\ slot'[r].of = u
           /\ slot'[r].entity = [c \in Columns |-> IF c \in Carried(op) THEN e[c] ELSE NoRow[c]]
           /\ \A q \in Requests \ {r} : slot[q].of = u /\ Meet(op, slot[q].op)
                                          => ~slot'[q].alone /\ ~slot'[r].alone
           /\ UNCHANGED <<row, entered, failures, crossed, held, closed>>
<1> DEFINE overlaps == {q \in Others(r, u) : Meet(op, slot[q].op)}
           x == [c \in Columns |-> IF c \in Carried(op) THEN e[c] ELSE NoRow[c]]
           s == [at |-> at, op |-> op, of |-> u, dirty |-> {}, alone |-> overlaps = {},
                 entity |-> x]
<1>1. /\ slot[r] = Idle
      /\ slot' = [q \in Requests |->
                    IF q = r THEN s
                    ELSE IF q \in overlaps THEN [slot[q] EXCEPT !.alone = FALSE] ELSE slot[q]]
      /\ UNCHANGED <<row, entered, failures, crossed, held, closed>>
  BY DEF Take
<1>2. x \in Row BY MixedRow, Nothing
<1>3. (overlaps = {}) \in BOOLEAN OBVIOUS
<1>4. slot \in [Requests -> Slot] BY DEF IInv, TypeOK
<1>5. overlaps \subseteq Requests \ {r} BY DEF Others
<1>6. \A q \in overlaps : slot[q].of = u BY DEF Others
<1>7. \A q \in Requests : q \in overlaps <=> q # r /\ slot[q].of = u /\ Meet(op, slot[q].op)
  BY DEF Others
<1> HIDE DEF x, overlaps
<1>8. s \in Slot BY <1>2, <1>3 DEF Slot
<1>9. slot'[r] = s BY <1>1
<1>10. s.at = at /\ s.op = op /\ s.of = u /\ s.entity = x /\ s.alone = (overlaps = {}) OBVIOUS
<1> HIDE DEF s
<1>11. ASSUME NEW q \in Requests \ {r}
       PROVE  /\ Same(q) /\ slot'[q] \in Slot
              /\ q \in overlaps => ~slot'[q].alone
  <2>1. slot'[q] = IF q \in overlaps THEN [slot[q] EXCEPT !.alone = FALSE] ELSE slot[q]
    BY <1>1
  <2>2. slot[q] \in Slot BY <1>4
  <2>3. q \in overlaps => slot[q].at # "idle"
    BY <1>6, Nothing DEF IInv, SlotInv, SlotOK
  <2>4. QED BY <2>1, <2>2, <2>3 DEF Same, Slot
<1>12. slot' \in [Requests -> Slot] BY <1>1, <1>8, <1>9, <1>11
<1>13. x = [c \in Columns |-> IF c \in Carried(op) THEN e[c] ELSE NoRow[c]] BY DEF x
<1>14. QED BY <1>1, <1>7, <1>8, <1>9, <1>10, <1>11, <1>12, <1>13

\* A handler has loaded a row that is stored, as e.
LEMMA LoadKeeps ==
    ASSUME IInv, NEW r \in Requests, NEW u \in Users, NEW op \in Ops,
           NEW at \in {"checking", "loaded"}, NEW e \in Row, Take(r, op, u, at, e),
           row[u].status # "none",
           at = "checking" => op \in {"requestEmailChange", "confirmEmailChange"},
           e.status # "none" /\ e.email \in Emails /\ e.pw # 0,
           u \in closed /\ e.status = "active" => op \in {"verify", "updateStatus"},
           op = "login" => e.pw = row[u].pw,
           at = "loaded" => op # "requestEmailChange",
           op # "requestEmailChange" => /\ e.pending \in {row[u].pending, NoEmail}
                                        /\ e.pcode \in {row[u].pcode, NoEmail},
           accounted' \in SUBSET (Users \X Emails), accounted \subseteq accounted',
           \A v \in Users \ {u} : \A f : <<v, f>> \in accounted' => <<v, f>> \in accounted,
           <<u, row[u].email>> \notin accounted' =>
               /\ op \in {"create", "register", "resendVerification", "resetPassword", "updateStatus"}
               /\ e.email = row[u].email
               /\ e.status = "active" => op = "updateStatus"
               /\ e.vcode \in {NoEmail, row[u].email}
               /\ e.pending = NoEmail,
           <<u, row[u].email>> \in accounted' => <<u, e.email>> \in accounted',
           \/ codes' = codes /\ (op = "requestEmailChange" => CodesLeft)
           \/ codes' = codes + 1 /\ CodesLeft /\ at = "loaded",
           passwords' \in 0..MaxPasswords
    PROVE  IInv'
<1>1. PICK s \in Slot : s = slot'[r]
  <2>1. slot'[r] \in Slot /\ slot'[r].at = at /\ slot'[r].op = op /\ slot'[r].of = u
        /\ slot'[r].entity = [c \in Columns |-> IF c \in Carried(op) THEN e[c] ELSE NoRow[c]]
    BY TakeFacts
  <2>2. QED BY <2>1
<1>2. /\ slot[r] = Idle /\ slot' \in [Requests -> Slot]
      /\ \A q \in Requests \ {r} : Same(q)
      /\ s.at = at /\ s.op = op /\ s.of = u
      /\ s.entity = [c \in Columns |-> IF c \in Carried(op) THEN e[c] ELSE NoRow[c]]
      /\ \A q \in Requests \ {r} : slot[q].of = u /\ Meet(op, slot[q].op)
                                     => ~slot'[q].alone /\ ~s.alone
      /\ UNCHANGED <<row, entered, failures, crossed, held, closed>>
  BY <1>1, TakeFacts
<1>3. \A q \in Requests \ {r} : slot'[q].at = slot[q].at /\ slot'[q].op = slot[q].op
                                /\ slot'[q].of = slot[q].of
  <2>1. \A q \in Requests : slot[q] \in Slot BY DEF IInv, TypeOK
  <2>2. QED BY <1>2, <2>1 DEF Same, Slot
<1>4. /\ \A c \in Columns : s.entity[c] = IF c \in Carried(op) THEN e[c] ELSE NoRow[c]
      /\ s.entity.status = IF "status" \in Carried(op) THEN e.status ELSE "none"
      /\ s.entity.email = e.email
      /\ s.entity.pw = IF "pw" \in Carried(op) THEN e.pw ELSE 0
      /\ s.entity.pending = IF "pending" \in Carried(op) THEN e.pending ELSE NoEmail
      /\ s.entity.pcode = IF "pcode" \in Carried(op) THEN e.pcode ELSE NoEmail
      /\ s.entity.vcode = IF "vcode" \in Carried(op) THEN e.vcode ELSE NoEmail
  BY <1>2, MixedRow, Nothing, CarriedColumns
<1>5. Arrives(r, u, s)'
  <2>1. SlotOK(r, s)'
    <3>1. Holds(s)' = Carried(op) BY <1>2 DEF Holds
    <3>2. QED BY <1>2, <1>4, <3>1 DEF SlotOK
  <2>2. \A q \in Requests \ {r} : slot'[q].at = "new" => slot'[q].of # u
    BY <1>3 DEF IInv, SlotInv, SlotOK
  <2>3. u \in closed /\ s.entity.status = "active" => s.op \in {"verify", "updateStatus"}
    BY <1>2, <1>4
  <2>4. held[u] # 0 /\ s.op = "login" => s.entity.pw = held[u]
    BY <1>2, <1>4, CarriedColumns DEF IInv, PasswordInv
  <2>5. s.alone /\ s.op = "requestEmailChange" => AloneOK(r, s)'
    <3> SUFFICES ASSUME s.alone, op = "requestEmailChange" PROVE AloneOK(r, s)' BY <1>2
    <3>1. \A q \in Others(r, s.of)' : ~MovesPending(slot'[q].op)
      BY <1>2, <1>3, CarriedColumns DEF Others, Meet, MovesPending
    <3>2. QED BY <1>2, <3>1 DEF AloneOK, MovesPending
  <2>6. MovesPending(s.op) =>
           \A q \in Others(r, u)' : slot'[q].op = "requestEmailChange" => ~slot'[q].alone
    <3>1. MovesPending("requestEmailChange") BY CarriedColumns DEF MovesPending, Ops
    <3>2. QED BY <1>2, <1>3, <3>1 DEF Others, Meet
  <2>7. Fresh(u)' => FreshSlot(u, s)'
    <3> SUFFICES ASSUME Fresh(u)' PROVE FreshSlot(u, s)' OBVIOUS
    <3>1. <<u, row[u].email>> \notin accounted' BY <1>2 DEF Fresh
    <3>2. QED BY <1>2, <1>4, <3>1 DEF FreshSlot
  <2>8. ~Fresh(u)' => <<u, s.entity.email>> \in accounted'
    BY <1>2, <1>4 DEF Fresh
  <2>9. QED BY <1>2, <2>1, <2>2, <2>3, <2>4, <2>5, <2>6, <2>7, <2>8 DEF Arrives, MovesPending
<1>6. codes' \in 0..MaxCodes /\ CodesInv'
  <2>1. /\ codes \in Nat /\ MaxCodes \in Nat /\ codes <= MaxCodes
        /\ codes + Cardinality(Making) <= MaxCodes
    BY BoundsAssumption DEF IInv, TypeOK, CodesInv
  <2>2. \A q \in Requests \ {r} : MakesCode(slot[q])' <=> MakesCode(slot[q])
    BY <1>3 DEF MakesCode
  <2>3. CodesLeft => codes + Cardinality(Making) < MaxCodes BY DEF CodesLeft, Making
  <2>4. MakesCode(slot[r])' => op = "requestEmailChange" /\ at = "checking"
    BY <1>1, <1>2 DEF MakesCode
  <2>5. /\ Cardinality(Making) \in Nat /\ Cardinality(Making') \in Nat
        /\ ~MakesCode(slot[r])' => Cardinality(Making') <= Cardinality(Making)
        /\ MakesCode(slot[r])' => Cardinality(Making') <= Cardinality(Making) + 1
    BY <2>2, MakingCount
  <2>6. codes' + Cardinality(Making') <= MaxCodes /\ codes' \in Nat
    BY <2>1, <2>3, <2>4, <2>5
  <2>7. QED BY <2>1, <2>5, <2>6 DEF CodesInv
<1>7. failures' \in 0..MaxFailures BY <1>2 DEF IInv, TypeOK
<1>8. \A f : s # Idle /\ s.alone /\ Bears(s.op) /\ OneAddress(u, f)
               => s.entity.pending \in {f, NoEmail} /\ s.entity.pcode \in {f, NoEmail}
  BY <1>2, <1>4 DEF Bears, OneAddress
<1>9. QED BY <1>1, <1>2, <1>5, <1>6, <1>7, <1>8, RowsKept

\* What is known of a user that is stored.
LEMMA UserFacts ==
    ASSUME IInv, NEW u \in Users, row[u].status # "none"
    PROVE  /\ row[u] \in Row /\ row[u].email \in Emails /\ row[u].pw # 0
           /\ row[u].vcode \in Emails \cup {NoEmail} /\ row[u].pcode \in Emails \cup {NoEmail}
           /\ <<u, row[u].email>> \notin accounted =>
                  /\ row[u].status # "active" /\ u \notin entered
                  /\ row[u].vcode \in {NoEmail, row[u].email} /\ row[u].pending = NoEmail
           /\ u \in closed => row[u].status # "active"
<1>1. row[u] \in Row /\ row[u].email \in Emails /\ row[u].pw # 0 BY DEF IInv, TypeOK
<1>2. row[u].vcode \in Emails \cup {NoEmail} /\ row[u].pcode \in Emails \cup {NoEmail}
  BY <1>1 DEF Row
<1>3. <<u, row[u].email>> \notin accounted =>
          /\ row[u].status # "active" /\ u \notin entered
          /\ row[u].vcode \in {NoEmail, row[u].email} /\ row[u].pending = NoEmail
  BY DEF IInv, FreshInv, Fresh, FreshOK
<1>4. u \in closed => row[u].status # "active" BY DEF IInv, ShutInv
<1>5. QED BY <1>1, <1>2, <1>3, <1>4

\* Who has a token is stored.
LEMMA EnteredStored == ASSUME IInv, NEW u \in entered PROVE u \in Users /\ row[u].status # "none"
BY DEF IInv, TypeOK, StoredInv

\* Handlers that load a row, choose no password, make no code and prove nothing.
LEMMA QuietLoads ==
    ASSUME IInv, NEW r \in Requests, NEW u \in Users,
           \/ Login(r, u) \/ ResendEmailConfirmation(r, u) \/ CancelEmailChange(r, u)
           \/ Profile(r, u) \/ DeactivateAccount(r, u)
           \/ \E status \in AdminStatuses : UpdateStatus(r, u, status)
    PROVE  IInv'
<1>1. UNCHANGED <<codes, passwords, accounted>> /\ row[u].status # "none"
  BY DEF Login, ResendEmailConfirmation, CancelEmailChange, Profile, DeactivateAccount,
         UpdateStatus, Load
<1>2. /\ row[u] \in Row /\ row[u].email \in Emails /\ row[u].pw # 0
      /\ <<u, row[u].email>> \notin accounted =>
             /\ row[u].status # "active" /\ u \notin entered
             /\ row[u].vcode \in {NoEmail, row[u].email} /\ row[u].pending = NoEmail
      /\ u \in closed => row[u].status # "active"
  BY <1>1, UserFacts
<1>3. /\ accounted' \in SUBSET (Users \X Emails) /\ accounted' = accounted
      /\ passwords' \in 0..MaxPasswords
  BY <1>1 DEF IInv, TypeOK
<1>4. ASSUME NEW op \in Ops \ {"requestEmailChange"}, Take(r, op, u, "loaded", row[u]),
             op = "login" => row[u].status = "active",
             op # "login" => u \in entered
      PROVE  IInv'
  <2>1. <<u, row[u].email>> \in accounted BY <1>2, <1>4
  <2>2. QED BY <1>1, <1>2, <1>3, <1>4, <2>1, LoadKeeps
<1>5. CASE Login(r, u)
  <2>1. "login" \in Ops \ {"requestEmailChange"} BY DEF Ops
  <2>2. Take(r, "login", u, "loaded", row[u]) /\ row[u].status = "active"
    BY <1>5 DEF Login, Load
  <2>3. QED BY <1>4, <2>1, <2>2
<1>6. CASE ResendEmailConfirmation(r, u)
  <2>1. "resendEmailConfirmation" \in Ops \ {"requestEmailChange"} BY DEF Ops
  <2>2. Take(r, "resendEmailConfirmation", u, "loaded", row[u]) /\ u \in entered
    BY <1>6 DEF ResendEmailConfirmation, Load
  <2>3. QED BY <1>4, <2>1, <2>2
<1>7. CASE Profile(r, u)
  <2>1. "profile" \in Ops \ {"requestEmailChange"} BY DEF Ops
  <2>2. Take(r, "profile", u, "loaded", row[u]) /\ u \in entered
    BY <1>7 DEF Profile, Load
  <2>3. QED BY <1>4, <2>1, <2>2
<1>8. CASE CancelEmailChange(r, u)
  <2> DEFINE e == [row[u] EXCEPT !.pending = NoEmail, !.pcode = NoEmail]
  <2>1. "cancelEmailChange" \in Ops \ {"requestEmailChange"} BY DEF Ops
  <2>2. Take(r, "cancelEmailChange", u, "loaded", e) /\ u \in entered
    BY <1>8 DEF CancelEmailChange, Load
  <2>3. /\ e \in Row /\ e.status = row[u].status /\ e.email = row[u].email /\ e.pw = row[u].pw
        /\ e.pending = NoEmail /\ e.pcode = NoEmail
    BY <1>2 DEF Row
  <2> HIDE DEF e
  <2>4. <<u, row[u].email>> \in accounted BY <1>2, <2>2
  <2>5. QED BY <1>1, <1>2, <1>3, <2>1, <2>2, <2>3, <2>4, LoadKeeps
<1>9. CASE DeactivateAccount(r, u)
  <2> DEFINE e == [row[u] EXCEPT !.status = "inactive"]
  <2>1. "deactivate" \in Ops \ {"requestEmailChange"} BY DEF Ops
  <2>2. Take(r, "deactivate", u, "loaded", e) /\ u \in entered
    BY <1>9 DEF DeactivateAccount, Load
  <2>3. /\ e \in Row /\ e.status = "inactive" /\ e.email = row[u].email /\ e.pw = row[u].pw
        /\ e.pending = row[u].pending /\ e.pcode = row[u].pcode
    BY <1>2 DEF Row, Statuses
  <2> HIDE DEF e
  <2>4. <<u, row[u].email>> \in accounted BY <1>2, <2>2
  <2>5. QED BY <1>1, <1>2, <1>3, <2>1, <2>2, <2>3, <2>4, LoadKeeps
<1>10. ASSUME NEW status \in AdminStatuses, UpdateStatus(r, u, status)
       PROVE  IInv'
  <2> DEFINE e == [row[u] EXCEPT !.status = status]
  <2>1. "updateStatus" \in Ops \ {"requestEmailChange"} BY DEF Ops
  <2>2. Take(r, "updateStatus", u, "loaded", e)
    BY <1>10 DEF UpdateStatus, Load
  <2>3. status \in Statuses /\ status # "none" BY StatusAssumption DEF Statuses
  <2>4. /\ e \in Row /\ e.status = status /\ e.email = row[u].email /\ e.pw = row[u].pw
        /\ e.pending = row[u].pending /\ e.pcode = row[u].pcode /\ e.vcode = row[u].vcode
    BY <1>2, <2>3 DEF Row
  <2> HIDE DEF e
  <2>5. QED BY <1>1, <1>2, <1>3, <2>1, <2>2, <2>3, <2>4, LoadKeeps
<1>11. QED BY <1>5, <1>6, <1>7, <1>8, <1>9, <1>10

\* Handlers that load a row and make a code.
LEMMA CodeLoads ==
    ASSUME IInv, NEW r \in Requests, NEW u \in Users,
           RegisterAgain(r, u) \/ ResendVerification(r, u) \/ ForgotPassword(r, u)
    PROVE  IInv'
<1>1. /\ accounted' = accounted /\ row[u].status # "none"
      /\ CodesLeft /\ codes' = codes + 1
  BY DEF RegisterAgain, ResendVerification, ForgotPassword, Load, CountCode
<1>2. /\ row[u] \in Row /\ row[u].email \in Emails /\ row[u].pw # 0
      /\ <<u, row[u].email>> \notin accounted =>
             /\ row[u].status # "active" /\ u \notin entered
             /\ row[u].vcode \in {NoEmail, row[u].email} /\ row[u].pending = NoEmail
      /\ u \in closed => row[u].status # "active"
  BY <1>1, UserFacts
<1>3. accounted' \in SUBSET (Users \X Emails) /\ passwords \in 0..MaxPasswords
      /\ MaxPasswords \in Nat
  BY <1>1, BoundsAssumption DEF IInv, TypeOK
<1>4. CASE RegisterAgain(r, u)
  <2> DEFINE e == [row[u] EXCEPT !.pw = NextPassword, !.vcode = row[u].email]
  <2>1. "register" \in Ops \ {"requestEmailChange"} BY DEF Ops
  <2>2. /\ Take(r, "register", u, "loaded", e) /\ row[u].status = "pending_verification"
        /\ NextPassword <= MaxPasswords /\ passwords' = NextPassword
    BY <1>4 DEF RegisterAgain, Load, Choose
  <2>3. NextPassword \in 0..MaxPasswords /\ NextPassword # 0
    BY <1>3, <2>2 DEF NextPassword
  <2>4. /\ e \in Row /\ e.status = row[u].status /\ e.email = row[u].email /\ e.pw = NextPassword
        /\ e.pending = row[u].pending /\ e.pcode = row[u].pcode /\ e.vcode = row[u].email
    BY <1>2, <2>3 DEF Row
  <2> HIDE DEF e
  <2>5. QED BY <1>1, <1>2, <1>3, <2>1, <2>2, <2>3, <2>4, LoadKeeps
<1>5. CASE ResendVerification(r, u)
  <2> DEFINE e == [row[u] EXCEPT !.vcode = row[u].email]
  <2>1. "resendVerification" \in Ops \ {"requestEmailChange"} BY DEF Ops
  <2>2. /\ Take(r, "resendVerification", u, "loaded", e) /\ row[u].status # "active"
        /\ passwords' = passwords
    BY <1>5 DEF ResendVerification, Load
  <2>3. /\ e \in Row /\ e.status = row[u].status /\ e.email = row[u].email /\ e.pw = row[u].pw
        /\ e.pending = row[u].pending /\ e.pcode = row[u].pcode /\ e.vcode = row[u].email
    BY <1>2 DEF Row
  <2> HIDE DEF e
  <2>4. QED BY <1>1, <1>2, <1>3, <2>1, <2>2, <2>3, LoadKeeps
<1>6. CASE ForgotPassword(r, u)
  <2> DEFINE e == [row[u] EXCEPT !.rtoken = row[u].email]
  <2>1. "forgotPassword" \in Ops \ {"requestEmailChange"} BY DEF Ops
  <2>2. /\ Take(r, "forgotPassword", u, "loaded", e) /\ row[u].status = "active"
        /\ passwords' = passwords
    BY <1>6 DEF ForgotPassword, Load
  <2>3. /\ e \in Row /\ e.status = row[u].status /\ e.email = row[u].email /\ e.pw = row[u].pw
        /\ e.pending = row[u].pending /\ e.pcode = row[u].pcode
    BY <1>2 DEF Row
  <2> HIDE DEF e
  <2>4. <<u, row[u].email>> \in accounted BY <1>2, <2>2
  <2>5. QED BY <1>1, <1>2, <1>3, <2>1, <2>2, <2>3, <2>4, LoadKeeps
<1>7. QED BY <1>4, <1>5, <1>6

\* Handlers that load a row and choose a password.
LEMMA PasswordLoads ==
    ASSUME IInv, NEW r \in Requests, NEW u \in Users,
           ResetPassword(r, u) \/ ChangePassword(r, u)
    PROVE  IInv'
<1>1. /\ accounted' = accounted /\ codes' = codes /\ row[u].status # "none"
      /\ NextPassword <= MaxPasswords /\ passwords' = NextPassword
  BY DEF ResetPassword, ChangePassword, Load, Choose
<1>2. /\ row[u] \in Row /\ row[u].email \in Emails /\ row[u].pw # 0
      /\ <<u, row[u].email>> \notin accounted =>
             /\ row[u].status # "active" /\ u \notin entered
             /\ row[u].vcode \in {NoEmail, row[u].email} /\ row[u].pending = NoEmail
      /\ u \in closed => row[u].status # "active"
  BY <1>1, UserFacts
<1>3. accounted' \in SUBSET (Users \X Emails) /\ passwords \in 0..MaxPasswords
      /\ MaxPasswords \in Nat
  BY <1>1, BoundsAssumption DEF IInv, TypeOK
<1>4. NextPassword \in 0..MaxPasswords /\ NextPassword # 0
  BY <1>1, <1>3 DEF NextPassword
<1>5. CASE ResetPassword(r, u)
  <2> DEFINE e == Reset(u)
  <2>1. "resetPassword" \in Ops \ {"requestEmailChange"} BY DEF Ops
  <2>2. Take(r, "resetPassword", u, "loaded", e)
    BY <1>5 DEF ResetPassword, Load
  <2>3. /\ e \in Row /\ e.status = row[u].status /\ e.email = row[u].email /\ e.pw = NextPassword
        /\ e.pending = row[u].pending /\ e.pcode = row[u].pcode /\ e.vcode = row[u].vcode
    BY <1>2, <1>4 DEF Row, Reset
  <2> HIDE DEF e
  <2>4. QED BY <1>1, <1>2, <1>3, <1>4, <2>1, <2>2, <2>3, LoadKeeps
<1>6. CASE ChangePassword(r, u)
  <2> DEFINE e == [row[u] EXCEPT !.pw = NextPassword]
  <2>1. "changePassword" \in Ops \ {"requestEmailChange"} BY DEF Ops
  <2>2. Take(r, "changePassword", u, "loaded", e) /\ u \in entered
    BY <1>6 DEF ChangePassword, Load
  <2>3. /\ e \in Row /\ e.status = row[u].status /\ e.email = row[u].email /\ e.pw = NextPassword
        /\ e.pending = row[u].pending /\ e.pcode = row[u].pcode
    BY <1>2, <1>4 DEF Row
  <2> HIDE DEF e
  <2>4. <<u, row[u].email>> \in accounted BY <1>2, <2>2
  <2>5. QED BY <1>1, <1>2, <1>3, <1>4, <2>1, <2>2, <2>3, <2>4, LoadKeeps
<1>7. QED BY <1>5, <1>6

\* verify: the code was mailed to an address, which is the row's unless that one is accounted
\* for already.
LEMMA VerifyLoads ==
    ASSUME IInv, NEW r \in Requests, NEW u \in Users, Verify(r, u)
    PROVE  IInv'
<1> DEFINE e == [row[u] EXCEPT !.status = "active", !.vcode = NoEmail]
<1>1. /\ row[u].vcode # NoEmail /\ row[u].status # "none"
      /\ Take(r, "verify", u, "loaded", e)
      /\ accounted' = accounted \cup {<<u, row[u].vcode>>}
      /\ UNCHANGED <<codes, passwords>>
  BY DEF Verify, Load
<1>2. /\ row[u] \in Row /\ row[u].email \in Emails /\ row[u].pw # 0
      /\ row[u].vcode \in Emails
      /\ <<u, row[u].email>> \notin accounted => row[u].vcode \in {NoEmail, row[u].email}
  BY <1>1, UserFacts
<1>3. /\ accounted' \in SUBSET (Users \X Emails) /\ accounted \subseteq accounted'
      /\ passwords' \in 0..MaxPasswords
  BY <1>1, <1>2 DEF IInv, TypeOK
<1>4. /\ e \in Row /\ e.status = "active" /\ e.email = row[u].email /\ e.pw = row[u].pw
      /\ e.pending = row[u].pending /\ e.pcode = row[u].pcode
  BY <1>2 DEF Row, Statuses
<1> HIDE DEF e
<1>5. <<u, row[u].email>> \in accounted' BY <1>1, <1>2
<1>6. \A v \in Users \ {u} : \A f : <<v, f>> \in accounted' => <<v, f>> \in accounted
  BY <1>1
<1>7. "verify" \in Ops \ {"requestEmailChange"} BY DEF Ops
<1>8. QED BY <1>1, <1>2, <1>3, <1>4, <1>5, <1>6, <1>7, LoadKeeps

\* requestEmailChange.
LEMMA RequestLoads ==
    ASSUME IInv, NEW r \in Requests, NEW u \in Users, NEW f \in Emails, RequestEmailChange(r, u, f)
    PROVE  IInv'
<1> DEFINE e == [row[u] EXCEPT !.pending = f]
<1>1. /\ u \in entered /\ CodesLeft /\ Take(r, "requestEmailChange", u, "checking", e)
      /\ UNCHANGED <<codes, passwords, accounted>>
  BY DEF RequestEmailChange
<1>2. row[u].status # "none" BY <1>1, EnteredStored
<1>3. /\ row[u] \in Row /\ row[u].email \in Emails /\ row[u].pw # 0
      /\ <<u, row[u].email>> \in accounted
      /\ u \in closed => row[u].status # "active"
  BY <1>1, <1>2, UserFacts
<1>4. /\ accounted' \in SUBSET (Users \X Emails) /\ accounted' = accounted
      /\ passwords' \in 0..MaxPasswords
  BY <1>1 DEF IInv, TypeOK
<1>5. e \in Row /\ e.status = row[u].status /\ e.email = row[u].email /\ e.pw = row[u].pw
  BY <1>3 DEF Row
<1> HIDE DEF e
<1>6. "requestEmailChange" \in Ops BY DEF Ops
<1>7. QED BY <1>1, <1>2, <1>3, <1>4, <1>5, <1>6, LoadKeeps

\* confirmEmailChange: unless a request has met another save, the code was mailed to the
\* address that is confirmed.
LEMMA ConfirmLoads ==
    ASSUME IInv, NEW r \in Requests, NEW u \in Users, NEW f \in Emails, ConfirmEmailChange(r, u, f)
    PROVE  IInv'
<1> DEFINE e == [row[u] EXCEPT !.email = f, !.pending = NoEmail, !.pcode = NoEmail]
<1>1. /\ row[u].pending = f /\ row[u].pcode # NoEmail
      /\ Take(r, "confirmEmailChange", u, "checking", e)
      /\ accounted' = accounted \cup {<<u, IF u \in crossed THEN f ELSE row[u].pcode>>}
      /\ UNCHANGED <<codes, passwords>>
  BY DEF ConfirmEmailChange, Usable
<1>2. f # NoEmail BY Nothing
<1>3. row[u].status # "none" BY <1>1, <1>2, Nothing DEF IInv, StoredInv
<1>4. u \notin crossed => row[u].pcode = f BY <1>1, <1>2 DEF IInv, PendingInv, OneAddress
<1>5. accounted' = accounted \cup {<<u, f>>} BY <1>1, <1>4
<1>6. /\ row[u] \in Row /\ row[u].pw # 0
      /\ <<u, row[u].email>> \in accounted
      /\ u \in closed => row[u].status # "active"
  BY <1>1, <1>2, <1>3, UserFacts
<1>7. /\ accounted' \in SUBSET (Users \X Emails) /\ accounted \subseteq accounted'
      /\ passwords' \in 0..MaxPasswords
  BY <1>1, <1>5 DEF IInv, TypeOK
<1>8. /\ e \in Row /\ e.status = row[u].status /\ e.email = f /\ e.pw = row[u].pw
      /\ e.pending = NoEmail /\ e.pcode = NoEmail
  BY <1>6 DEF Row
<1> HIDE DEF e
<1>9. \A v \in Users \ {u} : \A g : <<v, g>> \in accounted' => <<v, g>> \in accounted
  BY <1>5
<1>10. "confirmEmailChange" \in Ops BY DEF Ops
<1>11. <<u, row[u].email>> \in accounted' /\ <<u, e.email>> \in accounted'
  BY <1>5, <1>6, <1>8
<1>12. /\ u \in closed /\ e.status = "active" => "confirmEmailChange" \in {"verify", "updateStatus"}
       /\ e.email \in Emails /\ e.status # "none" /\ e.pw # 0
  BY <1>3, <1>6, <1>8
<1>13. QED BY <1>1, <1>3, <1>7, <1>8, <1>9, <1>10, <1>11, <1>12, LoadKeeps

\* register, of a user that is not stored.
LEMMA RegisterKeeps ==
    ASSUME IInv, NEW r \in Requests, NEW u \in Users, NEW f \in Emails, Register(r, u, f)
    PROVE  IInv'
<1> DEFINE e == [NoRow EXCEPT !.status = "pending_verification", !.email = f, !.pw = NextPassword]
<1>1. /\ row[u].status = "none" /\ Others(r, u) = {}
      /\ NextPassword <= MaxPasswords /\ passwords' = NextPassword /\ CodesLeft
      /\ Take(r, "create", u, "new", e)
      /\ UNCHANGED <<codes, accounted>>
  BY DEF Register, Choose
<1>2. NextPassword \in 0..MaxPasswords /\ NextPassword # 0
  BY <1>1, BoundsAssumption DEF IInv, TypeOK, NextPassword
<1>3. /\ e \in Row /\ e.status = "pending_verification" /\ e.email = f /\ e.pw = NextPassword
      /\ e.pending = NoEmail /\ e.pcode = NoEmail /\ e.vcode = NoEmail
  BY <1>2, Nothing DEF NoRow, Row, Statuses
<1> HIDE DEF e
<1>4. "create" \in Ops BY DEF Ops
<1>5. PICK s \in Slot : s = slot'[r]
  <2>1. slot'[r] \in Slot /\ slot'[r].at = "new" /\ slot'[r].op = "create" /\ slot'[r].of = u
        /\ slot'[r].entity = [c \in Columns |-> IF c \in Carried("create") THEN e[c] ELSE NoRow[c]]
    BY <1>1, <1>3, <1>4, TakeFacts
  <2>2. QED BY <2>1
<1>6. /\ slot[r] = Idle /\ slot' \in [Requests -> Slot]
      /\ \A q \in Requests \ {r} : Same(q)
      /\ s.at = "new" /\ s.op = "create" /\ s.of = u
      /\ s.entity = [c \in Columns |-> IF c \in Carried("create") THEN e[c] ELSE NoRow[c]]
      /\ UNCHANGED <<row, entered, failures, crossed, held, closed>>
  <2>1. /\ slot'[r].at = "new" /\ slot'[r].op = "create" /\ slot'[r].of = u
        /\ slot'[r].entity = [c \in Columns |-> IF c \in Carried("create") THEN e[c] ELSE NoRow[c]]
        /\ slot[r] = Idle /\ slot' \in [Requests -> Slot]
        /\ \A q \in Requests \ {r} : Same(q)
        /\ UNCHANGED <<row, entered, failures, crossed, held, closed>>
    BY <1>1, <1>3, <1>4, TakeFacts
  <2>2. QED BY <1>5, <2>1
<1>7. \A q \in Requests \ {r} : slot'[q].at = slot[q].at /\ slot'[q].op = slot[q].op
                                /\ slot'[q].of = slot[q].of
  <2>1. \A q \in Requests : slot[q] \in Slot BY DEF IInv, TypeOK
  <2>2. QED BY <1>6, <2>1 DEF Same, Slot
<1>8. Carried("create") = Columns BY DEF Carried
<1>9. /\ s.entity.status = "pending_verification" /\ s.entity.email = f
      /\ s.entity.pw = NextPassword /\ s.entity.pending = NoEmail
      /\ s.entity.pcode = NoEmail /\ s.entity.vcode = NoEmail
  BY <1>3, <1>6, <1>8 DEF Columns
<1>10. \A q \in Requests \ {r} : slot'[q].of # u BY <1>1, <1>7 DEF Others
<1>11. Arrives(r, u, s)'
  <2>1. Holds(s)' = Columns BY <1>6, <1>8 DEF Holds
  <2>2. SlotOK(r, s)' BY <1>1, <1>2, <1>4, <1>6, <1>9, <1>10, <2>1 DEF SlotOK
  <2>3. ~Fresh(u)' BY <1>1, <1>6 DEF Fresh
  <2>4. QED BY <1>1, <1>6, <1>9, <1>10, <2>2, <2>3 DEF Arrives, Others
<1>12. CodesInv'
  <2>1. /\ codes \in Nat /\ MaxCodes \in Nat /\ codes' = codes
        /\ codes + Cardinality(Making) < MaxCodes
    BY <1>1, BoundsAssumption DEF IInv, TypeOK, CodesLeft, Making
  <2>2. \A q \in Requests \ {r} : MakesCode(slot[q])' <=> MakesCode(slot[q])
    BY <1>7 DEF MakesCode
  <2>3. /\ Cardinality(Making) \in Nat /\ Cardinality(Making') \in Nat
        /\ ~MakesCode(slot[r])' => Cardinality(Making') <= Cardinality(Making)
        /\ MakesCode(slot[r])' => Cardinality(Making') <= Cardinality(Making) + 1
    BY <2>2, MakingCount
  <2>4. QED BY <2>1, <2>3 DEF CodesInv
<1>13. /\ codes' \in 0..MaxCodes /\ passwords' \in 0..MaxPasswords /\ failures' \in 0..MaxFailures
       /\ accounted' \in SUBSET (Users \X Emails) /\ accounted' = accounted
  BY <1>1, <1>2, <1>6 DEF IInv, TypeOK
<1>14. \A g : s # Idle /\ s.alone /\ Bears(s.op) /\ OneAddress(u, g)
                => s.entity.pending \in {g, NoEmail} /\ s.entity.pcode \in {g, NoEmail}
  BY <1>9
<1>15. QED BY <1>5, <1>6, <1>11, <1>12, <1>13, <1>14, RowsKept

\* A handler that has ended makes no code.
LEMMA EndedCodes ==
    ASSUME IInv, NEW r \in Requests, slot' = [slot EXCEPT ![r] = Idle], codes' = codes
    PROVE  codes' \in 0..MaxCodes /\ CodesInv'
<1>1. /\ codes \in 0..MaxCodes /\ MaxCodes \in Nat /\ slot \in [Requests -> Slot]
      /\ codes + Cardinality(Making) <= MaxCodes
  BY BoundsAssumption DEF IInv, TypeOK, CodesInv
<1>2. \A q \in Requests \ {r} : MakesCode(slot[q])' <=> MakesCode(slot[q])
  BY <1>1 DEF MakesCode
<1>3. ~MakesCode(slot[r])' BY <1>1, Nothing DEF MakesCode
<1>4. /\ Cardinality(Making) \in Nat /\ Cardinality(Making') \in Nat
      /\ Cardinality(Making') <= Cardinality(Making)
  BY <1>2, <1>3, MakingCount
<1>5. QED BY <1>1, <1>4 DEF CodesInv

\* A request that is refused, or fails, leaves nothing behind.
LEMMA EndsKeep ==
    ASSUME IInv, NEW r \in Requests, Refused(r) \/ Fail(r)
    PROVE  IInv'
<1>1. /\ slot' = [slot EXCEPT ![r] = Idle]
      /\ UNCHANGED <<row, entered, codes, passwords, accounted, crossed, held, closed>>
  BY DEF Refused, Fail, history
<1>2. failures' \in 0..MaxFailures
  BY BoundsAssumption DEF IInv, TypeOK, Refused, Fail
<1>3. slot \in [Requests -> Slot] BY DEF IInv, TypeOK
<1>4. PICK s \in Slot : s = Idle BY Nothing
<1>5. /\ slot'[r] = s /\ slot' \in [Requests -> Slot]
      /\ \A q \in Requests \ {r} : Same(q)
  BY <1>1, <1>3, <1>4 DEF Same
<1>6. codes' \in 0..MaxCodes /\ CodesInv' BY <1>1, EndedCodes
<1>7. /\ passwords' \in 0..MaxPasswords
      /\ accounted' \in SUBSET (Users \X Emails) /\ accounted' = accounted
  BY <1>1 DEF IInv, TypeOK
<1>8. PICK u \in Users : u = slot[r].of
  <2>1. slot[r].at # "idle"
    <3>1. CASE Refused(r) BY <3>1 DEF Refused
    <3>2. CASE Fail(r) BY <3>2 DEF Fail, IInv, SlotInv, SlotOK
    <3>3. QED BY <3>1, <3>2
  <2>2. slot[r].of \in Users BY <2>1 DEF IInv, SlotInv, SlotOK
  <2>3. QED BY <2>2
<1>9. QED BY <1>1, <1>2, <1>4, <1>5, <1>6, <1>7, RowsKept

\* A handler of a stored user that takes a step of its own, its entity at most reduced.
LEMMA GoesOn ==
    ASSUME IInv, NEW r \in Requests, NEW u \in Users, NEW s \in Slot,
           slot' = [slot EXCEPT ![r] = s],
           slot[r].at \in {"checking", "loaded"}, s.at \in {"loaded", "selected"},
           slot[r].of = u, s.of = u, s.op = slot[r].op, s.alone = slot[r].alone,
           s.entity.status \in {slot[r].entity.status, "none"},
           s.entity.email \in {slot[r].entity.email, NoEmail},
           s.entity.vcode \in {slot[r].entity.vcode, NoEmail},
           s.entity.pending = slot[r].entity.pending \/ s.entity.pending = NoEmail,
           s.op # "requestEmailChange" => s.entity.pcode \in {slot[r].entity.pcode, NoEmail},
           s.op = "login" => s.entity.pw = slot[r].entity.pw,
           SlotOK(r, s)', s.alone /\ s.op = "requestEmailChange" => AloneOK(r, s)',
           UNCHANGED <<row, entered, passwords, failures, accounted, crossed, held, closed>>,
           codes' \in 0..MaxCodes, CodesInv'
    PROVE  IInv'
<1>1. slot \in [Requests -> Slot] BY DEF IInv, TypeOK
<1>2. slot'[r] = s /\ \A q \in Requests \ {r} : slot'[q] = slot[q] BY <1>1
<1>3. slot' \in [Requests -> Slot] /\ \A q \in Requests \ {r} : Same(q)
  BY <1>1, <1>2 DEF Same
<1>4. /\ passwords' \in 0..MaxPasswords /\ failures' \in 0..MaxFailures
      /\ accounted' \in SUBSET (Users \X Emails) /\ accounted' = accounted
  BY DEF IInv, TypeOK
<1>5. Arrives(r, u, s)'
  <2>1. \A q \in Requests \ {r} : slot'[q].at = "new" => slot'[q].of # u
    BY <1>2 DEF IInv, SlotInv, SlotOK
  <2>2. u \in closed /\ s.entity.status = "active" => s.op \in {"verify", "updateStatus"}
    BY DEF IInv, ShutInv
  <2>3. held[u] # 0 /\ s.op = "login" => s.entity.pw = held[u]
    BY DEF IInv, PasswordInv
  <2>4. ASSUME MovesPending(s.op), NEW q \in Others(r, u)', slot'[q].op = "requestEmailChange"
        PROVE  ~slot'[q].alone
    <3>1. q \in Requests \ {r} /\ slot'[q] = slot[q] /\ slot[q].of = u
      BY <1>2, <2>4 DEF Others
    <3>2. r \in Others(q, slot[q].of) BY <3>1 DEF Others
    <3>3. slot[q].at # "idle" BY <3>1, Nothing DEF IInv, SlotInv, SlotOK
    <3>4. slot[q].alone => AloneOK(q, slot[q])
      BY <2>4, <3>1, <3>3 DEF IInv, AloneInv
    <3>5. QED BY <2>4, <3>1, <3>2, <3>4 DEF AloneOK
  <2>5. Fresh(u)' => FreshSlot(u, s)'
    <3> SUFFICES ASSUME Fresh(u) PROVE FreshSlot(u, s)' BY DEF Fresh
    <3>1. FreshSlot(u, slot[r]) BY DEF IInv, FreshInv, FreshOK
    <3>2. QED BY <3>1 DEF FreshSlot
  <2>6. row[u].status # "none" /\ ~Fresh(u)' /\ s.entity.email # NoEmail
          => <<u, s.entity.email>> \in accounted'
    BY DEF IInv, ProvedInv, ProvedOK, Fresh
  <2>7. QED BY <2>1, <2>2, <2>3, <2>4, <2>5, <2>6 DEF Arrives, MovesPending
<1>6. \A f : s # Idle /\ s.alone /\ Bears(s.op) /\ OneAddress(u, f)
               => s.entity.pending \in {f, NoEmail} /\ s.entity.pcode \in {f, NoEmail}
  BY DEF Bears, OneAddress
<1>7. QED BY <1>2, <1>3, <1>4, <1>5, <1>6, RowsKept

\* A change of address goes on, its code made.
LEMMA CheckFreeKeeps ==
    ASSUME IInv, NEW r \in Requests, CheckFree(r)
    PROVE  IInv'
<1> DEFINE a == slot[r]
           x == IF a.op = "requestEmailChange" THEN [a.entity EXCEPT !.pcode = a.entity.pending]
                ELSE a.entity
           t == [at |-> "loaded", op |-> a.op, of |-> a.of, dirty |-> a.dirty, alone |-> a.alone,
                 entity |-> x]
<1>1. /\ a.at = "checking" /\ codes' = IF a.op = "requestEmailChange" THEN codes + 1 ELSE codes
      /\ UNCHANGED <<row, entered, passwords, failures, accounted, crossed, held, closed>>
  BY DEF CheckFree, CountCode, history
<1>2. slot \in [Requests -> Slot] /\ a \in Slot BY DEF IInv, TypeOK
<1>3. slot' = [slot EXCEPT ![r] = t]
  <2>1. CASE a.op = "requestEmailChange"
    <3>1. slot' = [slot EXCEPT ![r].at = "loaded", ![r].entity.pcode = a.entity.pending]
      BY <2>1 DEF CheckFree
    <3>2. slot' = [slot EXCEPT ![r] = [a EXCEPT !.at = "loaded", !.entity = x]]
      BY <1>2, <2>1, <3>1
    <3>3. \A y : [a EXCEPT !.at = "loaded", !.entity = y]
                   = [at |-> "loaded", op |-> a.op, of |-> a.of, dirty |-> a.dirty,
                      alone |-> a.alone, entity |-> y]
      <4>1. PICK b : b = [a EXCEPT !.at = "loaded"] OBVIOUS
      <4>2. b = [at |-> "loaded", op |-> a.op, of |-> a.of, entity |-> a.entity,
                 dirty |-> a.dirty, alone |-> a.alone]
        BY <1>2, <4>1 DEF Slot
      <4>3. \A y : [b EXCEPT !.entity = y]
                     = [at |-> "loaded", op |-> a.op, of |-> a.of, dirty |-> a.dirty,
                        alone |-> a.alone, entity |-> y]
        BY <4>2
      <4>4. QED BY <4>1, <4>3
    <3>4. QED BY <3>2, <3>3
  <2>2. CASE a.op # "requestEmailChange"
    <3>1. slot' = [slot EXCEPT ![r].at = "loaded"] BY <2>2 DEF CheckFree
    <3>2. [a EXCEPT !.at = "loaded"] = t BY <1>2, <2>2 DEF Slot
    <3>3. QED BY <3>1, <3>2
  <2>3. QED BY <2>1, <2>2
<1>4. /\ a.of \in Users /\ row[a.of].status # "none"
      /\ \A c \in Columns \ Carried(a.op) : a.entity[c] = NoRow[c]
      /\ "status" \in Carried(a.op) => a.entity.status # "none"
      /\ "email" \in Carried(a.op) => a.entity.email \in Emails
      /\ "pw" \in Carried(a.op) => a.entity.pw # 0
      /\ a.op \in {"requestEmailChange", "confirmEmailChange"} /\ a.op \in Ops
  BY <1>1 DEF IInv, SlotInv, SlotOK, Holds
<1>5. /\ x \in Row /\ x.status = a.entity.status /\ x.email = a.entity.email
      /\ x.pw = a.entity.pw /\ x.pending = a.entity.pending /\ x.vcode = a.entity.vcode
      /\ IF a.op = "requestEmailChange" THEN x.pcode = x.pending ELSE x.pcode = a.entity.pcode
      /\ \A c \in Columns : c # "pcode" => x[c] = a.entity[c]
  BY <1>2, <1>4 DEF Slot, Row, Columns
<1>6. "pcode" \in Carried(a.op) BY <1>4, CarriedColumns
<1> HIDE DEF x
<1>7. PICK s \in Slot : s = t
  <2>1. t \in Slot BY <1>2, <1>5 DEF Slot
  <2>2. QED BY <2>1
<1>8. /\ s.at = "loaded" /\ s.op = a.op /\ s.of = a.of /\ s.alone = a.alone /\ s.entity = x
      /\ slot' = [slot EXCEPT ![r] = s]
  BY <1>3, <1>7
<1> HIDE DEF t
<1>9. SlotOK(r, s)'
  <2>1. Holds(s)' = Carried(a.op) BY <1>8 DEF Holds
  <2>2. \A c \in Columns \ Carried(a.op) : x[c] = NoRow[c] BY <1>4, <1>5, <1>6
  <2>3. QED BY <1>1, <1>4, <1>5, <1>8, <2>1, <2>2 DEF SlotOK
<1>10. s.alone /\ s.op = "requestEmailChange" => AloneOK(r, s)'
  <2> SUFFICES ASSUME s.alone, s.op = "requestEmailChange" PROVE AloneOK(r, s)' OBVIOUS
  <2>1. AloneOK(r, a) BY <1>1, <1>8 DEF IInv, AloneInv
  <2>2. \A q \in Requests \ {r} : slot'[q] = slot[q] BY <1>2, <1>8
  <2>3. QED BY <1>5, <1>8, <2>1, <2>2 DEF AloneOK, Others, MovesPending
<1>11. codes' \in 0..MaxCodes /\ CodesInv'
  <2>1. /\ codes \in 0..MaxCodes /\ MaxCodes \in Nat
        /\ codes + Cardinality(Making) <= MaxCodes
    BY BoundsAssumption DEF IInv, TypeOK, CodesInv
  <2>2. \A q \in Requests \ {r} : MakesCode(slot[q])' <=> MakesCode(slot[q])
    BY <1>2, <1>8 DEF MakesCode
  <2>3. slot'[r] = s BY <1>2, <1>8
  <2>4. /\ a.op = "requestEmailChange" => MakesCode(slot[r])
        /\ ~MakesCode(slot[r])'
    BY <1>1, <1>8, <2>3 DEF MakesCode
  <2>5. /\ Cardinality(Making) \in Nat /\ Cardinality(Making') \in Nat
        /\ ~MakesCode(slot[r])' => Cardinality(Making') <= Cardinality(Making)
        /\ MakesCode(slot[r]) /\ ~MakesCode(slot[r])'
             => Cardinality(Making') = Cardinality(Making) - 1
    BY <2>2, MakingCount
  <2>6. QED BY <1>1, <2>1, <2>4, <2>5 DEF CodesInv
<1>12. QED BY <1>1, <1>4, <1>5, <1>8, <1>9, <1>10, <1>11, GoesOn

\* What a handler that is about to write will have written.
LEMMA WrittenColumns ==
    ASSUME NEW s \in Slot, row[s.of] \in Row
    PROVE  /\ Written(s) \in Row
           /\ \A c \in Columns : Written(s)[c] = IF c \in s.dirty THEN s.entity[c] ELSE row[s.of][c]
           /\ Written(s).status = IF "status" \in s.dirty THEN s.entity.status ELSE row[s.of].status
           /\ Written(s).email = IF "email" \in s.dirty THEN s.entity.email ELSE row[s.of].email
           /\ Written(s).pw = IF "pw" \in s.dirty THEN s.entity.pw ELSE row[s.of].pw
           /\ Written(s).pending = IF "pending" \in s.dirty THEN s.entity.pending ELSE row[s.of].pending
           /\ Written(s).pcode = IF "pcode" \in s.dirty THEN s.entity.pcode ELSE row[s.of].pcode
           /\ Written(s).vcode = IF "vcode" \in s.dirty THEN s.entity.vcode ELSE row[s.of].vcode
<1>1. PICK a \in Row : a = s.entity BY DEF Slot
<1>2. PICK b \in Row : b = row[s.of] OBVIOUS
<1> DEFINE x == [c \in Columns |-> IF c \in s.dirty THEN a[c] ELSE b[c]]
<1>3. Written(s) = x BY <1>1, <1>2 DEF Written
<1>4. /\ x \in Row /\ \A c \in Columns : x[c] = IF c \in s.dirty THEN a[c] ELSE b[c]
      /\ x.status = IF "status" \in s.dirty THEN a.status ELSE b.status
      /\ x.email = IF "email" \in s.dirty THEN a.email ELSE b.email
      /\ x.pw = IF "pw" \in s.dirty THEN a.pw ELSE b.pw
      /\ x.pending = IF "pending" \in s.dirty THEN a.pending ELSE b.pending
      /\ x.pcode = IF "pcode" \in s.dirty THEN a.pcode ELSE b.pcode
      /\ x.vcode = IF "vcode" \in s.dirty THEN a.vcode ELSE b.vcode
  BY MixedRow
<1> HIDE DEF x
<1>5. QED BY <1>1, <1>2, <1>3, <1>4

\* save has read the row again.
LEMMA SaveSelectKeeps ==
    ASSUME IInv, NEW r \in Requests, SaveSelect(r)
    PROVE  IInv'
<1> DEFINE a == slot[r]
           d == Differing(a)
           x == [c \in Columns |-> IF c \in d THEN a.entity[c] ELSE NoRow[c]]
           t == [at |-> "selected", op |-> a.op, of |-> a.of, dirty |-> d, alone |-> a.alone,
                 entity |-> x]
<1>1. /\ a.at = "loaded" /\ slot' = [slot EXCEPT ![r] = t]
      /\ UNCHANGED <<row, entered, codes, passwords, failures, accounted, crossed, held, closed>>
  BY DEF SaveSelect, history
<1>2. slot \in [Requests -> Slot] /\ a \in Slot /\ a.entity \in Row BY DEF IInv, TypeOK, Slot
<1>3. /\ a.of \in Users /\ row[a.of].status # "none" /\ row[a.of] \in Row /\ a.op \in Ops
      /\ "status" \in Carried(a.op) => a.entity.status # "none"
      /\ "email" \in Carried(a.op) => a.entity.email \in Emails
      /\ "pw" \in Carried(a.op) => a.entity.pw # 0
  BY <1>1 DEF IInv, TypeOK, SlotInv, SlotOK, Holds
<1>4. /\ d \subseteq Carried(a.op) /\ Carried(a.op) \cap Hidden \subseteq d
      /\ \A c \in Carried(a.op) \ d : a.entity[c] = row[a.of][c]
  BY DEF Differing
<1>5. d \in SUBSET Columns BY <1>4, CarriedColumns
<1> HIDE DEF d
<1>6. /\ x \in Row /\ \A c \in Columns : x[c] = IF c \in d THEN a.entity[c] ELSE NoRow[c]
      /\ x.status = IF "status" \in d THEN a.entity.status ELSE "none"
      /\ x.email = IF "email" \in d THEN a.entity.email ELSE NoEmail
      /\ x.pw = IF "pw" \in d THEN a.entity.pw ELSE 0
      /\ x.pending = IF "pending" \in d THEN a.entity.pending ELSE NoEmail
      /\ x.pcode = IF "pcode" \in d THEN a.entity.pcode ELSE NoEmail
      /\ x.vcode = IF "vcode" \in d THEN a.entity.vcode ELSE NoEmail
  BY <1>2, MixedRow, Nothing
<1> HIDE DEF x
<1>7. PICK s \in Slot : s = t
  <2>1. t \in Slot BY <1>2, <1>5, <1>6 DEF Slot
  <2>2. QED BY <2>1
<1>8. /\ s.at = "selected" /\ s.op = a.op /\ s.of = a.of /\ s.alone = a.alone
      /\ s.entity = x /\ s.dirty = d /\ slot' = [slot EXCEPT ![r] = s]
  BY <1>1, <1>7
<1> HIDE DEF t
<1>9. SlotOK(r, s)'
  <2>1. Holds(s)' = d BY <1>8 DEF Holds
  <2>2. \A c \in Columns \ d : x[c] = NoRow[c] BY <1>6
  <2>3. QED BY <1>1, <1>3, <1>4, <1>6, <1>8, <2>1, <2>2 DEF SlotOK
<1>10. s.op = "login" => s.entity.pw = a.entity.pw
  BY <1>3, <1>4, <1>6, <1>8, CarriedColumns DEF Hidden
<1>11. s.alone /\ s.op = "requestEmailChange" => AloneOK(r, s)'
  <2> SUFFICES ASSUME s.alone, s.op = "requestEmailChange" PROVE AloneOK(r, s)' OBVIOUS
  <2>1. AloneOK(r, a) BY <1>1, <1>8 DEF IInv, AloneInv
  <2>2. \A q \in Requests \ {r} : slot'[q] = slot[q] BY <1>2, <1>8
  <2>3. "pending" \in Carried(a.op) /\ "pcode" \in Carried(a.op)
    BY <1>3, <1>8, CarriedColumns
  <2>4. Written(s).pending = a.entity.pending /\ Written(s).pcode = a.entity.pcode
    <3>1. /\ Written(s).pending = IF "pending" \in s.dirty THEN s.entity.pending ELSE row[s.of].pending
          /\ Written(s).pcode = IF "pcode" \in s.dirty THEN s.entity.pcode ELSE row[s.of].pcode
      BY <1>3, <1>7, <1>8, WrittenColumns
    <3>2. a.entity["pending"] = a.entity.pending /\ row[a.of]["pending"] = row[a.of].pending OBVIOUS
    <3>3. "pending" \notin d => a.entity.pending = row[a.of].pending BY <1>4, <2>3
    <3>4. "pcode" \in d BY <1>4, <2>3 DEF Hidden
    <3>5. QED BY <1>6, <1>8, <3>1, <3>3, <3>4
  <2>5. Written(s)' = Written(s) BY <1>1 DEF Written
  <2>6. a.entity.pending = a.entity.pcode BY <1>1, <2>1 DEF AloneOK
  <2>7. QED BY <1>1, <1>8, <2>1, <2>2, <2>4, <2>5, <2>6 DEF AloneOK, Others, MovesPending
<1>12. codes' \in 0..MaxCodes /\ CodesInv'
  <2>1. /\ codes \in 0..MaxCodes /\ MaxCodes \in Nat
        /\ codes + Cardinality(Making) <= MaxCodes
    BY BoundsAssumption DEF IInv, TypeOK, CodesInv
  <2>2. \A q \in Requests \ {r} : MakesCode(slot[q])' <=> MakesCode(slot[q])
    BY <1>2, <1>8 DEF MakesCode
  <2>3. slot'[r] = s BY <1>2, <1>8
  <2>4. ~MakesCode(slot[r])' BY <1>8, <2>3 DEF MakesCode
  <2>5. /\ Cardinality(Making) \in Nat /\ Cardinality(Making') \in Nat
        /\ ~MakesCode(slot[r])' => Cardinality(Making') <= Cardinality(Making)
    BY <2>2, MakingCount
  <2>6. QED BY <1>1, <2>1, <2>4, <2>5 DEF CodesInv
<1>13. QED BY <1>1, <1>3, <1>6, <1>7, <1>8, <1>9, <1>10, <1>11, <1>12, GoesOn

-----------------------------------------------------------------------------
\* A write to the row of one user by a handler of that user: the invariant stays as it is for
\* all the others, and holds if what it says of that user does.
LEMMA RowWritten ==
    ASSUME IInv, NEW r \in Requests, NEW u \in Users, NEW x \in Row, NEW s \in Slot,
           row' \in [Users -> Row], row'[u] = x, \A v \in Users \ {u} : row'[v] = row[v],
           slot' \in [Requests -> Slot], slot'[r] = s, \A q \in Requests \ {r} : slot'[q] = slot[q],
           slot[r].of = u, s = Idle \/ s.of = u,
           x.status # "none" /\ x.email \in Emails /\ x.pw # 0,
           \A v \in Users \ {u} : /\ v \in entered' <=> v \in entered
                                  /\ v \in crossed' <=> v \in crossed
                                  /\ v \in closed' <=> v \in closed
                                  /\ held'[v] = held[v]
                                  /\ \A e : <<v, e>> \in accounted' <=> <<v, e>> \in accounted,
           entered' \in SUBSET Users, crossed' \in SUBSET Users, closed' \in SUBSET Users,
           held' \in [Users -> 0..MaxPasswords], accounted' \in SUBSET (Users \X Emails),
           codes' \in 0..MaxCodes, CodesInv', UNCHANGED <<passwords, failures>>,
           \A q \in Requests : slot'[q].of = u => SlotOK(q, slot[q])',
           u \in closed' =>
               /\ x.status # "active"
               /\ \A q \in Requests : slot'[q].of = u /\ slot'[q].entity.status = "active"
                                        => slot'[q].op \in {"verify", "updateStatus"},
           held'[u] # 0 =>
               /\ x.pw = held'[u]
               /\ \A q \in Requests : slot'[q].of = u /\ slot'[q].op = "login"
                                        => slot'[q].entity.pw = held'[u],
           u \notin crossed' => \E f \in Emails \cup {NoEmail} : OneAddress(u, f)',
           \A q \in Requests : slot'[q].of = u /\ slot'[q].alone /\ slot'[q].op = "requestEmailChange"
                                 => AloneOK(q, slot[q])',
           Fresh(u)' => FreshOK(u)', ~Fresh(u)' => ProvedOK(u)'
    PROVE  IInv'
<1>1. TypeOK /\ slot \in [Requests -> Slot] /\ row \in [Users -> Row] BY DEF IInv, TypeOK
<1>2. /\ row'[u] = x /\ \A v \in Users \ {u} : row'[v] = row[v]
      /\ slot'[r] = s /\ \A q \in Requests \ {r} : slot'[q] = slot[q]
      /\ row' \in [Users -> Row] /\ slot' \in [Requests -> Slot]
  OBVIOUS
<1>3. Idle.at = "idle" /\ Idle.of \notin Users BY Nothing
<1>4. TypeOK' BY <1>1, <1>2 DEF TypeOK
<1>5. \A q \in Requests : slot'[q].of # u /\ slot'[q].of \in Users => q # r /\ slot'[q] = slot[q]
  BY <1>2, <1>3
<1>6. \A q \in Requests : slot'[q].at # "idle" => slot'[q].of \in Users
  <2>1. \A q \in Requests : slot[q].at # "idle" => slot[q].of \in Users
    BY DEF IInv, SlotInv, SlotOK
  <2>2. QED BY <1>2, <1>3, <2>1
<1>7. SlotInv'
  <2> SUFFICES ASSUME NEW q \in Requests PROVE SlotOK(q, slot[q])' BY DEF SlotInv
  <2>1. CASE slot'[q].of = u BY <2>1
  <2>2. CASE slot'[q].of # u /\ q = r
    <3>1. slot'[q] = Idle BY <1>2, <2>2
    <3>2. QED BY <1>3, <3>1 DEF SlotOK
  <2>3. CASE slot'[q].of # u /\ q # r
    <3>1. SlotOK(q, slot[q]) /\ slot'[q] = slot[q] BY <1>2, <2>3 DEF IInv, SlotInv
    <3>2. slot[q].at # "idle" => slot[q].of \in Users /\ row'[slot[q].of] = row[slot[q].of]
      BY <1>2, <2>3, <3>1 DEF SlotOK
    <3>3. slot[q].at = "new" => \A o \in Requests \ {q} : slot'[o].of # slot'[q].of
      BY <1>2, <1>3, <2>3, <3>1, <3>2 DEF SlotOK
    <3>4. QED BY <3>1, <3>2, <3>3 DEF SlotOK, Holds
  <2>4. QED BY <2>1, <2>2, <2>3
<1>8. StoredInv' BY <1>2 DEF IInv, StoredInv
<1>9. ShutInv'
  <2> SUFFICES ASSUME NEW v \in closed'
               PROVE  /\ row'[v].status # "active"
                      /\ \A q \in Requests : slot'[q].of = v /\ slot'[q].entity.status = "active"
                                               => slot'[q].op \in {"verify", "updateStatus"}
    BY DEF ShutInv
  <2>1. v \in Users OBVIOUS
  <2>2. CASE v = u BY <1>2, <2>2
  <2>3. CASE v # u BY <1>2, <1>5, <2>1, <2>3 DEF IInv, ShutInv
  <2>4. QED BY <2>2, <2>3
<1>10. PasswordInv'
  <2> SUFFICES ASSUME NEW v \in Users, held'[v] # 0
               PROVE  /\ row'[v].pw = held'[v]
                      /\ \A q \in Requests : slot'[q].of = v /\ slot'[q].op = "login"
                                               => slot'[q].entity.pw = held'[v]
    BY DEF PasswordInv
  <2>1. CASE v = u BY <1>2, <2>1
  <2>2. CASE v # u BY <1>2, <1>5, <2>2 DEF IInv, PasswordInv
  <2>3. QED BY <2>1, <2>2
<1>11. PendingInv'
  <2> SUFFICES ASSUME NEW v \in Users \ crossed'
               PROVE  \E f \in Emails \cup {NoEmail} : OneAddress(v, f)'
    BY DEF PendingInv
  <2>1. CASE v = u BY <2>1
  <2>2. CASE v # u
    <3>1. PICK f \in Emails \cup {NoEmail} : OneAddress(v, f) BY <2>2 DEF IInv, PendingInv
    <3>2. \A q \in Requests : slot'[q].of = v => slot'[q] = slot[q] BY <1>5, <2>2
    <3>3. OneAddress(v, f)' BY <1>2, <2>2, <3>1, <3>2 DEF OneAddress, Bears, MovesPending
    <3>4. QED BY <3>3
  <2>3. QED BY <2>1, <2>2
<1>12. AloneInv'
  <2> SUFFICES ASSUME NEW q \in Requests,
                      slot'[q].at # "idle", slot'[q].alone, slot'[q].op = "requestEmailChange"
               PROVE  AloneOK(q, slot[q])'
    BY DEF AloneInv
  <2>1. CASE slot'[q].of = u BY <2>1
  <2>2. CASE slot'[q].of # u
    <3>1. q # r /\ slot'[q] = slot[q] /\ slot[q].of \in Users BY <1>5, <1>6, <2>2
    <3>2. AloneOK(q, slot[q]) BY <3>1 DEF IInv, AloneInv
    <3>3. row'[slot[q].of] = row[slot[q].of] BY <1>2, <2>2, <3>1
    <3>4. Others(q, slot[q].of)' \subseteq Others(q, slot[q].of)
          /\ \A o \in Others(q, slot[q].of)' : slot'[o] = slot[o]
      BY <1>5, <2>2, <3>1 DEF Others
    <3>5. Written(slot[q])' = Written(slot[q]) BY <3>1, <3>3 DEF Written
    <3>6. QED BY <3>1, <3>2, <3>3, <3>4, <3>5 DEF AloneOK, MovesPending
  <2>3. QED BY <2>1, <2>2
<1>13. FreshInv' /\ ProvedInv'
  <2>1. ASSUME NEW v \in Users \ {u}
        PROVE  /\ Fresh(v)' <=> Fresh(v)
               /\ FreshOK(v) => FreshOK(v)'
               /\ ProvedOK(v) => ProvedOK(v)'
    <3>1. row'[v] = row[v] /\ (v \in entered' <=> v \in entered) BY <1>2
    <3>2. \A q \in Requests : slot'[q].of = v => slot'[q] = slot[q] BY <1>5
    <3>3. \A e : <<v, e>> \in accounted' <=> <<v, e>> \in accounted OBVIOUS
    <3>4. Fresh(v)' <=> Fresh(v) BY <3>1, <3>3 DEF Fresh
    <3>5. FreshOK(v) => FreshOK(v)' BY <3>1, <3>2 DEF FreshOK, FreshSlot
    <3>6. ProvedOK(v) => ProvedOK(v)' BY <3>2, <3>3 DEF ProvedOK
    <3>7. QED BY <3>4, <3>5, <3>6
  <2>2. FreshInv' BY <2>1 DEF IInv, FreshInv
  <2>3. ProvedInv'
    <3> SUFFICES ASSUME NEW v \in Users, row'[v].status # "none", ~Fresh(v)' PROVE ProvedOK(v)'
      BY DEF ProvedInv
    <3>1. CASE v = u BY <3>1
    <3>2. CASE v # u BY <1>2, <2>1, <3>2 DEF IInv, ProvedInv
    <3>3. QED BY <3>1, <3>2
  <2>4. QED BY <2>2, <2>3
<1>14. QED
  BY <1>4, <1>7, <1>8, <1>9, <1>10, <1>11, <1>12, <1>13 DEF IInv

\* create: nobody else has anything to do with the user.
LEMMA InsertKeeps ==
    ASSUME IInv, NEW r \in Requests, Insert(r)
    PROVE  IInv'
<1> DEFINE a == slot[r]
<1>1. /\ a.at = "new" /\ Unique(a, a.entity.email)
      /\ row' = [row EXCEPT ![a.of] = a.entity] /\ held' = [held EXCEPT ![a.of] = a.entity.pw]
      /\ codes' = codes + 1
      /\ slot' = [slot EXCEPT ![r].at = "loaded", ![r].entity.vcode = a.entity.email]
      /\ UNCHANGED <<entered, passwords, failures, accounted, crossed, closed>>
  BY DEF Insert, CountCode
<1>2. slot \in [Requests -> Slot] /\ a \in Slot /\ a.entity \in Row BY DEF IInv, TypeOK, Slot
<1>3. /\ a.of \in Users /\ a.op = "create" /\ row[a.of].status = "none"
      /\ \A q \in Requests \ {r} : slot[q].of # a.of
      /\ a.entity.status = "pending_verification" /\ a.entity.pending = NoEmail
      /\ a.entity.pcode = NoEmail /\ a.entity.vcode = NoEmail
      /\ "email" \in Carried(a.op) => a.entity.email \in Emails
      /\ "pw" \in Carried(a.op) => a.entity.pw # 0
  BY <1>1 DEF IInv, SlotInv, SlotOK, Holds
<1>4. Carried("create") = Columns /\ "email" \in Columns /\ "pw" \in Columns
  BY DEF Carried, Columns
<1>5. PICK u \in Users : u = a.of BY <1>3
<1>6. PICK x \in Row : x = a.entity BY <1>2
<1>7. /\ x.status = "pending_verification" /\ x.email \in Emails /\ x.pw # 0
      /\ x.pending = NoEmail /\ x.pcode = NoEmail /\ x.vcode = NoEmail
  BY <1>3, <1>4, <1>6
<1>8. PICK y \in Row : y = [x EXCEPT !.vcode = x.email] BY <1>7 DEF Row
<1>9. /\ y.status = x.status /\ y.email = x.email /\ y.pw = x.pw
      /\ y.pending = x.pending /\ y.pcode = x.pcode /\ y.vcode = x.email
  BY <1>8 DEF Row
<1>10. PICK s \in Slot : s = [at |-> "loaded", op |-> "create", of |-> u, entity |-> y,
                              dirty |-> a.dirty, alone |-> a.alone]
  BY <1>2, <1>3, <1>5, <1>8 DEF Slot
<1>11. slot' = [slot EXCEPT ![r] = s]
  <2>1. slot' = [slot EXCEPT ![r] = [a EXCEPT !.at = "loaded", !.entity = y]]
    BY <1>1, <1>2, <1>6, <1>8
  <2>2. PICK b : b = [a EXCEPT !.at = "loaded"] OBVIOUS
  <2>3. b = [at |-> "loaded", op |-> "create", of |-> u, entity |-> a.entity,
             dirty |-> a.dirty, alone |-> a.alone]
    BY <1>2, <1>3, <1>5, <2>2 DEF Slot
  <2>4. [b EXCEPT !.entity = y] = s BY <1>10, <2>3
  <2>5. QED BY <2>1, <2>2, <2>4
<1>12. /\ s.at = "loaded" /\ s.op = "create" /\ s.of = u /\ s.entity = y BY <1>10
<1>13. /\ slot' \in [Requests -> Slot] /\ slot'[r] = s
       /\ \A q \in Requests \ {r} : slot'[q] = slot[q] /\ slot[q].of # u
  BY <1>2, <1>3, <1>5, <1>11
<1>14. row' \in [Users -> Row] /\ row'[u] = x /\ \A v \in Users \ {u} : row'[v] = row[v]
  BY <1>1, <1>5, <1>6 DEF IInv, TypeOK
<1>15. \A q \in Requests : slot'[q].of = u <=> q = r BY <1>12, <1>13
<1>16. SlotOK(r, s)'
  <2>1. Holds(s)' = Columns BY <1>4, <1>12 DEF Holds
  <2>2. "create" \in Ops BY DEF Ops
  <2>3. QED BY <1>7, <1>9, <1>12, <1>14, <2>1, <2>2 DEF SlotOK
<1>17. OneAddress(u, NoEmail)'
  <2>1. \A q \in Requests : slot'[q].of = u => slot'[q].entity = y BY <1>12, <1>13, <1>15
  <2>2. QED BY <1>7, <1>9, <1>14, <2>1 DEF OneAddress
<1>18. Fresh(u)' => FreshOK(u)'
  <2>1. u \notin entered BY <1>3, <1>5 DEF IInv, StoredInv
  <2>2. FreshSlot(u, s)' BY <1>7, <1>9, <1>12, <1>14 DEF FreshSlot
  <2>3. QED BY <1>1, <1>7, <1>13, <1>14, <1>15, <2>1, <2>2 DEF FreshOK
<1>19. ~Fresh(u)' => ProvedOK(u)'
  BY <1>7, <1>9, <1>12, <1>13, <1>14, <1>15 DEF Fresh, ProvedOK
<1>20. codes' \in 0..MaxCodes /\ CodesInv'
  <2>1. /\ codes \in 0..MaxCodes /\ MaxCodes \in Nat
        /\ codes + Cardinality(Making) <= MaxCodes
    BY BoundsAssumption DEF IInv, TypeOK, CodesInv
  <2>2. \A q \in Requests \ {r} : MakesCode(slot[q])' <=> MakesCode(slot[q])
    BY <1>13 DEF MakesCode
  <2>3. MakesCode(slot[r]) /\ ~MakesCode(slot[r])' BY <1>1, <1>12, <1>13 DEF MakesCode
  <2>4. /\ Cardinality(Making) \in Nat /\ Cardinality(Making') \in Nat
        /\ MakesCode(slot[r]) /\ ~MakesCode(slot[r])'
             => Cardinality(Making') = Cardinality(Making) - 1
    BY <2>2, MakingCount
  <2>5. QED BY <1>1, <2>1, <2>3, <2>4 DEF CodesInv
<1>21. /\ held' \in [Users -> 0..MaxPasswords] /\ held'[u] = x.pw
       /\ \A v \in Users \ {u} : held'[v] = held[v]
       /\ entered \in SUBSET Users /\ crossed \in SUBSET Users /\ closed \in SUBSET Users
       /\ accounted \in SUBSET (Users \X Emails)
  <2>1. x.pw \in 0..MaxPasswords BY DEF Row
  <2>2. QED BY <1>1, <1>5, <1>6, <2>1 DEF IInv, TypeOK
<1>22. QED
  <2>1. \A q \in Requests : slot'[q].of = u => SlotOK(q, slot[q])'
    BY <1>13, <1>15, <1>16
  <2>2. \A q \in Requests : slot'[q].of = u /\ slot'[q].alone /\ slot'[q].op = "requestEmailChange"
                              => AloneOK(q, slot[q])'
    BY <1>12, <1>13, <1>15
  <2>3. \A q \in Requests : slot'[q].of = u => slot'[q].op = "create" /\ slot'[q].entity.status # "active"
    BY <1>7, <1>9, <1>12, <1>13, <1>15
  <2>4. slot[r].of = u /\ s.of = u
    BY <1>3, <1>5, <1>12
  <2>5. /\ \A v \in Users \ {u} : /\ v \in entered' <=> v \in entered
                                  /\ v \in crossed' <=> v \in crossed
                                  /\ v \in closed' <=> v \in closed
                                  /\ held'[v] = held[v]
                                  /\ \A e : <<v, e>> \in accounted' <=> <<v, e>> \in accounted
        /\ entered' \in SUBSET Users /\ crossed' \in SUBSET Users /\ closed' \in SUBSET Users
        /\ accounted' \in SUBSET (Users \X Emails) /\ UNCHANGED <<passwords, failures>>
    BY <1>1, <1>21
  <2>6. /\ u \in closed' =>
               /\ x.status # "active"
               /\ \A q \in Requests : slot'[q].of = u /\ slot'[q].entity.status = "active"
                                        => slot'[q].op \in {"verify", "updateStatus"}
        /\ held'[u] # 0 =>
               /\ x.pw = held'[u]
               /\ \A q \in Requests : slot'[q].of = u /\ slot'[q].op = "login"
                                        => slot'[q].entity.pw = held'[u]
        /\ u \notin crossed' => \E f \in Emails \cup {NoEmail} : OneAddress(u, f)'
    BY <1>7, <1>17, <1>21, <2>3
  <2>7. x.status # "none" /\ x.email \in Emails /\ x.pw # 0 BY <1>7
  <2>8. QED
    BY <1>13, <1>14, <1>18, <1>19, <1>20, <1>21, <2>1, <2>2, <2>4, <2>5, <2>6, <2>7, RowWritten

\* A write that leaves the pending address and its code alone changes neither for another
\* handler.
LEMMA WrittenSame ==
    ASSUME NEW s \in Slot, row[s.of] \in Row, row'[s.of] \in Row,
           row'[s.of].pending = row[s.of].pending, row'[s.of].pcode = row[s.of].pcode
    PROVE  Written(s)'.pending = Written(s).pending /\ Written(s)'.pcode = Written(s).pcode
<1>1. "pending" \in Columns /\ "pcode" \in Columns BY DEF Columns
<1>2. /\ Written(s)["pending"] = IF "pending" \in s.dirty THEN s.entity["pending"] ELSE row[s.of]["pending"]
      /\ Written(s)["pcode"] = IF "pcode" \in s.dirty THEN s.entity["pcode"] ELSE row[s.of]["pcode"]
  BY <1>1 DEF Written
<1>3. /\ Written(s)'["pending"] = IF "pending" \in s.dirty THEN s.entity["pending"] ELSE row'[s.of]["pending"]
      /\ Written(s)'["pcode"] = IF "pcode" \in s.dirty THEN s.entity["pcode"] ELSE row'[s.of]["pcode"]
  BY <1>1 DEF Written
<1>4. QED BY <1>2, <1>3

\* What a handler is about to write, in the terms of the invariant.
LEMMA CommitFacts ==
    ASSUME IInv, NEW r \in Requests, slot[r].at = "selected"
    PROVE  LET a == slot[r]
               u == a.of
               x == Written(a)
           IN  /\ a \in Slot /\ u \in Users /\ a.op \in Ops /\ row[u].status # "none" /\ row[u] \in Row
               /\ a.dirty \subseteq Carried(a.op) /\ Carried(a.op) \cap Hidden \subseteq a.dirty
               /\ x \in Row /\ x.status # "none" /\ x.email \in Emails /\ x.pw # 0
               /\ x.status \in {a.entity.status, row[u].status}
               /\ x.email \in {a.entity.email, row[u].email}
               /\ x.pw = IF "pw" \in a.dirty THEN a.entity.pw ELSE row[u].pw
               /\ x.vcode \in {a.entity.vcode, row[u].vcode}
               /\ x.pending = IF "pending" \in a.dirty THEN a.entity.pending ELSE row[u].pending
               /\ x.pcode = IF "pcode" \in a.dirty THEN a.entity.pcode ELSE row[u].pcode
<1>1. PICK a \in Slot : a = slot[r] BY DEF IInv, TypeOK
<1>2. SlotOK(r, a) BY <1>1 DEF IInv, SlotInv
<1>3. /\ a.of \in Users /\ a.op \in Ops /\ row[a.of].status # "none"
      /\ "status" \in a.dirty => a.entity.status # "none"
      /\ "email" \in a.dirty => a.entity.email \in Emails
      /\ "pw" \in a.dirty => a.entity.pw # 0
      /\ a.dirty \subseteq Carried(a.op) /\ Carried(a.op) \cap Hidden \subseteq a.dirty
  BY <1>1, <1>2 DEF SlotOK, Holds
<1>4. row[a.of] \in Row /\ row[a.of].email \in Emails /\ row[a.of].pw # 0
  BY <1>3 DEF IInv, TypeOK
<1>5. /\ Written(a) \in Row
      /\ Written(a).status = IF "status" \in a.dirty THEN a.entity.status ELSE row[a.of].status
      /\ Written(a).email = IF "email" \in a.dirty THEN a.entity.email ELSE row[a.of].email
      /\ Written(a).pw = IF "pw" \in a.dirty THEN a.entity.pw ELSE row[a.of].pw
      /\ Written(a).pending = IF "pending" \in a.dirty THEN a.entity.pending ELSE row[a.of].pending
      /\ Written(a).pcode = IF "pcode" \in a.dirty THEN a.entity.pcode ELSE row[a.of].pcode
      /\ Written(a).vcode = IF "vcode" \in a.dirty THEN a.entity.vcode ELSE row[a.of].vcode
  BY <1>4, WrittenColumns
<1>6. QED BY <1>1, <1>3, <1>4, <1>5

\* The UPDATE.
LEMMA SaveCommitKeeps ==
    ASSUME IInv, NEW r \in Requests, SaveCommit(r)
    PROVE  IInv'
<1>1. PICK a \in Slot : a = slot[r] BY DEF IInv, TypeOK
<1>2. PICK u \in Users : u = a.of
  <2>1. a.of \in Users BY <1>1, CommitFacts DEF SaveCommit
  <2>2. QED BY <2>1
<1>3. PICK x \in Row : x = Written(a)
  <2>1. Written(a) \in Row BY <1>1, CommitFacts DEF SaveCommit
  <2>2. QED BY <2>1
<1>4. /\ a.at = "selected" /\ row' = [row EXCEPT ![u] = x] /\ slot' = [slot EXCEPT ![r] = Idle]
      /\ entered' = IF a.op = "login" THEN entered \cup {u} ELSE entered
      /\ held' = Held(r, a) /\ closed' = Closed(r, a) /\ crossed' = Crossed(a)
      /\ accounted' = accounted \cup Vouched(a)
      /\ UNCHANGED <<codes, passwords, failures>>
  BY <1>1, <1>2, <1>3 DEF SaveCommit
<1>5. /\ a.op \in Ops /\ row[u].status # "none" /\ row[u] \in Row
      /\ a.dirty \subseteq Carried(a.op) /\ Carried(a.op) \cap Hidden \subseteq a.dirty
      /\ x.status # "none" /\ x.email \in Emails /\ x.pw # 0
      /\ x.status \in {a.entity.status, row[u].status}
      /\ x.email \in {a.entity.email, row[u].email}
      /\ x.pw = IF "pw" \in a.dirty THEN a.entity.pw ELSE row[u].pw
      /\ x.vcode \in {a.entity.vcode, row[u].vcode}
      /\ x.pending = IF "pending" \in a.dirty THEN a.entity.pending ELSE row[u].pending
      /\ x.pcode = IF "pcode" \in a.dirty THEN a.entity.pcode ELSE row[u].pcode
  BY <1>1, <1>2, <1>3, <1>4, CommitFacts
<1>6. /\ row \in [Users -> Row] /\ slot \in [Requests -> Slot]
      /\ entered \in SUBSET Users /\ crossed \in SUBSET Users /\ closed \in SUBSET Users
      /\ accounted \in SUBSET (Users \X Emails) /\ held \in [Users -> 0..MaxPasswords]
  BY DEF IInv, TypeOK
<1>7. PICK s \in Slot : s = Idle BY Nothing
<1>8. /\ row' \in [Users -> Row] /\ row'[u] = x /\ \A v \in Users \ {u} : row'[v] = row[v]
      /\ slot' \in [Requests -> Slot] /\ slot'[r] = s
      /\ \A q \in Requests \ {r} : slot'[q] = slot[q]
  BY <1>4, <1>6, <1>7
<1>9. \A q \in Requests : slot'[q].of = u => q # r /\ slot'[q] = slot[q] /\ q \in Others(r, u)
  BY <1>7, <1>8, Nothing DEF Others
<1>10. /\ \A v \in Users \ {u} : /\ v \in entered' <=> v \in entered
                                 /\ v \in crossed' <=> v \in crossed
                                 /\ v \in closed' <=> v \in closed
                                 /\ held'[v] = held[v]
                                 /\ \A e : <<v, e>> \in accounted' <=> <<v, e>> \in accounted
       /\ entered' \in SUBSET Users /\ crossed' \in SUBSET Users /\ closed' \in SUBSET Users
       /\ accounted' \in SUBSET (Users \X Emails) /\ held' \in [Users -> 0..MaxPasswords]
  <2>1. /\ entered' \in SUBSET Users
        /\ \A v \in Users \ {u} : v \in entered' <=> v \in entered
    BY <1>4, <1>6
  <2>2. /\ crossed' \in SUBSET Users
        /\ \A v \in Users \ {u} : v \in crossed' <=> v \in crossed
    BY <1>2, <1>4, <1>6 DEF Crossed
  <2>3. /\ closed' \in SUBSET Users
        /\ \A v \in Users \ {u} : v \in closed' <=> v \in closed
    BY <1>2, <1>4, <1>6 DEF Closed
  <2>4. /\ held' \in [Users -> 0..MaxPasswords]
        /\ \A v \in Users \ {u} : held'[v] = held[v]
    <3>1. a.entity.pw \in 0..MaxPasswords /\ 0 \in 0..MaxPasswords
      BY BoundsAssumption DEF Slot, Row
    <3>2. QED BY <1>2, <1>4, <1>6, <3>1 DEF Held
  <2>5. /\ accounted' \in SUBSET (Users \X Emails)
        /\ \A v \in Users \ {u} : \A e : <<v, e>> \in accounted' <=> <<v, e>> \in accounted
    BY <1>2, <1>3, <1>4, <1>5, <1>6 DEF Vouched
  <2>6. QED BY <2>1, <2>2, <2>3, <2>4, <2>5
<1>11. \A q \in Requests : slot'[q].of = u => SlotOK(q, slot[q])'
  <2> SUFFICES ASSUME NEW q \in Requests, slot'[q].of = u PROVE SlotOK(q, slot[q])' OBVIOUS
  <2>1. /\ q # r /\ slot'[q] = slot[q] /\ slot[q].of = u /\ SlotOK(q, slot[q])
    BY <1>9 DEF IInv, SlotInv
  <2>2. slot[q].at # "new" BY <1>1, <1>2, <2>1 DEF SlotOK
  <2>3. row'[u].status # "none" BY <1>5, <1>8
  <2>4. QED BY <2>1, <2>2, <2>3 DEF SlotOK, Holds
<1>12. u \in closed' =>
           /\ x.status # "active"
           /\ \A q \in Requests : slot'[q].of = u /\ slot'[q].entity.status = "active"
                                    => slot'[q].op \in {"verify", "updateStatus"}
  <2>1. CASE a.op \in {"deactivate", "updateStatus", "verify"}
    <3>1. u \in closed' => /\ x.status # "active"
                           /\ \A q \in Others(r, u) : slot[q].entity.status # "active"
      BY <1>2, <1>3, <1>4, <2>1 DEF Closed
    <3>2. QED BY <1>9, <3>1
  <2>2. CASE a.op \notin {"deactivate", "updateStatus", "verify"}
    <3>1. closed' = closed BY <1>4, <2>2 DEF Closed
    <3>2. u \in closed => /\ row[u].status # "active"
                          /\ \A q \in Requests : slot[q].of = u /\ slot[q].entity.status = "active"
                                                   => slot[q].op \in {"verify", "updateStatus"}
      BY DEF IInv, ShutInv
    <3>3. u \in closed => a.entity.status # "active" BY <1>1, <1>2, <2>2, <3>2
    <3>4. QED BY <1>5, <1>9, <3>1, <3>2, <3>3
  <2>3. QED BY <2>1, <2>2
<1>13. held'[u] # 0 =>
           /\ x.pw = held'[u]
           /\ \A q \in Requests : slot'[q].of = u /\ slot'[q].op = "login"
                                    => slot'[q].entity.pw = held'[u]
  <2>1. CASE ChoosesPassword(a.op)
    <3>1. held'[u] = IF \E q \in Others(r, u) : slot[q].op = "login" THEN 0 ELSE a.entity.pw
      BY <1>2, <1>4, <1>6, <2>1 DEF Held
    <3>2. "pw" \in a.dirty
      <4>1. "pw" \in Carried(a.op) BY <1>5, <2>1, CarriedColumns DEF ChoosesPassword
      <4>2. QED BY <1>5, <4>1 DEF Hidden
    <3>3. QED BY <1>5, <1>9, <3>1, <3>2
  <2>2. CASE ~ChoosesPassword(a.op)
    <3>1. held' = held BY <1>4, <2>2 DEF Held
    <3>2. held[u] # 0 => /\ row[u].pw = held[u]
                         /\ \A q \in Requests : slot[q].of = u /\ slot[q].op = "login"
                                                  => slot[q].entity.pw = held[u]
      BY DEF IInv, PasswordInv
    <3>3. "pw" \in a.dirty => a.op = "login"
      BY <1>5, <2>2, CarriedColumns DEF ChoosesPassword
    <3>4. QED BY <1>1, <1>2, <1>5, <1>9, <3>1, <3>2, <3>3
  <2>3. QED BY <2>1, <2>2
<1>14. a.op = "requestEmailChange" /\ a.alone => AloneOK(r, a)
  BY <1>1, <1>4 DEF IInv, AloneInv
<1>15. ~MovesPending(a.op) => x.pending = row[u].pending /\ x.pcode = row[u].pcode
  <2> SUFFICES ASSUME ~MovesPending(a.op)
               PROVE  x.pending = row[u].pending /\ x.pcode = row[u].pcode
    OBVIOUS
  <2>1. "pending" \notin Carried(a.op) BY DEF MovesPending
  <2>2. "pcode" \notin Carried(a.op) BY <1>5, <2>1, CarriedColumns
  <2>3. QED BY <1>5, <2>1, <2>2
<1>16. u \notin crossed' => \E f \in Emails \cup {NoEmail} : OneAddress(u, f)'
  <2> SUFFICES ASSUME u \notin crossed'
               PROVE  \E f \in Emails \cup {NoEmail} : OneAddress(u, f)'
    OBVIOUS
  <2>1. a.alone BY <1>2, <1>4 DEF Crossed
  <2>2. CASE a.op = "requestEmailChange"
    <3>1. x.pending = x.pcode /\ \A q \in Others(r, u) : ~MovesPending(slot[q].op)
      BY <1>2, <1>3, <1>4, <1>14, <2>1, <2>2 DEF AloneOK
    <3>2. \A q \in Requests : slot'[q].of = u => ~Bears(slot'[q].op)
      BY <1>9, <3>1 DEF Bears
    <3>3. OneAddress(u, x.pending)' BY <1>8, <3>1, <3>2 DEF OneAddress, Bears, MovesPending
    <3>4. x.pending \in Emails \cup {NoEmail} BY DEF Row
    <3>5. QED BY <3>3, <3>4
  <2>3. CASE a.op # "requestEmailChange"
    <3>1. u \notin crossed BY <1>2, <1>4, <2>1, <2>3 DEF Crossed
    <3>2. PICK f \in Emails \cup {NoEmail} : OneAddress(u, f) BY <3>1 DEF IInv, PendingInv
    <3>3. x.pending \in {f, NoEmail} /\ x.pcode \in {f, NoEmail}
      <4>1. CASE ~MovesPending(a.op) BY <1>15, <3>2, <4>1 DEF OneAddress
      <4>2. CASE MovesPending(a.op)
        <5>1. a.entity.pending \in {f, NoEmail} /\ a.entity.pcode \in {f, NoEmail}
          BY <1>1, <1>2, <2>1, <2>3, <3>2, <4>2 DEF OneAddress, Bears
        <5>2. QED BY <1>5, <3>2, <5>1 DEF OneAddress
      <4>3. QED BY <4>1, <4>2
    <3>4. \A q \in Requests : slot'[q].of = u => slot'[q] = slot[q] BY <1>9
    <3>5. OneAddress(u, f)' BY <1>8, <3>2, <3>3, <3>4 DEF OneAddress, Bears, MovesPending
    <3>6. QED BY <3>5
  <2>4. QED BY <2>2, <2>3
<1>17. \A q \in Requests : slot'[q].of = u /\ slot'[q].alone /\ slot'[q].op = "requestEmailChange"
                             => AloneOK(q, slot[q])'
  <2> SUFFICES ASSUME NEW q \in Requests, slot'[q].of = u, slot'[q].alone,
                      slot'[q].op = "requestEmailChange"
               PROVE  AloneOK(q, slot[q])'
    OBVIOUS
  <2>1. q # r /\ slot'[q] = slot[q] /\ slot[q].of = u BY <1>9
  <2>2. PICK b \in Slot : b = slot[q] BY <1>6
  <2>3. b.at # "idle" /\ b.of = u /\ slot'[q] = b
    BY <2>1, <2>2, Nothing DEF IInv, SlotInv, SlotOK
  <2>4. AloneOK(q, b) BY <2>1, <2>2, <2>3 DEF IInv, AloneInv
  <2>5. r \in Others(q, u) BY <1>1, <1>2, <2>1 DEF Others
  <2>6. ~MovesPending(a.op) BY <1>1, <2>3, <2>4, <2>5 DEF AloneOK
  <2>7. row'[u].pending = row[u].pending /\ row'[u].pcode = row[u].pcode
    BY <1>8, <1>15, <2>6
  <2>8. Written(b)'.pending = Written(b).pending /\ Written(b)'.pcode = Written(b).pcode
    BY <1>5, <1>8, <2>3, <2>7, WrittenSame
  <2>9. \A o \in Others(q, u)' : ~MovesPending(slot'[o].op)
    <3>1. \A o \in Others(q, u)' : o \in Others(q, u) /\ slot'[o] = slot[o]
      BY <1>9 DEF Others
    <3>2. QED BY <2>3, <2>4, <3>1 DEF AloneOK
  <2>10. QED BY <2>3, <2>4, <2>7, <2>8, <2>9 DEF AloneOK, MovesPending
<1>18. ASSUME ~Fresh(u)
       PROVE  <<u, x.email>> \in accounted /\ ProvedOK(u)' /\ ~Fresh(u)'
  <2>1. ProvedOK(u) BY <1>5, <1>18 DEF IInv, ProvedInv
  <2>2. <<u, row[u].email>> \in accounted BY <1>5, <1>18 DEF Fresh
  <2>3. a.entity.email # NoEmail => <<u, a.entity.email>> \in accounted
    BY <1>1, <1>2, <2>1 DEF ProvedOK
  <2>4. <<u, x.email>> \in accounted
    <3>1. x.email # NoEmail BY <1>5, Nothing
    <3>2. QED BY <1>5, <2>2, <2>3, <3>1
  <2>5. ProvedOK(u)' BY <1>4, <1>9, <2>1 DEF ProvedOK
  <2>6. ~Fresh(u)' BY <1>4, <1>8, <2>4 DEF Fresh
  <2>7. QED BY <2>4, <2>5, <2>6
<1>19. ASSUME Fresh(u)
       PROVE  /\ x.email = row[u].email /\ FreshOK(u) /\ FreshSlot(u, a)
              /\ \A q \in Requests : slot'[q].of = u => FreshSlot(u, slot'[q])
  <2>1. FreshOK(u) BY <1>19 DEF IInv, FreshInv
  <2>2. FreshSlot(u, a) BY <1>1, <1>2, <2>1 DEF FreshOK
  <2>3. x.email # NoEmail BY <1>5, Nothing
  <2>4. QED BY <1>5, <1>9, <2>1, <2>2, <2>3 DEF FreshSlot, FreshOK
<1>20. Fresh(u)' => FreshOK(u)'
  <2> SUFFICES ASSUME Fresh(u)' PROVE FreshOK(u)' OBVIOUS
  <2>1. Fresh(u) BY <1>18
  <2>2. /\ x.email = row[u].email /\ FreshOK(u) /\ FreshSlot(u, a)
        /\ \A q \in Requests : slot'[q].of = u => FreshSlot(u, slot'[q])
    BY <1>19, <2>1
  <2>3. <<u, x.email>> \notin accounted' BY <1>8 DEF Fresh
  <2>4. x.status # "active"
    <3>1. a.op = "updateStatus" => x.status # "active"
      BY <1>2, <1>3, <1>4, <2>3 DEF Vouched
    <3>2. a.op # "updateStatus" => a.entity.status # "active" BY <2>2 DEF FreshSlot
    <3>3. row[u].status # "active" BY <2>2 DEF FreshOK
    <3>4. QED BY <1>5, <3>1, <3>2, <3>3
  <2>5. u \notin entered' BY <1>4, <2>2 DEF FreshOK, FreshSlot
  <2>6. x.vcode \in {NoEmail, x.email} /\ x.pending = NoEmail
    BY <1>5, <2>2 DEF FreshOK, FreshSlot
  <2>7. \A q \in Requests : slot'[q].of = u => FreshSlot(u, slot[q])'
    BY <1>8, <2>2 DEF FreshSlot
  <2>8. QED BY <1>8, <2>4, <2>5, <2>6, <2>7 DEF FreshOK
<1>21. ~Fresh(u)' => ProvedOK(u)'
  <2>1. CASE ~Fresh(u) BY <1>18, <2>1
  <2>2. CASE Fresh(u)
    <3> SUFFICES ASSUME ~Fresh(u)', NEW q \in Requests, slot'[q].of = u,
                        slot'[q].entity.email # NoEmail
                 PROVE  <<u, slot'[q].entity.email>> \in accounted'
      BY DEF ProvedOK
    <3>1. x.email = row[u].email /\ FreshSlot(u, slot'[q]) BY <1>19, <2>2
    <3>2. slot'[q].entity.email = x.email BY <3>1 DEF FreshSlot
    <3>3. <<u, x.email>> \in accounted' BY <1>5, <1>8 DEF Fresh
    <3>4. QED BY <3>2, <3>3
  <2>3. QED BY <2>1, <2>2
<1>22. codes' \in 0..MaxCodes /\ CodesInv' BY <1>4, EndedCodes
<1>23. /\ slot[r].of = u /\ x.status # "none" /\ x.email \in Emails /\ x.pw # 0
       /\ UNCHANGED <<passwords, failures>>
  BY <1>1, <1>2, <1>4, <1>5
<1>24. QED
  BY <1>7, <1>8, <1>10, <1>11, <1>12, <1>13, <1>16, <1>17, <1>20, <1>21, <1>22, <1>23, RowWritten

-----------------------------------------------------------------------------
\* Every step of the accounts.
LEMMA NextIInv == ASSUME IInv, [Next]_vars PROVE IInv'
<1>1. CASE Next
  <2>1. CASE \E r \in Requests : \/ Insert(r) \/ CheckFree(r) \/ SaveSelect(r) \/ SaveCommit(r)
                                 \/ Refused(r) \/ Fail(r)
    BY <2>1, InsertKeeps, CheckFreeKeeps, SaveSelectKeeps, SaveCommitKeeps, EndsKeep
  <2>2. ASSUME NEW r \in Requests, NEW u \in Users,
               \/ Login(r, u) \/ ResendEmailConfirmation(r, u) \/ CancelEmailChange(r, u)
               \/ Profile(r, u) \/ DeactivateAccount(r, u)
               \/ \E status \in AdminStatuses : UpdateStatus(r, u, status)
        PROVE  IInv'
    BY <2>2, QuietLoads
  <2>3. ASSUME NEW r \in Requests, NEW u \in Users,
               \/ RegisterAgain(r, u) \/ ResendVerification(r, u) \/ ForgotPassword(r, u)
               \/ ResetPassword(r, u) \/ ChangePassword(r, u) \/ Verify(r, u)
        PROVE  IInv'
    BY <2>3, CodeLoads, PasswordLoads, VerifyLoads
  <2>4. ASSUME NEW r \in Requests, NEW u \in Users, NEW e \in Emails,
               Register(r, u, e) \/ RequestEmailChange(r, u, e) \/ ConfirmEmailChange(r, u, e)
        PROVE  IInv'
    BY <2>4, RegisterKeeps, RequestLoads, ConfirmLoads
  <2>5. QED BY <1>1, <2>1, <2>2, <2>3, <2>4 DEF Next
<1>2. CASE UNCHANGED vars
  <2>1. UNCHANGED <<row, slot, entered, codes, passwords, failures, accounted, crossed, held, closed>>
    BY <1>2 DEF vars
  <2>2. TypeOK' BY <2>1 DEF IInv, TypeOK
  <2>3. SlotInv' BY <2>1 DEF IInv, SlotInv, SlotOK, Holds
  <2>4. StoredInv' BY <2>1 DEF IInv, StoredInv
  <2>5. CodesInv'
    <3>1. Making' = Making BY <2>1 DEF Making, MakesCode
    <3>2. QED BY <2>1, <3>1 DEF IInv, CodesInv
  <2>6. ShutInv' BY <2>1 DEF IInv, ShutInv
  <2>7. PasswordInv' BY <2>1 DEF IInv, PasswordInv
  <2>8. PendingInv' BY <2>1 DEF IInv, PendingInv, OneAddress, Bears, MovesPending
  <2>9. AloneInv'
    <3>1. \A s : Written(s)' = Written(s) BY <2>1 DEF Written
    <3>2. QED BY <2>1, <3>1 DEF IInv, AloneInv, AloneOK, Others, MovesPending
  <2>10. FreshInv' BY <2>1 DEF IInv, FreshInv, Fresh, FreshOK, FreshSlot
  <2>11. ProvedInv' BY <2>1 DEF IInv, ProvedInv, Fresh, ProvedOK
  <2>12. QED
    BY <2>2, <2>3, <2>4, <2>5, <2>6, <2>7, <2>8, <2>9, <2>10, <2>11 DEF IInv
<1>3. QED BY <1>1, <1>2

\* The invariant, in every state the accounts reach.
THEOREM Invariance == Spec => []IInv
BY InitIInv, NextIInv, PTL DEF Spec

\* The users table, the handlers in flight and the counters are what they are declared to be,
\* and a stored user has an address and a password (every handler of auth.service.ts and
\* users.service.ts).
THEOREM TypeCorrect == Spec => []TypeOK
<1>1. IInv => TypeOK BY DEF IInv
<1>2. QED BY <1>1, Invariance, PTL

\* The address of an active account is proved, whatever changes, cancellations, resends,
\* failures and stale saves there are, and however many of them at once, except from a
\* requestEmailChange in flight together with another save that carries the pending address
\* until one that was alone (verify, confirmEmailChange and every save).
THEOREM AddressIsProved == Spec => []EmailProved
<1>1. IInv => EmailProved
  <2> SUFFICES ASSUME IInv, NEW u \in Users, row[u].status = "active"
               PROVE  <<u, row[u].email>> \in accounted
    BY DEF EmailProved
  <2>1. Fresh(u) => FreshOK(u) BY DEF IInv, FreshInv
  <2>2. QED BY <2>1 DEF Fresh, FreshOK
<1>2. QED BY <1>1, Invariance, PTL

\* No save but that of a login in flight puts an old password back (changePassword,
\* resetPassword, register and every save).
THEOREM PasswordStays == Spec => []ChosenPasswordHolds
<1>1. IInv => ChosenPasswordHolds BY DEF IInv, PasswordInv, ChosenPasswordHolds
<1>2. QED BY <1>1, Invariance, PTL

\* No save but that of a handler that had loaded the account as active opens it again
\* (deactivateAccount, updateStatus and every save).
THEOREM ShutAccountsStayShut == Spec => []ShutStaysShut
<1>1. IInv => ShutStaysShut BY DEF IInv, ShutInv, ShutStaysShut
<1>2. QED BY <1>1, Invariance, PTL

=============================================================================
