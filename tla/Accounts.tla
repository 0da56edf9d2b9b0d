------------------------------ MODULE Accounts ------------------------------
(***************************************************************************)
(* The users table: registration, e-mail verification, password reset and  *)
(* change, change of the e-mail address and the account's status           *)
(* (auth.service.ts, users.service.ts, user.entity.ts).                    *)
(*                                                                         *)
(* Every handler loads some columns of a row, changes some of them and     *)
(* saves the entity: save reads the row again, and writes the columns in   *)
(* which the entity differs from it.  Columns declared select: false are   *)
(* not read again, so a handler that carries them always writes them.      *)
(*                                                                         *)
(* Passwords are numbered as they are chosen.  A code or token is only     *)
(* ever compared with the one in the row: it stands in the model as the    *)
(* address it was mailed to.                                               *)
(* Cool-downs and expiries only refuse requests: they are the request not  *)
(* being made.  No route removes a user.  Sessions are in Sessions.        *)
(***************************************************************************)
EXTENDS Naturals, FiniteSets

CONSTANTS
    Users,         \* identities a user row can be given
    NoUser,
    Emails,        \* e-mail addresses
    NoEmail,
    AdminStatuses, \* bound: the statuses an administrator sets
    MaxCodes,      \* bound: codes and tokens mailed
    MaxPasswords,  \* bound: passwords chosen
    Requests,      \* requests that can be in flight at once
    MaxFailures    \* bound: requests that fail half-way

Statuses == {"active", "inactive", "pending_verification", "suspended", "deleted"}

ASSUME NullsAssumption  == NoUser \notin Users /\ NoEmail \notin Emails
ASSUME StatusAssumption == AdminStatuses \subseteq Statuses
ASSUME BoundsAssumption == MaxCodes \in Nat /\ MaxPasswords \in Nat /\ MaxFailures \in Nat
ASSUME RequestsAssumption == IsFiniteSet(Requests)

VARIABLES
    row,        \* the users table
    slot,       \* the handler each request has in flight
    entered,    \* users that have been given an access token
    codes,      \* codes and tokens made so far
    passwords,  \* passwords chosen so far
    failures,   \* requests that failed half-way so far
    accounted,  \* history: user and address, proved by a code or vouched for (see Confirm)
    crossed,    \* history: users whose last request for another address was in flight together
                \*          with a save that carries the pending address
    held,       \* history: the password a user chose last, 0 if a login was in flight then
    closed      \* history: accounts shut while no handler held them as active

history == <<accounted, crossed, held, closed>>
vars == <<row, slot, entered, codes, passwords, failures, accounted, crossed, held, closed>>

Row == [status  : Statuses \cup {"none"},
        email   : Emails \cup {NoEmail},
        pw      : 0..MaxPasswords,
        pending : Emails \cup {NoEmail},
        pcode   : Emails \cup {NoEmail},
        vcode   : Emails \cup {NoEmail},
        rtoken  : Emails \cup {NoEmail}]

NoRow == [status |-> "none", email |-> NoEmail, pw |-> 0,
          pending |-> NoEmail, pcode |-> NoEmail, vcode |-> NoEmail, rtoken |-> NoEmail]

Columns == {"status", "email", "pw", "pending", "pcode", "vcode", "rtoken"}

\* The columns declared select: false.
Hidden == {"pw", "pcode", "vcode", "rtoken"}

\* What an entity loaded without a select list has.
Visible == {"status", "email", "pending"}

\* Mutant of Carried: the profile is loaded with its password hash.
MutProfileCarriesPw(op) ==
    CASE op = "create" -> Columns
      [] op \in {"login", "changePassword", "profile"} -> Visible \cup {"pw"}
      [] op = "register" -> Visible \cup {"pw", "vcode"}
      [] op \in {"resendVerification", "verify"} -> {"status", "email", "vcode"}
      [] op = "forgotPassword" -> {"status", "email", "rtoken"}
      [] op = "resetPassword" -> {"status", "email", "rtoken", "pw"}
      [] op = "requestEmailChange" -> Visible \cup {"pcode"}
      [] op \in {"resendEmailConfirmation", "cancelEmailChange", "confirmEmailChange"} ->
             {"email", "pending", "pcode"}
      [] OTHER -> Visible

\* The columns the entity of a handler has when it is saved.
Carried(op) ==
    CASE op = "create" -> Columns
      [] op \in {"login", "changePassword"} -> Visible \cup {"pw"}
      [] op = "register" -> Visible \cup {"pw", "vcode"}
      [] op \in {"resendVerification", "verify"} -> {"status", "email", "vcode"}
      [] op = "forgotPassword" -> {"status", "email", "rtoken"}
      [] op = "resetPassword" -> {"status", "email", "rtoken", "pw"}
      [] op = "requestEmailChange" -> Visible \cup {"pcode"}
      [] op \in {"resendEmailConfirmation", "cancelEmailChange", "confirmEmailChange"} ->
             {"email", "pending", "pcode"}
      [] OTHER -> Visible

Ops == {"create", "login", "changePassword", "register", "resendVerification", "verify",
        "forgotPassword", "resetPassword", "requestEmailChange", "resendEmailConfirmation",
        "cancelEmailChange", "confirmEmailChange", "profile", "deactivate", "updateStatus"}

Slot == [at : {"idle", "new", "checking", "loaded", "selected"}, op : Ops \cup {"none"},
         of : Users \cup {NoUser}, entity : Row, dirty : SUBSET Columns, alone : BOOLEAN]

Idle == [at |-> "idle", op |-> "none", of |-> NoUser, entity |-> NoRow,
         dirty |-> {}, alone |-> TRUE]

Others(r, u) == {q \in Requests \ {r} : slot[q].of = u}

\* Saving such a handler's entity can write the pending address.
MovesPending(op) == "pending" \in Carried(op)

Init ==
    /\ row       = [u \in Users |-> NoRow]
    /\ slot      = [r \in Requests |-> Idle]
    /\ entered   = {}
    /\ codes     = 0
    /\ passwords = 0
    /\ failures  = 0
    /\ accounted = {}
    /\ crossed   = {}
    /\ held      = [u \in Users |-> 0]
    /\ closed    = {}

-----------------------------------------------------------------------------
(* Loading and saving.                                                     *)

Stored(e) == \E u \in Users : row[u].status # "none" /\ row[u].email = e

\* Both can write the pending address, and one of them makes the code of a new one.
Meet(op, p) == MovesPending(op) /\ MovesPending(p) /\ "requestEmailChange" \in {op, p}

\* A request takes up a user's row, as entity, and is now at the given point.
Take(r, op, u, at, entity) ==
    LET overlaps == {q \in Others(r, u) : Meet(op, slot[q].op)}
    IN  /\ slot[r] = Idle
        /\ slot' = [q \in Requests |->
              IF q = r
              THEN [at |-> at, op |-> op, of |-> u, dirty |-> {}, alone |-> overlaps = {},
                    entity |-> [c \in Columns |-> IF c \in Carried(op) THEN entity[c] ELSE NoRow[c]]]
              ELSE IF q \in overlaps THEN [slot[q] EXCEPT !.alone = FALSE] ELSE slot[q]]
        /\ UNCHANGED <<row, entered, failures, crossed, held, closed>>

Load(r, op, u, entity) == row[u].status # "none" /\ Take(r, op, u, "loaded", entity)

\* A code is made if the bound allows, those that handlers in flight will make included.
MakesCode(s) == s.at = "new" \/ (s.at = "checking" /\ s.op = "requestEmailChange")
CodesLeft    == codes + Cardinality({q \in Requests : MakesCode(slot[q])}) < MaxCodes
CountCode    == codes' = codes + 1

NextPassword == passwords + 1
Choose       == NextPassword <= MaxPasswords /\ passwords' = NextPassword

\* Mutant of Differing: what was not loaded is written as null.
MutWritesUnloaded(s) == {c \in Columns : s.entity[c] # row[s.of][c]}

\* The columns save finds changed.
Differing(s) == {c \in Carried(s.op) : c \in Hidden \/ s.entity[c] # row[s.of][c]}

\* The entity is reduced to what the UPDATE will write.
SaveSelect(r) ==
    LET s == slot[r]
        dirty == Differing(s)
    IN  /\ s.at = "loaded"
        /\ slot' = [slot EXCEPT ![r] =
              [at |-> "selected", op |-> s.op, of |-> s.of, dirty |-> dirty, alone |-> s.alone,
               entity |-> [c \in Columns |-> IF c \in dirty THEN s.entity[c] ELSE NoRow[c]]]]
        /\ UNCHANGED <<row, entered, codes, passwords, failures, history>>

Written(s) == [c \in Columns |-> IF c \in s.dirty THEN s.entity[c] ELSE row[s.of][c]]

\* The unique index on email lets the entity in.
Unique(s, e) == \A v \in Users \ {s.of} : row[v].status # "none" => row[v].email # e

ChoosesPassword(op) == op \in {"create", "register", "resetPassword", "changePassword"}

Held(r, s) ==
    IF ~ChoosesPassword(s.op) THEN held
    ELSE [held EXCEPT ![s.of] = IF \E q \in Others(r, s.of) : slot[q].op = "login"
                                THEN 0 ELSE s.entity.pw]

Closed(r, s) ==
    IF s.op \notin {"deactivate", "updateStatus", "verify"} THEN closed
    ELSE IF \/ Written(s).status = "active"
            \/ \E q \in Others(r, s.of) : slot[q].entity.status = "active"
    THEN closed \ {s.of} ELSE closed \cup {s.of}

Crossed(s) ==
    IF ~s.alone THEN crossed \cup {s.of}
    ELSE IF s.op = "requestEmailChange" THEN crossed \ {s.of} ELSE crossed

\* Activation by an administrator vouches for the address.
Vouched(s) == IF s.op = "updateStatus" /\ Written(s).status = "active"
              THEN {<<s.of, Written(s).email>>} ELSE {}

\* The UPDATE.  login then returns its tokens.
SaveCommit(r) ==
    LET s == slot[r]
    IN  /\ s.at = "selected" /\ Unique(s, Written(s).email)
        /\ row' = [row EXCEPT ![s.of] = Written(s)]
        /\ entered' = IF s.op = "login" THEN entered \cup {s.of} ELSE entered
        /\ slot' = [slot EXCEPT ![r] = Idle]
        /\ held' = Held(r, s) /\ closed' = Closed(r, s) /\ crossed' = Crossed(s)
        /\ accounted' = accounted \cup Vouched(s)
        /\ UNCHANGED <<codes, passwords, failures>>

\* The address a change of e-mail looks up.
Wanted(s) == IF s.op = "confirmEmailChange" THEN s.entity.email ELSE s.entity.pending

\* The address has been taken meanwhile: the handler finds it, or the database refuses.
Refused(r) ==
    /\ \/ slot[r].at = "selected" /\ ~Unique(slot[r], Written(slot[r]).email)
       \/ slot[r].at = "new" /\ ~Unique(slot[r], slot[r].entity.email)
       \/ slot[r].at = "checking" /\ Stored(Wanted(slot[r]))
    /\ slot' = [slot EXCEPT ![r] = Idle]
    /\ UNCHANGED <<row, entered, codes, passwords, failures, history>>

\* An error or a restart between two statements: what was written stays.
Fail(r) ==
    /\ slot[r] # Idle
    /\ failures < MaxFailures /\ failures' = failures + 1
    /\ slot' = [slot EXCEPT ![r] = Idle]
    /\ UNCHANGED <<row, entered, codes, passwords, history>>

-----------------------------------------------------------------------------
(* The handlers.                                                           *)

\* login: the password is right and the account active.  It updates lastLogin only.
Login(r, u) ==
    /\ row[u].status = "active"
    /\ Load(r, "login", u, row[u])
    /\ UNCHANGED <<codes, passwords, accounted>>

\* register, of an address nobody has: usersService.create is about to insert the user.
Register(r, u, e) ==
    /\ row[u].status = "none" /\ Others(r, u) = {}
    /\ ~Stored(e)
    /\ Choose /\ CodesLeft
    /\ Take(r, "create", u, "new",
            [NoRow EXCEPT !.status = "pending_verification", !.email = e, !.pw = NextPassword])
    /\ UNCHANGED <<codes, accounted>>

\* The INSERT of create; register then gives the entity a code and saves it again.
Insert(r) ==
    LET s == slot[r]
    IN  /\ s.at = "new" /\ Unique(s, s.entity.email)
        /\ row' = [row EXCEPT ![s.of] = s.entity]
        /\ held' = [held EXCEPT ![s.of] = s.entity.pw]
        /\ CountCode
        /\ slot' = [slot EXCEPT ![r].at = "loaded", ![r].entity.vcode = s.entity.email]
        /\ UNCHANGED <<entered, passwords, failures, accounted, crossed, closed>>

\* register, of an address that waits for its verification.
RegisterAgain(r, u) ==
    /\ row[u].status = "pending_verification"
    /\ Choose /\ CodesLeft /\ CountCode
    /\ Load(r, "register", u, [row[u] EXCEPT !.pw = NextPassword, !.vcode = row[u].email])
    /\ UNCHANGED accounted

ResendVerification(r, u) ==
    /\ row[u].status # "active"
    /\ CodesLeft /\ CountCode
    /\ Load(r, "resendVerification", u, [row[u] EXCEPT !.vcode = row[u].email])
    /\ UNCHANGED <<passwords, accounted>>

\* verify, with the code of the row.
Verify(r, u) ==
    /\ row[u].vcode # NoEmail
    /\ Load(r, "verify", u, [row[u] EXCEPT !.status = "active", !.vcode = NoEmail])
    /\ accounted' = accounted \cup {<<u, row[u].vcode>>}
    /\ UNCHANGED <<codes, passwords>>

ForgotPassword(r, u) ==
    /\ row[u].status = "active"
    /\ CodesLeft /\ CountCode
    /\ Load(r, "forgotPassword", u, [row[u] EXCEPT !.rtoken = row[u].email])
    /\ UNCHANGED <<passwords, accounted>>

\* Mutant of Reset: the token is taken for a verification.
MutReopens(u) == [row[u] EXCEPT !.pw = NextPassword, !.rtoken = NoEmail, !.status = "active"]

Reset(u) == [row[u] EXCEPT !.pw = NextPassword, !.rtoken = NoEmail]

\* resetPassword, with the token of the row.
ResetPassword(r, u) ==
    /\ row[u].rtoken # NoEmail
    /\ Choose
    /\ Load(r, "resetPassword", u, Reset(u))
    /\ UNCHANGED <<codes, accounted>>

\* changePassword, with the right current password.
ChangePassword(r, u) ==
    /\ u \in entered
    /\ Choose
    /\ Load(r, "changePassword", u, [row[u] EXCEPT !.pw = NextPassword])
    /\ UNCHANGED <<codes, accounted>>

\* requestEmailChange: the user is loaded, the new address is looked up next.
RequestEmailChange(r, u, e) ==
    /\ u \in entered /\ CodesLeft
    /\ Take(r, "requestEmailChange", u, "checking", [row[u] EXCEPT !.pending = e])
    /\ UNCHANGED <<codes, passwords, accounted>>

\* Mutant of Usable: the code is compared, the address it is for is not.
MutCodeOnly(u, e) == row[u].pcode # NoEmail

\* The pair confirmEmailChange asks for: the pending address and its code.
Usable(u, e) == row[u].pending = e /\ row[u].pcode # NoEmail

\* confirmEmailChange, to address e, which is looked up next.
ConfirmEmailChange(r, u, e) ==
    /\ Usable(u, e)
    /\ Take(r, "confirmEmailChange", u, "checking",
            [row[u] EXCEPT !.email = e, !.pending = NoEmail, !.pcode = NoEmail])
    /\ accounted' = accounted \cup {<<u, IF u \in crossed THEN e ELSE row[u].pcode>>}
    /\ UNCHANGED <<codes, passwords>>

\* The address is free; requestEmailChange makes its code.
CheckFree(r) ==
    LET s == slot[r]
    IN  /\ s.at = "checking" /\ ~Stored(Wanted(s))
        /\ IF s.op = "requestEmailChange"
           THEN /\ CountCode
                /\ slot' = [slot EXCEPT ![r].at = "loaded", ![r].entity.pcode = s.entity.pending]
           ELSE /\ slot' = [slot EXCEPT ![r].at = "loaded"]
                /\ UNCHANGED codes
        /\ UNCHANGED <<row, entered, passwords, failures, history>>

\* resendEmailConfirmation saves the time, with the address and the code it loaded.
ResendEmailConfirmation(r, u) ==
    /\ u \in entered /\ row[u].pending # NoEmail /\ row[u].pcode # NoEmail
    /\ Load(r, "resendEmailConfirmation", u, row[u])
    /\ UNCHANGED <<codes, passwords, accounted>>

CancelEmailChange(r, u) ==
    /\ u \in entered
    /\ Load(r, "cancelEmailChange", u, [row[u] EXCEPT !.pending = NoEmail, !.pcode = NoEmail])
    /\ UNCHANGED <<codes, passwords, accounted>>

\* update and updateImage of users.service.ts: columns that are not modelled.
Profile(r, u) ==
    /\ u \in entered
    /\ Load(r, "profile", u, row[u])
    /\ UNCHANGED <<codes, passwords, accounted>>

DeactivateAccount(r, u) ==
    /\ u \in entered
    /\ Load(r, "deactivate", u, [row[u] EXCEPT !.status = "inactive"])
    /\ UNCHANGED <<codes, passwords, accounted>>

\* updateStatus, by an administrator.
UpdateStatus(r, u, status) ==
    /\ Load(r, "updateStatus", u, [row[u] EXCEPT !.status = status])
    /\ UNCHANGED <<codes, passwords, accounted>>

Next ==
    \/ \E r \in Requests, u \in Users :
           \/ Login(r, u) \/ RegisterAgain(r, u) \/ ResendVerification(r, u) \/ Verify(r, u)
           \/ ForgotPassword(r, u) \/ ResetPassword(r, u) \/ ChangePassword(r, u)
           \/ ResendEmailConfirmation(r, u) \/ CancelEmailChange(r, u)
           \/ Profile(r, u) \/ DeactivateAccount(r, u)
           \/ \E e \in Emails : \/ Register(r, u, e)
                               \/ RequestEmailChange(r, u, e) \/ ConfirmEmailChange(r, u, e)
           \/ \E status \in AdminStatuses : UpdateStatus(r, u, status)
    \/ \E r \in Requests : \/ Insert(r) \/ CheckFree(r) \/ SaveSelect(r) \/ SaveCommit(r)
                           \/ Refused(r) \/ Fail(r)

Spec == Init /\ [][Next]_vars

-----------------------------------------------------------------------------
(* Correctness.                                                            *)

\* The type invariant; a stored user has an address and a password.
TypeOK ==
    /\ row \in [Users -> Row]
    /\ \A u \in Users : row[u].status # "none" => row[u].email \in Emails /\ row[u].pw # 0
    /\ slot \in [Requests -> Slot]
    /\ entered \in SUBSET Users
    /\ codes \in 0..MaxCodes
    /\ passwords \in 0..MaxPasswords
    /\ failures \in 0..MaxFailures
    /\ accounted \in SUBSET (Users \X Emails)
    /\ crossed \in SUBSET Users /\ closed \in SUBSET Users
    /\ held \in [Users -> 0..MaxPasswords]

\* The address of an active account is proved: a code mailed to it has come back, or an
\* administrator activated the account.  The exception is a requestEmailChange in flight
\* together with another save that carries the pending address (a second request, resend,
\* cancel, confirm, login, register, changePassword, profile, deactivate, updateStatus): it
\* can leave the address of the one beside the code of the other, which confirmEmailChange
\* then takes, until a request has been alone.  Without it no sequence of changes,
\* cancellations, resends and failures, no stale save of any handler, and no race for one
\* address gives an account an unproved one (verify, confirmEmailChange and every save).
EmailProved ==
    \A u \in Users : row[u].status = "active" => <<u, row[u].email>> \in accounted

\* A chosen password stays in force until the next is chosen: a save of a handler that
\* does not set the password puts an old one back only if it is a login that was in flight
\* when the password was set (login saves the hash it loaded).
ChosenPasswordHolds == \A u \in Users : held[u] # 0 => row[u].pw = held[u]

\* An account that was shut stays shut until it is verified or an administrator opens it,
\* unless a handler that had loaded it as active saves it back (every save of a user).
ShutStaysShut == \A u \in closed : row[u].status # "active"

=============================================================================
