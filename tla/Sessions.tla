------------------------------ MODULE Sessions ------------------------------
(***************************************************************************)
(* The login sessions of one user (sessions.service.ts, the session part   *)
(* of auth.service.ts, jwt.strategy.ts) and the user's web sockets         *)
(* (app.gateway.ts).                                                       *)
(*                                                                         *)
(* A handler first checks the session, then loads its row again and saves  *)
(* it, as in ContractLifecycle: save reads the row once more and writes    *)
(* the columns in which the entity differs from it.  What login checks of  *)
(* the user's own row is in Accounts.                                      *)
(*                                                                         *)
(* A refresh token is its number in its session; hash is the number of the *)
(* token whose bcrypt hash is stored.  Expiry of tokens only refuses       *)
(* requests: it is the request not being made.                             *)
(***************************************************************************)
EXTENDS Integers, FiniteSets

CONSTANTS
    SessionIds,   \* identities a session row can be given
    NoSession,
    MaxTokens,    \* bound: refresh tokens signed for one session
    Calls,        \* requests that can be in flight at once
    MaxMishaps,   \* bound: requests, answers and lookups that fail
    Sockets       \* sockets that can be open at once

ASSUME NoSessionAssumption     == NoSession \notin SessionIds
ASSUME SessionBoundsAssumption == MaxTokens \in Nat \ {0} /\ MaxMishaps \in Nat

VARIABLES
    session,    \* the sessions table
    issued,     \* refresh tokens signed for each session so far
    given,      \* those that were returned to the client
    handler,    \* the handler each request has in flight
    mishaps,    \* failed requests, answers and lookups so far
    socket,     \* the state of each web socket
    online,     \* the user is in the gateway's onlineUsers
    latest,     \* history: the token of each session the client was answered with last
    quiet,      \* history: sessions revoked while no save that would undo it was loaded
    overlapped, \* history: two sockets were there at once, and none has been alone since
    ghost       \* history: the socket found last had closed by then, and none has closed since

dbVars      == <<session, issued, given, latest, handler, quiet>>
socketVars  == <<socket, online, overlapped, ghost>>
sessionVars == <<dbVars, socketVars, mishaps>>

Tokens == 1..MaxTokens

SessionRow   == [state : {"none", "open", "revoked"}, hash : 0..MaxTokens]
NoSessionRow == [state |-> "none", hash |-> 0]

SessionColumns == {"state", "hash"}

SessionOps == {"login", "refresh", "logout", "logoutAll"}

Handler == [at : {"idle", "checked", "loaded", "selected"}, op : SessionOps \cup {"none"},
            of : SessionIds \cup {NoSession}, entity : SessionRow, dirty : SUBSET SessionColumns]

NoHandler == [at |-> "idle", op |-> "none", of |-> NoSession,
              entity |-> NoSessionRow, dirty |-> {}]

At(h, at, entity, dirty) ==
    [at |-> at, op |-> h.op, of |-> h.of, entity |-> entity, dirty |-> dirty]

\* The handler will write the hash of a token: it ends with updateRefreshTokenHash.
StoresHash(h) == h.op \in {"login", "refresh"}

\* ... and has read the row for it when the session was still open.
HoldsOpen(h, id) ==
    h.of = id /\ StoresHash(h) /\ h.at \in {"loaded", "selected"} /\ h.entity.state = "open"

SessionInit ==
    /\ session    = [id \in SessionIds |-> NoSessionRow]
    /\ issued     = [id \in SessionIds |-> 0]
    /\ given      = [id \in SessionIds |-> {}]
    /\ latest     = [id \in SessionIds |-> 0]
    /\ handler    = [r \in Calls |-> NoHandler]
    /\ mishaps    = 0
    /\ socket     = [k \in Sockets |-> "off"]
    /\ online     = FALSE
    /\ quiet      = {}
    /\ overlapped = FALSE
    /\ ghost      = FALSE

-----------------------------------------------------------------------------
(* Logging in, refreshing and logging out.                                 *)

\* bcrypt compares the first 72 bytes.  Those of a token are the encoded header and the
\* beginning of the user's id: every token of the user matches the hash of every other.
Matches(n, hash) == hash # 0

\* What refresh demands of token n: the session is not revoked and the hash matches.
Accepted(id, n) == session[id].state = "open" /\ Matches(n, session[id].hash)

Check(r, op, id) ==
    /\ handler[r] = NoHandler
    /\ handler' = [handler EXCEPT ![r] = [at |-> "checked", op |-> op, of |-> id,
                                          entity |-> NoSessionRow, dirty |-> {}]]

\* login, once the credentials are right: createSession inserts an open session.
CreateSession(r, id) ==
    /\ session[id].state = "none"
    /\ session' = [session EXCEPT ![id] = [state |-> "open", hash |-> 0]]
    /\ Check(r, "login", id)
    /\ UNCHANGED <<issued, given, latest, mishaps, quiet, socketVars>>

\* refresh: getSession finds the session open and the token matches.
Refresh(r, id, n) ==
    /\ n \in given[id] /\ Accepted(id, n)
    /\ Check(r, "refresh", id)
    /\ UNCHANGED <<session, issued, given, latest, mishaps, quiet, socketVars>>

\* logout and logoutAll: the guard of the route (JwtStrategy.validate) finds the session
\* of the access token open.
Logout(r, id, op) ==
    /\ given[id] # {} /\ session[id].state = "open"
    /\ op \in {"logout", "logoutAll"}
    /\ Check(r, op, id)
    /\ UNCHANGED <<session, issued, given, latest, mishaps, quiet, socketVars>>

\* The answer to login or refresh: the token whose hash was stored.
Answer(id, n) ==
    /\ given'  = [given EXCEPT ![id] = @ \cup {n}]
    /\ latest' = [latest EXCEPT ![id] = n]

NoAnswer == UNCHANGED <<given, latest>>

\* Mutant of Sign: the answer does not wait for the hash.
MutAnswersEarly(id) == issued' = [issued EXCEPT ![id] = @ + 1] /\ Answer(id, issued'[id])

\* signTokens: the answer waits until the hash is stored.
Sign(id) == issued' = [issued EXCEPT ![id] = @ + 1] /\ NoAnswer

\* The token the next signTokens makes.
NextToken(id) == issued[id] + 1

\* Mutant of Found: updateRefreshTokenHash is handed the row that was checked.
MutAsChecked(id) == [session[id] EXCEPT !.state = "open"]

\* findOne of updateRefreshTokenHash and of revokeSession: the row, revoked or not.
Found(id) == session[id]

\* The entity to save: the row, given the hash of a new token or a revokedAt.
Changed(h) ==
    IF StoresHash(h) THEN [state |-> Found(h.of).state, hash |-> NextToken(h.of)]
                     ELSE [state |-> "revoked", hash |-> Found(h.of).hash]

LoadSession(r) ==
    LET h == handler[r]
    IN  /\ h.at = "checked" /\ h.op # "logoutAll"
        /\ handler' = [handler EXCEPT ![r] = At(h, "loaded", Changed(h), {})]
        /\ IF StoresHash(h) THEN issued[h.of] < MaxTokens /\ Sign(h.of)
                            ELSE UNCHANGED issued /\ NoAnswer
        /\ UNCHANGED <<session, mishaps, quiet, socketVars>>

\* The columns save finds changed; revokedAt = now and a fresh hash always are.
ChangedColumns(h, row) ==
    {c \in SessionColumns : \/ c = "state" /\ (~StoresHash(h) \/ h.entity.state # row.state)
                            \/ c = "hash"  /\ (StoresHash(h) \/ h.entity.hash # row.hash)}

SelectSession(r) ==
    /\ handler[r].at = "loaded"
    /\ handler' = [handler EXCEPT ![r] = At(@, "selected", @.entity,
                                            ChangedColumns(@, session[@.of]))]
    /\ UNCHANGED <<session, issued, given, latest, mishaps, quiet, socketVars>>

UpdatedRow(h, row) == [state |-> IF "state" \in h.dirty THEN h.entity.state ELSE row.state,
                       hash  |-> IF "hash"  \in h.dirty THEN h.entity.hash  ELSE row.hash]

\* Sessions that a revocation of ids closes for good.
Quiet(ids) == {id \in ids : \A q \in Calls : ~HoldsOpen(handler[q], id)}

\* The UPDATE of save.
Store(r) ==
    LET h == handler[r]
    IN  /\ h.at = "selected"
        /\ session' = [session EXCEPT ![h.of] = UpdatedRow(h, @)]
        /\ quiet' = IF StoresHash(h) THEN quiet ELSE quiet \cup Quiet({h.of})
        /\ handler' = [handler EXCEPT ![r] = NoHandler]
        /\ UNCHANGED <<issued, socketVars>>

\* login and refresh return the new tokens after it ...
CommitSession(r) ==
    /\ Store(r)
    /\ IF StoresHash(handler[r]) THEN Answer(handler[r].of, handler[r].entity.hash) ELSE NoAnswer
    /\ UNCHANGED mishaps

\* ... which the client does not receive if the connection or the process ends then.
LoseAnswer(r) ==
    /\ Store(r) /\ StoresHash(handler[r]) /\ NoAnswer
    /\ mishaps < MaxMishaps /\ mishaps' = mishaps + 1

\* logoutAll revokes the open sessions by one UPDATE.
RevokeAll(r) ==
    LET open == {i \in SessionIds : session[i].state = "open"}
    IN  /\ handler[r].at = "checked" /\ handler[r].op = "logoutAll"
        /\ session' = [i \in SessionIds |-> IF i \in open THEN [session[i] EXCEPT !.state = "revoked"]
                                                           ELSE session[i]]
        /\ quiet' = quiet \cup Quiet(open)
        /\ handler' = [handler EXCEPT ![r] = NoHandler]
        /\ UNCHANGED <<issued, given, latest, mishaps, socketVars>>

\* An error or a restart between two statements: what was written stays.
CallFails(r) ==
    /\ handler[r] # NoHandler
    /\ mishaps < MaxMishaps /\ mishaps' = mishaps + 1
    /\ handler' = [handler EXCEPT ![r] = NoHandler]
    /\ UNCHANGED <<session, issued, given, latest, quiet, socketVars>>

-----------------------------------------------------------------------------
(* The gateway.                                                            *)

AloneWith(k) == \A j \in Sockets \ {k} : socket[j] = "off"

\* handleConnection verifies the access token, not the session, and looks up the user.
Connect(k) ==
    /\ \E id \in SessionIds : given[id] # {}
    /\ socket[k] = "off"
    /\ socket' = [socket EXCEPT ![k] = "looking"]
    /\ overlapped' = (overlapped \/ ~AloneWith(k))
    /\ UNCHANGED <<dbVars, mishaps, online, ghost>>

\* The user is found: the socket joins its room and the user is online, even if the
\* socket has been closed meanwhile.
FoundUser(k) ==
    /\ socket[k] \in {"looking", "gone"}
    /\ socket' = [socket EXCEPT ![k] = IF @ = "gone" THEN "off" ELSE "on"]
    /\ online' = TRUE
    /\ ghost' = (socket[k] = "gone")
    /\ overlapped' = (overlapped /\ ~AloneWith(k))
    /\ UNCHANGED <<dbVars, mishaps>>

\* The lookup throws: the handler closes the socket.
LookupFails(k) ==
    /\ socket[k] \in {"looking", "gone"}
    /\ mishaps < MaxMishaps /\ mishaps' = mishaps + 1
    /\ socket' = [socket EXCEPT ![k] = "off"]
    /\ UNCHANGED <<dbVars, online, overlapped, ghost>>

\* Mutant of HandleDisconnect: the user stays listed.
MutStaysListed(k) ==
    /\ socket[k] = "on"
    /\ socket' = [socket EXCEPT ![k] = "off"]
    /\ ghost' = FALSE
    /\ overlapped' = (overlapped /\ ~AloneWith(k))
    /\ UNCHANGED <<dbVars, mishaps, online>>

\* handleDisconnect: the user goes offline, whatever other sockets they have.
HandleDisconnect(k) ==
    /\ socket[k] = "on"
    /\ socket' = [socket EXCEPT ![k] = "off"]
    /\ online' = FALSE
    /\ ghost' = FALSE
    /\ overlapped' = (overlapped /\ ~AloneWith(k))
    /\ UNCHANGED <<dbVars, mishaps>>

\* A socket that closes before its user was found has no user yet: nothing happens.
DisconnectEarly(k) ==
    /\ socket[k] = "looking"
    /\ socket' = [socket EXCEPT ![k] = "gone"]
    /\ UNCHANGED <<dbVars, mishaps, online, overlapped, ghost>>

SessionNext ==
    \/ \E r \in Calls, id \in SessionIds :
           \/ CreateSession(r, id) \/ \E n \in Tokens : Refresh(r, id, n)
           \/ \E op \in {"logout", "logoutAll"} : Logout(r, id, op)
    \/ \E r \in Calls : \/ LoadSession(r) \/ SelectSession(r) \/ CommitSession(r)
                        \/ LoseAnswer(r) \/ RevokeAll(r) \/ CallFails(r)
    \/ \E k \in Sockets : \/ Connect(k) \/ FoundUser(k) \/ LookupFails(k)
                          \/ HandleDisconnect(k) \/ DisconnectEarly(k)

SessionSpec == SessionInit /\ [][SessionNext]_sessionVars

-----------------------------------------------------------------------------
(* Correctness.                                                            *)

\* The type invariant.
SessionTypeOK ==
    /\ session \in [SessionIds -> SessionRow]
    /\ issued \in [SessionIds -> 0..MaxTokens]
    /\ given \in [SessionIds -> SUBSET Tokens]
    /\ latest \in [SessionIds -> 0..MaxTokens]
    /\ handler \in [Calls -> Handler]
    /\ mishaps \in 0..MaxMishaps
    /\ socket \in [Sockets -> {"off", "looking", "on", "gone"}]
    /\ online \in BOOLEAN /\ overlapped \in BOOLEAN /\ ghost \in BOOLEAN
    /\ quiet \in SUBSET SessionIds

\* A session that logout or logoutAll revoked stays revoked, unless a login or refresh of
\* that session had loaded its row by then and saves it afterwards with revokedAt null
\* (revokeSession, revokeAllUserSessions, updateRefreshTokenHash).
LogoutIsFinal == \A id \in quiet : session[id].state = "revoked"

\* The hash on record of an open session is of the token the client was answered with
\* last, or of one whose answer was lost: never of a token that a later one replaced,
\* although refreshes overlap, a logout saves the hash it had loaded, and a late refresh
\* opens a revoked session again (updateRefreshTokenHash, revokeSession).
NewestOnRecord ==
    \A id \in SessionIds :
        session[id].state = "open" /\ given[id] # {} =>
            session[id].hash \in {latest[id]} \cup (Tokens \ given[id])

\* A user is listed as online exactly while a socket is open, with two exceptions: two
\* connections were there at once, until one has been alone when it was found or closed;
\* and a lone socket that closed before its user was found is listed all the same, which
\* leaves the user online with no socket until a later one closes (handleConnection,
\* handleDisconnect).
PresenceSettles ==
    overlapped \/ (online <=> ghost \/ \E k \in Sockets : socket[k] = "on")

-----------------------------------------------------------------------------
(* A claim of the repository that the code does not keep (see the README). *)

\* Refresh tokens rotate ("Rotate tokens" in refresh): once the client was answered with
\* a newer token, refresh refuses an earlier one ("Refresh token revoked").
RotatedIsRefused ==
    \A id \in SessionIds : \A n \in given[id] \ {latest[id]} : ~Accepted(id, n)

=============================================================================
